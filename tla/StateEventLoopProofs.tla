------------------------ MODULE StateEventLoopProofs -------------------------
(***************************************************************************)
(* Proofs about StateEventLoop, for every number of machines, states,      *)
(* events, posting threads, posts and starts.                              *)
(***************************************************************************)
EXTENDS StateEventLoop, FiniteSetTheorems, SequenceTheorems, TLAPS

-----------------------------------------------------------------------------
(* The inductive invariant.                                                *)

\* Where the worker is at a machine, where it has an event, and where it has
\* taken the kill request; the ways of Main through a start, and through the end
\* of the loop. A post past its test of destroying.
AtMachine == {"handle", "valid", "handling", "transition", "exit", "exiting",
              "enter", "initing", "entering"}
HasEvent == AtMachine \cup {"pre", "notify", "release"}
Gone == {"leaving", "signal", "ended"}
WorkerStates == HasEvent \cup Gone \cup {"wait", "free"}
Starting == {"load", "flag", "enter"}
Closing == {"kill", "wait", "join"}
Dismantling == {"drop_blocks", "drop_queue", "deinit_stop", "deinit_pool", "done"}
MainStates == Starting \cup Closing \cup Dismantling \cup {"idle", "stop"}
PastTest == {"block", "enqueue"}

\* x is on the dispatch queue.
InQueue(x) == \E i \in 1..Len(queue) : queue[i] = x

\* The control states, and who has an event in hand.
HandsInv ==
    /\ wpc \in WorkerStates /\ mpc \in MainStates
    /\ wpc \in HasEvent <=> wev \in Events
    /\ \A t \in Callers : pc[t] \in {"dispatch", "block", "enqueue"} <=> mem[t] \in Events

\* An event is in one place at most: in a post, in the queue, with the worker,
\* or leaked.
OwnInv ==
    /\ \A i, j \in 1..Len(queue) : queue[i] = queue[j] /\ queue[i] \in Events => i = j
    /\ \A e \in Events :
        InQueue(e) => e \notin leaked /\ e # wev /\ \A t \in Callers : mem[t] # e
    /\ \A t \in Callers :
        mem[t] \in Events =>
            /\ mem[t] \notin leaked /\ mem[t] # wev
            /\ \A u \in Callers : mem[u] = mem[t] => u = t
    /\ wev \notin leaked

\* Somebody other than a listener has event e.
Carried(e) == (\E t \in Callers : mem[t] = e) \/ InQueue(e) \/ wev = e \/ e \in leaked

\* Its count is one for that, and one for a listener that retained it.
CountInv ==
    \A e \in Events :
        /\ refs[e] = (IF Carried(e) THEN 1 ELSE 0) + (IF e \in retained THEN 1 ELSE 0)
        /\ e \in free <=> refs[e] = 0

\* The kill request is posted once, and without a race it is the last thing the
\* worker takes.
KillInv ==
    /\ InQueue(Kill) \/ wpc \in Gone => destroying /\ mpc # "kill"
    /\ destroying <=> mpc \in Closing \cup Dismantling
    /\ ~racing => /\ \A i \in 1..Len(queue) : queue[i] = Kill => i = Len(queue)
                  /\ wpc \in Gone => queue = <<>>
    /\ mpc \in Dismantling => wpc = "ended"

\* What has been taken apart; the posts that can still meet it raced.
LiveInv ==
    /\ plive <=> mpc # "done"
    /\ blive <=> mpc \notin Dismantling \ {"drop_blocks"}
    /\ qlive <=> mpc \notin Dismantling \ {"drop_blocks", "drop_queue"}
    /\ destroying /\ (\E t \in Callers : pc[t] \in PastTest) => racing

\* The worker is inside a machine that has been started, a NULL current_state is
\* that of a machine that was stopped or that nobody has come to yet, and Main
\* begins at the first machine.
MachineInv ==
    /\ \A i \in Machines : sm[i].requested => sm[i].started
    /\ wpc \in AtMachine \ {"handle", "transition", "entering"} => sm[wi].started
    /\ \A i \in Machines :
        sm[i].current = NoState /\ i \notin stopped =>
            ~sm[i].started /\ ~(mpc \in {"flag", "enter"} /\ mi = i)
    /\ mpc \in {"idle", "drop_blocks", "drop_queue"} \cup Closing => mi = 1

\* What overlap records.
ApartInv == ~overlap => ~(mpc \in Starting \cup {"stop", "deinit_stop"}
                          /\ wpc \in AtMachine /\ mi = wi)

\* The state that machine i has entered and not left.
Paired(i) ==
    inside[i] = IF \/ wpc \in {"exiting", "enter", "initing"} /\ wi = i
                   \/ mpc \in {"flag", "enter"} /\ mi = i
                THEN NoState ELSE sm[i].current

\* A requested transition of machine i is the one the worker is about to make.
Settled(i) ==
    sm[i].requested => wpc = "transition" /\ wi = i /\ sm[i].next # sm[i].current

\* The worker leaves a state only if there is one.
LeavesInv == wpc \in {"exit", "exiting", "enter"} => sm[wi].current # NoState

\* It enters the one it initialised. The machines Main has not come to yet, in a
\* start, have no state; nor do those it has left, at the end of the loop.
ProgressInv ==
    /\ LeavesInv
    /\ wpc = "initing" => wst = sm[wi].current
    /\ mpc = "load" => sm[mi].current = NoState
    /\ mpc \in Starting => \A i \in Machines : i > mi => sm[i].current = NoState
    /\ mpc = "deinit_stop" => \A i \in Machines : i < mi => sm[i].current = NoState

\* A loop that has been dismantled has left every state.
LeftInv ==
    mpc \in {"deinit_pool", "done"} /\ ~overlap => \A i \in Machines : inside[i] = NoState

\* What holds of the machines as long as Main and the worker have kept apart.
PairInv ==
    ~overlap /\ ended = "no" =>
        (\A i \in Machines : Paired(i) /\ Settled(i)) /\ ProgressInv

\* The inductive invariant.
LoopInv ==
    /\ TypeOK /\ HandsInv /\ OwnInv /\ CountInv /\ KillInv /\ LiveInv
    /\ MachineInv /\ ApartInv /\ PairInv /\ LeftInv /\ EndCauses

-----------------------------------------------------------------------------
(* The steps, without what Run adds to them.                               *)

\* Main's steps at the end of the loop.
Deinit == DeinitKill \/ DeinitWait \/ DeinitJoin \/ DeinitBlocks \/ DeinitQueue \/ DeinitPool

\* A stop from a callback that overlap does not record: Main is at no machine,
\* and the callback is neither an f_exit nor an f_init.
ClearStop ==
    /\ WorkerStop
    /\ ~overlap' => MainAt = {} /\ wpc \notin {"exiting", "initing"}

\* The disjuncts of Next under Run.
Step ==
    \/ \E i \in Machines, s \in States : state_event_loop_add_state(i, s)
    \/ state_event_loop_install_event_pre_proc
    \/ state_event_loop_start \/ state_event_loop_stop
    \/ state_event_loop_deinit
    \/ StartLoad \/ StartFlag \/ StartEnter \/ StopMachine \/ Deinit
    \/ \E t \in Callers : state_event_loop_post(t) \/ PostStep(t)
    \/ WorkerStep \/ ClearStop
    \/ \E e \in Events : ListenerRelease(e)

\* What Run adds: the ghost overlap.
Watch ==
    /\ overlap' \in BOOLEAN
    /\ overlap => overlap'
    /\ ~overlap' => (MainAt \cap WorkerAt)' = {}

\* A step of the program that has not ended, or none at all.
LEMMA StepOrStutter ==
  ASSUME TypeOK, [Next]_vars
  PROVE  (ended = "no" /\ Step /\ Watch) \/ UNCHANGED vars
<1>1. overlap \in BOOLEAN
  BY DEF TypeOK
<1>2. CASE Run(WorkerStop, MainAt # {} \/ wpc \in {"exiting", "initing"})
  BY <1>1, <1>2 DEF Run, Step, ClearStop, Watch
<1>3. CASE /\ [Next]_vars
           /\ ~Run(WorkerStop, MainAt # {} \/ wpc \in {"exiting", "initing"})
  BY <1>1, <1>3 DEF Next, Run, Finished, Step, Watch, MainStep, Deinit
<1>4. QED
  BY <1>2, <1>3

\* The special values are apart from the others.
LEMMA Distinct ==
  /\ NoEvent \notin Events /\ Kill \notin Events
  /\ Start \in States /\ NoState \notin States
  /\ Worker \in Callers
  /\ N \in Nat /\ 1 \in Machines
  BY LoopAssumption DEF Callers, Machines

\* What Append makes of a sequence.
LEMMA AppendIs ==
  ASSUME NEW S, NEW s \in Seq(S), NEW x \in S
  PROVE  /\ Append(s, x) \in Seq(S)
         /\ Len(s) \in Nat
         /\ Len(Append(s, x)) = Len(s) + 1
         /\ \A i \in 1..Len(s) : Append(s, x)[i] = s[i]
         /\ Append(s, x)[Len(s) + 1] = x
  BY AppendProperties, LenProperties

\* What Head and Tail make of a sequence that is not empty.
LEMMA TailIs ==
  ASSUME NEW S, NEW s \in Seq(S), s # <<>>
  PROVE  /\ Tail(s) \in Seq(S)
         /\ Len(s) \in Nat \ {0}
         /\ Len(Tail(s)) = Len(s) - 1
         /\ \A i \in 1..(Len(s) - 1) : Tail(s)[i] = s[i + 1]
         /\ Head(s) = s[1] /\ Head(s) \in S
<1>1. Len(s) \in Nat \ {0}
  BY EmptySeq
<1>2. /\ Tail(s) \in Seq(S) /\ Len(Tail(s)) = Len(s) - 1
      /\ \A i \in 1..Len(Tail(s)) : Tail(s)[i] = s[i + 1]
  BY HeadTailProperties
<1>3. Head(s) = s[1]
  OBVIOUS
<1>4. s[1] \in S
  BY <1>1, ElementOfSeq
<1>5. QED
  BY <1>1, <1>2, <1>3, <1>4

-----------------------------------------------------------------------------
(* What the steps make of the machines.                                    *)

\* The record of a machine.
MachineType ==
    [current : States \cup {NoState}, started : BOOLEAN, requested : BOOLEAN,
     next : States, states : SUBSET States, once : SUBSET States]

\* Machine k now has these fields, and the others are as before.
Becomes(k, current, started, requested, next) ==
    /\ sm' \in [Machines -> MachineType]
    /\ sm'[k].current = current /\ sm'[k].started = started
    /\ sm'[k].requested = requested /\ sm'[k].next = next
    /\ \A i \in Machines : i # k => sm'[i] = sm[i]

\* Machine k keeps these fields; a state may have been added or initialised.
Keeps(k) == Becomes(k, sm[k].current, sm[k].started, sm[k].requested, sm[k].next)

\* What a new record for machine k makes of the machines.
LEMMA BecomesIs ==
  ASSUME TypeOK, NEW k \in Machines, NEW r \in MachineType, sm' = [sm EXCEPT ![k] = r]
  PROVE  Becomes(k, r.current, r.started, r.requested, r.next)
<1>1. sm \in [Machines -> MachineType]
  BY DEF TypeOK, MachineType
<1>2. QED
  BY <1>1 DEF Becomes

\* state_event_loop_add_state leaves the machine where it is.
LEMMA AddStateMachine ==
  ASSUME TypeOK, NEW i \in Machines, NEW s \in States,
         state_event_loop_add_state(i, s)
  PROVE  Keeps(i)
<1> DEFINE r == [sm[i] EXCEPT !.states = @ \cup {s}]
<1>1. sm[i] \in MachineType
  BY DEF TypeOK, MachineType
<1>2. /\ r \in MachineType /\ r.current = sm[i].current /\ r.started = sm[i].started
      /\ r.requested = sm[i].requested /\ r.next = sm[i].next
  BY <1>1 DEF MachineType
<1>3. sm' = [sm EXCEPT ![i] = r]
  BY DEF state_event_loop_add_state
<1> HIDE DEF r
<1>4. Becomes(i, sm[i].current, sm[i].started, sm[i].requested, sm[i].next)
  BY <1>2, <1>3, BecomesIs DEF TypeOK
<1>5. QED
  BY <1>4 DEF Keeps

\* So does entering its state.
LEMMA EnterStateMachine ==
  ASSUME TypeOK, NEW k \in Machines, EnterState(k), sm[k].current # NoState
  PROVE  /\ Keeps(k)
         /\ inside' = [inside EXCEPT ![k] = sm[k].current]
<1>1. sm[k].current \in States
  BY DEF TypeOK
<1> DEFINE r == [sm[k] EXCEPT !.once = @ \cup {sm[k].current}]
<1>2. sm[k] \in MachineType
  BY DEF TypeOK, MachineType
<1>3. /\ r \in MachineType /\ r.current = sm[k].current /\ r.started = sm[k].started
      /\ r.requested = sm[k].requested /\ r.next = sm[k].next
  BY <1>1, <1>2 DEF MachineType
<1>4. sm' = [sm EXCEPT ![k] = r]
  BY DEF EnterState
<1> HIDE DEF r
<1>5. Becomes(k, sm[k].current, sm[k].started, sm[k].requested, sm[k].next)
  BY <1>3, <1>4, BecomesIs DEF TypeOK
<1>6. QED
  BY <1>5 DEF Keeps, EnterState

\* state_machine_start sets the state or fails its assertion ...
LEMMA StartLoadMachine ==
  ASSUME TypeOK, StartLoad, ended = "no"
  PROVE  \/ /\ Becomes(mi, Start, sm[mi].started, sm[mi].requested, sm[mi].next)
            /\ mpc' = "flag" /\ ended' = "no" /\ stopped' = stopped \ {mi}
         \/ UNCHANGED <<sm, stopped, mpc>> /\ ended' = "start_state"
<1>1. CASE Start \in sm[mi].states
  <2>1. /\ sm' = [sm EXCEPT ![mi].current = Start]
        /\ mpc' = "flag" /\ ended' = "no" /\ stopped' = stopped \ {mi}
    BY <1>1 DEF StartLoad
  <2>2. Becomes(mi, Start, sm[mi].started, sm[mi].requested, sm[mi].next)
    <3>1. sm \in [Machines -> MachineType] /\ mi \in Machines /\ Start \in States
      BY Distinct DEF TypeOK, MachineType
    <3>2. QED
      BY <2>1, <3>1 DEF MachineType, Becomes
  <2>3. QED
    BY <2>1, <2>2
<1>2. CASE Start \notin sm[mi].states
  BY <1>2 DEF StartLoad, End
<1>3. QED
  BY <1>1, <1>2

\* ... and sets the flag.
LEMMA StartFlagMachine ==
  ASSUME TypeOK, StartFlag
  PROVE  Becomes(mi, sm[mi].current, TRUE, sm[mi].requested, sm[mi].next)
<1> DEFINE r == [sm[mi] EXCEPT !.started = TRUE]
<1>1. sm[mi] \in MachineType
  BY DEF TypeOK, MachineType
<1>2. /\ r \in MachineType /\ r.current = sm[mi].current /\ r.started = TRUE
      /\ r.requested = sm[mi].requested /\ r.next = sm[mi].next
  BY <1>1 DEF MachineType
<1>3. sm' = [sm EXCEPT ![mi] = r]
  BY DEF StartFlag
<1> HIDE DEF r
<1>4. Becomes(mi, sm[mi].current, TRUE, sm[mi].requested, sm[mi].next)
  BY <1>2, <1>3, BecomesIs DEF TypeOK
<1>5. QED
  BY <1>4

\* state_machine_stop leaves no state, and no request if there was one.
LEMMA StopMachineMachine ==
  ASSUME TypeOK, StopMachine
  PROVE  Becomes(mi, NoState, sm[mi].started,
                 sm[mi].requested /\ sm[mi].current = NoState, sm[mi].next)
<1>1. sm[mi] \in MachineType
  BY DEF TypeOK, MachineType
<1>2. DEFINE r == Stopped(sm[mi])
<1>3. /\ r \in MachineType /\ r.current = NoState /\ r.started = sm[mi].started
      /\ r.requested = (sm[mi].requested /\ sm[mi].current = NoState)
      /\ r.next = sm[mi].next
  BY <1>1 DEF Stopped, MachineType
<1>4. sm' = [sm EXCEPT ![mi] = r]
  BY DEF StopMachine
<1> HIDE DEF r
<1>5. QED
  BY <1>3, <1>4 DEF TypeOK, MachineType, Becomes

\* A callback that stops the loop does this to all of them.
LEMMA WorkerStopMachines ==
  ASSUME TypeOK, WorkerStop
  PROVE  /\ sm' \in [Machines -> MachineType]
         /\ \A i \in Machines :
                /\ sm'[i].current = NoState /\ sm'[i].started = sm[i].started
                /\ sm'[i].requested = (sm[i].requested /\ sm[i].current = NoState)
                /\ sm'[i].next = sm[i].next
<1>1. ASSUME NEW i \in Machines
      PROVE  /\ Stopped(sm[i]) \in MachineType
             /\ Stopped(sm[i]).current = NoState
             /\ Stopped(sm[i]).started = sm[i].started
             /\ Stopped(sm[i]).requested = (sm[i].requested /\ sm[i].current = NoState)
             /\ Stopped(sm[i]).next = sm[i].next
  <2>1. sm[i] \in MachineType
    BY DEF TypeOK, MachineType
  <2>2. QED
    BY <2>1 DEF Stopped, MachineType
<1>2. sm' = [i \in Machines |-> Stopped(sm[i])]
  BY DEF WorkerStop
<1>3. QED
  BY <1>1, <1>2

\* f_handle_event names the next state, and requests it if it is another one.
LEMMA HandledMachine ==
  ASSUME TypeOK, WorkerHandled, ended = "no"
  PROVE  \/ UNCHANGED <<sm, wpc>> /\ ended' = "null" /\ sm[wi].current = NoState
         \/ /\ wpc' = "transition" /\ ended' = "no" /\ sm[wi].current # NoState
            /\ \E s \in States :
                Becomes(wi, sm[wi].current, sm[wi].started,
                        sm[wi].requested \/ s # sm[wi].current, s)
<1>1. CASE sm[wi].current = NoState
  BY <1>1 DEF WorkerHandled, End
<1>2. CASE sm[wi].current # NoState
  <2>1. PICK s \in States :
            sm' = [sm EXCEPT ![wi].next = s, ![wi].requested = Requests(sm[wi], s)]
    BY <1>2 DEF WorkerHandled
  <2>2. Requests(sm[wi], s) = (sm[wi].requested \/ s # sm[wi].current)
    BY DEF Requests
  <2>3. Becomes(wi, sm[wi].current, sm[wi].started,
                sm[wi].requested \/ s # sm[wi].current, s)
    <3> DEFINE r == [sm[wi] EXCEPT !.next = s, !.requested = Requests(sm[wi], s)]
    <3>2. sm[wi] \in MachineType
      BY DEF TypeOK, MachineType
    <3>3. /\ r \in MachineType /\ r.current = sm[wi].current /\ r.started = sm[wi].started
          /\ r.requested = (sm[wi].requested \/ s # sm[wi].current) /\ r.next = s
      BY <2>2, <3>2 DEF MachineType
    <3>4. sm' = [sm EXCEPT ![wi] = r]
      BY <2>1
    <3> HIDE DEF r
    <3>5. Becomes(wi, sm[wi].current, sm[wi].started, (sm[wi].requested \/ s # sm[wi].current), s)
      BY <3>3, <3>4, BecomesIs DEF TypeOK
    <3>6. QED
      BY <3>5
  <2>4. QED
    BY <1>2, <2>3 DEF WorkerHandled
<1>3. QED
  BY <1>1, <1>2

\* state_machine_transition takes the request.
LEMMA TransitionMachine ==
  ASSUME TypeOK, WorkerTransition, ended = "no"
  PROVE  /\ Becomes(wi, sm[wi].current, sm[wi].started,
                    sm[wi].requested /\ ~sm[wi].started, sm[wi].next)
         /\ \/ /\ ended' \in {"null", "next_state"} /\ UNCHANGED <<wpc, wi>>
               /\ sm[wi].started
               /\ ended' = "null" => sm[wi].current = NoState
            \/ /\ ended' = "no" /\ wpc' = "exit" /\ UNCHANGED wi
               /\ sm[wi].started /\ sm[wi].current # NoState
            \/ ended' = "no" /\ NextMachine
<1>1. Becomes(wi, sm[wi].current, sm[wi].started,
              sm[wi].requested /\ ~sm[wi].started, sm[wi].next)
  <2> DEFINE r == [sm[wi] EXCEPT !.requested = @ /\ ~(sm[wi].requested /\ sm[wi].started)]
  <2>2. sm[wi] \in MachineType
    BY DEF TypeOK, MachineType
  <2>3. /\ r \in MachineType /\ r.current = sm[wi].current /\ r.started = sm[wi].started
        /\ r.requested = (sm[wi].requested /\ ~sm[wi].started) /\ r.next = sm[wi].next
    BY <2>2 DEF MachineType
  <2>4. sm' = [sm EXCEPT ![wi] = r]
    BY DEF WorkerTransition
  <2> HIDE DEF r
  <2>5. Becomes(wi, sm[wi].current, sm[wi].started, (sm[wi].requested /\ ~sm[wi].started), sm[wi].next)
    BY <2>3, <2>4, BecomesIs DEF TypeOK
  <2>6. QED
    BY <2>5
<1>2. QED
  BY <1>1 DEF WorkerTransition, End, TypeOK

\* f_exit has returned: the next state takes the place of the current one.
LEMMA ExitedMachine ==
  ASSUME TypeOK, WorkerExited
  PROVE  Becomes(wi, sm[wi].next, sm[wi].started, sm[wi].requested, sm[wi].next)
<1> DEFINE r == [sm[wi] EXCEPT !.current = sm[wi].next]
<1>1. sm[wi] \in MachineType
  BY DEF TypeOK, MachineType
<1>2. /\ r \in MachineType /\ r.current = sm[wi].next /\ r.started = sm[wi].started
      /\ r.requested = sm[wi].requested /\ r.next = sm[wi].next
  BY <1>1 DEF MachineType
<1>3. sm' = [sm EXCEPT ![wi] = r]
  BY DEF WorkerExited
<1> HIDE DEF r
<1>4. Becomes(wi, sm[wi].next, sm[wi].started, sm[wi].requested, sm[wi].next)
  BY <1>2, <1>3, BecomesIs DEF TypeOK
<1>5. QED
  BY <1>4

\* enter_state calls f_enter, or f_init first.
LEMMA EnterMachine ==
  ASSUME TypeOK, WorkerEnter, ended = "no"
  PROVE  \/ UNCHANGED <<sm, inside, wpc>> /\ ended' = "null" /\ sm[wi].current = NoState
         \/ /\ ended' = "no" /\ sm[wi].current # NoState /\ Keeps(wi)
            /\ \/ /\ wpc' = "entering" /\ UNCHANGED wst
                  /\ inside' = [inside EXCEPT ![wi] = sm[wi].current]
               \/ wpc' = "initing" /\ wst' = sm[wi].current /\ UNCHANGED inside
<1> USE Distinct
<1>1. sm[wi].current \in States \cup {NoState} /\ sm[wi].once \subseteq States /\ wi \in Machines
  BY DEF TypeOK
<1>2. CASE sm[wi].current = NoState
  <2>1. sm[wi].current \notin sm[wi].once
    BY <1>1, <1>2
  <2>2. QED
    BY <1>2, <2>1 DEF WorkerEnter, End, machine
<1>3. CASE sm[wi].current \in sm[wi].once
  <2>1. sm[wi].current # NoState
    BY <1>1, <1>3
  <2>2. EnterState(wi) /\ wpc' = "entering" /\ UNCHANGED <<wst, ended>>
    BY <1>3, <2>1 DEF WorkerEnter
  <2>3. QED
    BY <1>1, <2>1, <2>2, EnterStateMachine
<1>4. CASE sm[wi].current \notin sm[wi].once \cup {NoState}
  <2>1. /\ sm' = [sm EXCEPT ![wi].once = @ \cup {sm[wi].current}]
        /\ wst' = sm[wi].current /\ wpc' = "initing" /\ UNCHANGED <<inside, ended>>
    BY <1>4 DEF WorkerEnter
  <2>2. sm[wi].current \in States
    BY <1>1, <1>4
  <2>3. Keeps(wi)
    <3> DEFINE r == [sm[wi] EXCEPT !.once = @ \cup {sm[wi].current}]
    <3>2. sm[wi] \in MachineType
      BY DEF TypeOK, MachineType
    <3>3. /\ r \in MachineType /\ r.current = sm[wi].current /\ r.started = sm[wi].started
          /\ r.requested = sm[wi].requested /\ r.next = sm[wi].next
      BY <2>2, <3>2 DEF MachineType
    <3>4. sm' = [sm EXCEPT ![wi] = r]
      BY <2>1
    <3> HIDE DEF r
    <3>5. Becomes(wi, sm[wi].current, sm[wi].started, sm[wi].requested, sm[wi].next)
      BY <3>3, <3>4, BecomesIs DEF TypeOK
    <3>6. QED
      BY <3>5 DEF Keeps
  <2>4. QED
    BY <1>4, <2>1, <2>3
<1>5. QED
  BY <1>2, <1>3, <1>4

-----------------------------------------------------------------------------
(* Type correctness. A count is only decreased by somebody it counts.      *)

\* Releasing an event that somebody has.
LEMMA ReleaseIs ==
  ASSUME TypeOK, CountInv, NEW e \in Events, Carried(e) \/ e \in retained, Release(e)
  PROVE  /\ refs' \in [Events -> Nat] /\ free' \subseteq Events
         /\ refs[e] \in {1, 2} /\ refs'[e] = refs[e] - 1
         /\ e \in free' <=> refs[e] = 1
         /\ \A x \in Events : x # e => refs'[x] = refs[x] /\ (x \in free' <=> x \in free)
<1>1. refs[e] \in {1, 2} /\ e \notin free
  BY DEF CountInv
<1>2. QED
  BY <1>1 DEF TypeOK, Release

\* The steps that move events, or the state of a post.
LEMMA EventSteps ==
  ASSUME Step
  PROVE  \/ UNCHANGED <<pool, queue, wev, poster>>
         \/ DeinitKill
         \/ \E t \in Callers : state_event_loop_post(t) \/ PostStep(t)
         \/ WorkerTake \/ WorkerNotify \/ WorkerRelease
         \/ \E e \in Events : ListenerRelease(e)
<1> USE DEF pool, worker, poster
<1>1. CASE \/ \E i \in Machines, s \in States : state_event_loop_add_state(i, s)
           \/ state_event_loop_install_event_pre_proc
           \/ state_event_loop_start \/ state_event_loop_stop
           \/ state_event_loop_deinit
           \/ StartLoad \/ StartFlag \/ StartEnter \/ StopMachine
  BY <1>1 DEF state_event_loop_add_state, state_event_loop_install_event_pre_proc,
     state_event_loop_start, state_event_loop_stop, state_event_loop_deinit,
     StartLoad, StartFlag, StartEnter, StopMachine
<1>2. CASE Deinit
  BY <1>2 DEF Deinit, DeinitWait, DeinitJoin, DeinitBlocks, DeinitQueue, DeinitPool
<1>3. CASE WorkerStep \/ ClearStop
  BY <1>3 DEF WorkerStep, WorkerSignal, WorkerEnd, WorkerPre, WorkerHandle, WorkerValid,
     WorkerHandled, WorkerTransition, WorkerExit, WorkerExited, WorkerEnter,
     WorkerInited, WorkerEntered, WorkerFree, ClearStop, WorkerStop
<1>4. QED
  BY <1>1, <1>2, <1>3 DEF Step

\* Moving on to the next machine, if there is one.
LEMMA NextMachineIs ==
  ASSUME TypeOK, NextMachine
  PROVE  wi' \in Machines /\ wpc' \in {"handle", "notify"}
  BY LoopAssumption DEF TypeOK, NextMachine, Machines

\* Each step keeps the types of the machines.
LEMMA MachineTypesKept ==
  ASSUME TypeOK, ended = "no", Step
  PROVE  /\ sm' \in [Machines -> MachineType]
         /\ inside' \in [Machines -> States \cup {NoState}]
         /\ stopped' \subseteq Machines
<1> USE DEF loop, dispatch, pool, machine, worker, main, poster, End, Keeps, Becomes
<1> DEFINE Goal == /\ sm' \in [Machines -> MachineType]
                   /\ inside' \in [Machines -> States \cup {NoState}]
                   /\ stopped' \subseteq Machines
<1>1. CASE UNCHANGED machine
  BY <1>1 DEF TypeOK, MachineType
<1>2. ASSUME NEW i \in Machines, NEW s \in States, state_event_loop_add_state(i, s)
      PROVE  Goal
  BY <1>2, AddStateMachine DEF TypeOK, state_event_loop_add_state
<1>3. CASE StartLoad
  BY <1>3, StartLoadMachine DEF TypeOK, StartLoad, MachineType
<1>4. CASE StartFlag
  BY <1>4, StartFlagMachine DEF TypeOK, StartFlag
<1>5. CASE StartEnter
  <2>1. CASE sm[mi].current = NoState
    BY <1>5, <2>1, <1>1 DEF StartEnter
  <2>2. CASE sm[mi].current # NoState
    <3>1. EnterState(mi) /\ mi \in Machines
      BY <1>5, <2>2 DEF StartEnter, TypeOK
    <3>2. QED
      BY <2>2, <3>1, EnterStateMachine DEF TypeOK, EnterState
  <2>3. QED
    BY <2>1, <2>2
<1>6. CASE StopMachine
  BY <1>6, StopMachineMachine DEF TypeOK, StopMachine
<1>7. CASE WorkerStop
  <2>1. /\ inside' = [i \in Machines |->
                        IF sm[i].current = NoState THEN inside[i] ELSE NoState]
        /\ stopped' = Machines
    BY <1>7 DEF WorkerStop
  <2>2. QED
    BY <1>7, <2>1, WorkerStopMachines DEF TypeOK
<1>8. CASE WorkerHandled
  BY <1>8, HandledMachine DEF TypeOK, WorkerHandled, MachineType
<1>9. CASE WorkerTransition
  BY <1>9, TransitionMachine DEF TypeOK, WorkerTransition
<1>10. CASE WorkerExit
  BY <1>10 DEF TypeOK, MachineType, WorkerExit
<1>11. CASE WorkerExited
  BY <1>11, ExitedMachine DEF TypeOK, WorkerExited
<1>12. CASE WorkerEnter
  <2>1. UNCHANGED stopped
    BY <1>12 DEF WorkerEnter, EnterState
  <2>2. QED
    BY <1>12, <2>1, EnterMachine DEF TypeOK, MachineType
<1>13. CASE WorkerInited
  BY <1>13 DEF TypeOK, MachineType, WorkerInited
<1>14. CASE \/ state_event_loop_install_event_pre_proc
            \/ state_event_loop_start \/ state_event_loop_stop
            \/ state_event_loop_deinit \/ Deinit
            \/ \E t \in Callers : state_event_loop_post(t) \/ PostStep(t)
            \/ \E e \in Events : ListenerRelease(e)
  BY <1>1, <1>14 DEF state_event_loop_install_event_pre_proc,
     state_event_loop_start, state_event_loop_stop, state_event_loop_deinit,
     Deinit, DeinitKill, DeinitWait, DeinitJoin, DeinitBlocks, DeinitQueue, DeinitPool,
     state_event_loop_post, PostStep, PostAlloc, PostTest, PostBlock, PostEnqueue,
     ListenerRelease
<1>15. CASE \/ WorkerTake \/ WorkerSignal \/ WorkerEnd \/ WorkerPre \/ WorkerHandle
            \/ WorkerValid \/ WorkerEntered \/ WorkerNotify \/ WorkerRelease \/ WorkerFree
  BY <1>1, <1>15 DEF WorkerTake, WorkerSignal, WorkerEnd, WorkerPre, WorkerHandle,
     WorkerValid, WorkerEntered, WorkerNotify, WorkerRelease, WorkerFree
<1>16. QED
  BY <1>2, <1>3, <1>4, <1>5, <1>6, <1>7, <1>8, <1>9, <1>10, <1>11, <1>12, <1>13,
     <1>14, <1>15 DEF Step, WorkerStep, ClearStop

\* Each step keeps the types of the flags and of the places.
LEMMA ControlTypesKept ==
  ASSUME TypeOK, ended = "no", Step, Watch
  PROVE  /\ \A b \in {preproc', plive', destroying', blive', qlive', overlap', racing'} :
                b \in BOOLEAN
         /\ wi' \in Machines /\ mi' \in Machines /\ starts' \in 0..MaxStarts
         /\ wst' \in States \cup {NoState}
         /\ ended' \in Ends
<1> USE DEF loop, dispatch, pool, machine, worker, main, poster, End
<1> DEFINE Flags == /\ preproc' \in BOOLEAN /\ plive' \in BOOLEAN
                    /\ destroying' \in BOOLEAN /\ blive' \in BOOLEAN
                    /\ qlive' \in BOOLEAN /\ racing' \in BOOLEAN
           Goal == /\ Flags
                   /\ starts' = starts \/ (starts < MaxStarts /\ starts' = starts + 1)
                   /\ mi' \in {mi, 1} \/ (mi < N /\ mi' = mi + 1)
                   /\ wi' \in {wi, 1} \/ (wi < N /\ wi' = wi + 1)
                   /\ wst' \in {wst, NoState, sm[wi].current}
                   /\ ended' \in Ends
<1>1. ASSUME \/ \E i \in Machines, s \in States : state_event_loop_add_state(i, s)
             \/ state_event_loop_install_event_pre_proc
             \/ state_event_loop_start \/ state_event_loop_stop
             \/ state_event_loop_deinit
             \/ StartLoad \/ StartFlag \/ StartEnter \/ StopMachine \/ Deinit
      PROVE  Goal
  BY <1>1 DEF TypeOK, Ends, state_event_loop_add_state,
     state_event_loop_install_event_pre_proc,
     state_event_loop_start, state_event_loop_stop, state_event_loop_deinit,
     StartLoad, StartFlag, StartEnter, StopMachine,
     Deinit, DeinitKill, DeinitWait, DeinitJoin, DeinitBlocks, DeinitQueue, DeinitPool
<1>2. ASSUME \/ \E t \in Callers : state_event_loop_post(t) \/ PostStep(t)
             \/ ClearStop \/ \E e \in Events : ListenerRelease(e)
      PROVE  Goal
  BY <1>2 DEF TypeOK, Ends, state_event_loop_post, PostStep, PostAlloc, PostTest,
     PostBlock, PostEnqueue, ClearStop, WorkerStop, ListenerRelease
<1>3. ASSUME WorkerStep PROVE Goal
  BY <1>3 DEF TypeOK, Ends, WorkerStep, WorkerTake, WorkerSignal, WorkerEnd, WorkerPre,
     WorkerHandle, WorkerValid, WorkerHandled, WorkerTransition, WorkerExit,
     WorkerExited, WorkerEnter, WorkerInited, WorkerEntered, WorkerNotify,
     WorkerRelease, WorkerFree, NextMachine
<1>4. overlap' \in BOOLEAN
  BY DEF Watch
<1>5. Goal
  BY <1>1, <1>2, <1>3 DEF Step
<1>6. wi' \in Machines /\ mi' \in Machines
  BY <1>5, LoopAssumption DEF TypeOK, Machines
<1>7. starts' \in 0..MaxStarts
  BY <1>5, LoopAssumption DEF TypeOK
<1>8. wst' \in States \cup {NoState}
  BY <1>5 DEF TypeOK
<1>9. QED
  BY <1>4, <1>5, <1>6, <1>7, <1>8

\* Each step keeps the types of the events and of the posts.
LEMMA EventTypesKept ==
  ASSUME TypeOK, HandsInv, CountInv, Step
  PROVE  /\ free' \subseteq Events /\ retained' \subseteq Events
         /\ leaked' \subseteq Events /\ refs' \in [Events -> Nat]
         /\ queue' \in Seq(Events \cup {Kill})
         /\ wev' \in Events \cup {NoEvent}
         /\ pc' \in [Callers -> {"idle", "alloc", "dispatch", "block", "enqueue"}]
         /\ mem' \in [Callers -> Events \cup {NoEvent}]
         /\ posts' \in 0..MaxPosts
<1> USE DEF loop, dispatch, pool, machine, worker, main, poster, End
<1> DEFINE Goal ==
        /\ free' \subseteq Events /\ retained' \subseteq Events
        /\ leaked' \subseteq Events /\ refs' \in [Events -> Nat]
        /\ queue' \in Seq(Events \cup {Kill})
        /\ wev' \in Events \cup {NoEvent}
        /\ pc' \in [Callers -> {"idle", "alloc", "dispatch", "block", "enqueue"}]
        /\ mem' \in [Callers -> Events \cup {NoEvent}]
        /\ posts' \in 0..MaxPosts
<1>0. queue \in Seq(Events \cup {Kill})
  BY DEF TypeOK
<1>1. CASE UNCHANGED <<pool, queue, wev, poster>>
  BY <1>1 DEF TypeOK
<1>2. CASE DeinitKill
  <2>1. queue' = queue \/ queue' = Append(queue, Kill)
    BY <1>2 DEF DeinitKill
  <2>2. queue' \in Seq(Events \cup {Kill})
    BY <1>0, <2>1, AppendIs
  <2>3. QED
    BY <1>2, <2>2 DEF DeinitKill, TypeOK
<1>3. ASSUME NEW t \in Callers, state_event_loop_post(t) PROVE Goal
  <2>1. posts' \in 0..MaxPosts
    BY <1>3, LoopAssumption DEF state_event_loop_post, TypeOK
  <2>2. QED
    BY <1>3, <2>1 DEF state_event_loop_post, TypeOK
<1>4. ASSUME NEW t \in Callers, PostAlloc(t) PROVE Goal
  <2>1. CASE UNCHANGED <<free, refs, mem, pc>>
    BY <1>4, <2>1 DEF PostAlloc, TypeOK
  <2>2. ASSUME NEW e \in free, free' = free \ {e},
               refs' = [refs EXCEPT ![e] = 1], mem' = [mem EXCEPT ![t] = e],
               pc' = [pc EXCEPT ![t] = "dispatch"]
        PROVE  Goal
    <3>1. e \in Events
      BY DEF TypeOK
    <3>2. refs' \in [Events -> Nat] /\ mem' \in [Callers -> Events \cup {NoEvent}]
      BY <2>2, <3>1 DEF TypeOK
    <3>3. QED
      BY <1>4, <2>2, <3>2 DEF PostAlloc, TypeOK
  <2>3. QED
    BY <1>4, <2>1, <2>2 DEF PostAlloc
<1>5. ASSUME NEW t \in Callers, PostTest(t) PROVE Goal
  <2>1. mem[t] \in Events
    BY <1>5 DEF PostTest, HandsInv
  <2>2. QED
    BY <1>5, <2>1 DEF PostTest, TypeOK
<1>6. ASSUME NEW t \in Callers, PostBlock(t) PROVE Goal
  BY <1>6 DEF PostBlock, TypeOK
<1>7. ASSUME NEW t \in Callers, PostEnqueue(t) PROVE Goal
  <2>1. mem[t] \in Events
    BY <1>7 DEF PostEnqueue, HandsInv
  <2>2. queue' = queue \/ queue' = Append(queue, mem[t])
    BY <1>7 DEF PostEnqueue
  <2>3. Append(queue, mem[t]) \in Seq(Events \cup {Kill})
    BY <1>0, <2>1, AppendIs
  <2>4. queue' \in Seq(Events \cup {Kill})
    BY <1>0, <2>2, <2>3
  <2>5. QED
    BY <1>7, <2>4 DEF PostEnqueue, TypeOK
<1>8. CASE WorkerTake
  <2>1. queue' \in Seq(Events \cup {Kill}) /\ Head(queue) \in Events \cup {Kill}
    BY <1>0, <1>8, TailIs DEF WorkerTake
  <2>2. QED
    BY <1>8, <2>1 DEF WorkerTake, TypeOK
<1>9. CASE WorkerNotify
  <2>1. wev \in Events
    BY <1>9 DEF WorkerNotify, HandsInv, HasEvent, AtMachine
  <2>2. /\ refs' = refs \/ refs' = [refs EXCEPT ![wev] = @ + 1]
        /\ retained' = retained \/ retained' = retained \cup {wev}
        /\ UNCHANGED <<free, leaked, queue, wev, poster>>
    BY <1>9 DEF WorkerNotify
  <2>3. refs' \in [Events -> Nat] /\ retained' \subseteq Events
    BY <2>1, <2>2 DEF TypeOK
  <2>4. QED
    BY <2>2, <2>3 DEF TypeOK
<1>10. CASE WorkerRelease
  <2>1. wev \in Events
    BY <1>10 DEF WorkerRelease, HandsInv, HasEvent, AtMachine
  <2>2. Carried(wev) /\ Release(wev)
    BY <1>10 DEF WorkerRelease, Carried
  <2>3. refs' \in [Events -> Nat] /\ free' \subseteq Events
    BY <2>1, <2>2, ReleaseIs
  <2>4. QED
    BY <1>10, <2>3 DEF WorkerRelease, TypeOK
<1>11. ASSUME NEW e \in Events, ListenerRelease(e) PROVE Goal
  <2>1. refs' \in [Events -> Nat] /\ free' \subseteq Events
    BY <1>11, ReleaseIs DEF ListenerRelease
  <2>2. QED
    BY <1>11, <2>1 DEF ListenerRelease, TypeOK
<1>12. QED
  BY <1>1, <1>2, <1>3, <1>4, <1>5, <1>6, <1>7, <1>8, <1>9, <1>10, <1>11, EventSteps
     DEF PostStep

\* Each step keeps the types.
LEMMA TypesKept ==
  ASSUME TypeOK, HandsInv, CountInv, [Next]_vars
  PROVE  TypeOK'
<1>1. CASE UNCHANGED vars
  BY <1>1 DEF TypeOK, vars
<1>2. CASE ended = "no" /\ Step /\ Watch
  <2>1. sm' \in [Machines -> [current : States \cup {NoState}, started : BOOLEAN,
                              requested : BOOLEAN, next : States,
                              states : SUBSET States, once : SUBSET States]]
    BY <1>2, MachineTypesKept DEF MachineType
  <2>2. inside' \in [Machines -> States \cup {NoState}] /\ stopped' \subseteq Machines
    BY <1>2, MachineTypesKept
  <2>3. /\ \A b \in {preproc', plive', destroying', blive', qlive', overlap', racing'} :
                b \in BOOLEAN
        /\ wi' \in Machines /\ mi' \in Machines /\ starts' \in 0..MaxStarts
        /\ wst' \in States \cup {NoState}
        /\ ended' \in Ends
    BY <1>2, ControlTypesKept
  <2>4. /\ free' \subseteq Events /\ retained' \subseteq Events
        /\ leaked' \subseteq Events /\ refs' \in [Events -> Nat]
        /\ queue' \in Seq(Events \cup {Kill})
        /\ wev' \in Events \cup {NoEvent}
        /\ pc' \in [Callers -> {"idle", "alloc", "dispatch", "block", "enqueue"}]
        /\ mem' \in [Callers -> Events \cup {NoEvent}]
        /\ posts' \in 0..MaxPosts
    BY <1>2, EventTypesKept
  <2>5. QED
    BY ONLY <2>1, <2>2, <2>3, <2>4, Zenon DEF TypeOK
<1>3. QED
  BY <1>1, <1>2, StepOrStutter

-----------------------------------------------------------------------------
(* Where the threads are, and the events.                                  *)

\* Each step keeps the hands.
LEMMA HandsKept ==
  ASSUME TypeOK, HandsInv, [Next]_vars
  PROVE  HandsInv'
<1> USE Distinct DEF loop, dispatch, pool, machine, worker, main, poster, End,
        WorkerStates, MainStates, HasEvent, AtMachine, Gone, Starting, Closing, Dismantling
<1> DEFINE Holds(t) == pc[t] \in {"dispatch", "block", "enqueue"} <=> mem[t] \in Events
<1>1. ASSUME Step PROVE wpc' \in WorkerStates /\ mpc' \in MainStates
  <2>0. wpc \in WorkerStates /\ mpc \in MainStates
    BY DEF HandsInv
  <2>1. CASE \/ \E i \in Machines, s \in States : state_event_loop_add_state(i, s)
             \/ state_event_loop_install_event_pre_proc
             \/ state_event_loop_start \/ state_event_loop_stop
             \/ state_event_loop_deinit
    BY <2>0, <2>1 DEF state_event_loop_add_state,
       state_event_loop_install_event_pre_proc,
       state_event_loop_start, state_event_loop_stop, state_event_loop_deinit
  <2>2. CASE StartLoad \/ StartFlag \/ StartEnter \/ StopMachine
    <3>1. /\ wpc' = wpc
          /\ mpc' \in {mpc, "flag", "enter", "load", "idle", "deinit_pool"}
      BY <2>2 DEF StartLoad, StartFlag, StartEnter, StopMachine
    <3>2. QED
      BY <2>0, <3>1
  <2>3. CASE Deinit
    BY <2>0, <2>3 DEF Deinit, DeinitKill, DeinitWait, DeinitJoin, DeinitBlocks,
       DeinitQueue, DeinitPool
  <2>4. CASE \/ \E t \in Callers : state_event_loop_post(t) \/ PostStep(t)
             \/ ClearStop \/ \E e \in Events : ListenerRelease(e)
    BY <2>0, <2>4 DEF state_event_loop_post, PostStep, PostAlloc, PostTest,
       PostBlock, PostEnqueue, ClearStop, WorkerStop, ListenerRelease
  <2>5. CASE WorkerStep
    BY <2>0, <2>5 DEF WorkerStep, WorkerTake, WorkerSignal, WorkerEnd, WorkerPre,
       WorkerHandle, WorkerValid, WorkerHandled, WorkerTransition, WorkerExit,
       WorkerExited, WorkerEnter, WorkerInited, WorkerEntered, WorkerNotify,
       WorkerRelease, WorkerFree, NextMachine
  <2>6. QED
    BY <1>1, <2>1, <2>2, <2>3, <2>4, <2>5 DEF Step
<1>2. ASSUME Step PROVE wpc' \in HasEvent <=> wev' \in Events
  <2>1. CASE WorkerTake
    <3>1. Head(queue) \in Events \cup {Kill}
      BY <2>1, TailIs DEF WorkerTake, TypeOK
    <3>2. QED
      BY <2>1, <3>1 DEF HandsInv, WorkerTake
  <2>2. CASE WorkerRelease
    BY <2>2 DEF WorkerRelease
  <2>3. CASE UNCHANGED <<wpc, wev>>
    BY <2>3 DEF HandsInv
  <2>4. CASE \/ WorkerSignal \/ WorkerEnd \/ WorkerPre \/ WorkerHandle \/ WorkerValid
             \/ WorkerHandled \/ WorkerTransition \/ WorkerExit \/ WorkerExited
             \/ WorkerEnter \/ WorkerInited \/ WorkerEntered \/ WorkerNotify \/ WorkerFree
    BY <2>4, ZenonT(60) DEF HandsInv, WorkerSignal, WorkerEnd, WorkerPre, WorkerHandle,
       WorkerValid, WorkerHandled, WorkerTransition, WorkerExit, WorkerExited,
       WorkerEnter, WorkerInited, WorkerEntered, WorkerNotify, WorkerFree, NextMachine
  <2>5. \/ WorkerStep
        \/ UNCHANGED <<wpc, wev>>
    BY <1>2 DEF Step, state_event_loop_add_state,
       state_event_loop_install_event_pre_proc,
       state_event_loop_start, state_event_loop_stop, state_event_loop_deinit,
       StartLoad, StartFlag, StartEnter, StopMachine, Deinit, DeinitKill, DeinitWait,
       DeinitJoin, DeinitBlocks, DeinitQueue, DeinitPool, state_event_loop_post,
       PostStep, PostAlloc, PostTest, PostBlock, PostEnqueue, ClearStop, WorkerStop,
       ListenerRelease
  <2>6. QED
    BY <2>1, <2>2, <2>3, <2>4, <2>5 DEF WorkerStep
<1>3. ASSUME Step PROVE \A t \in Callers : Holds(t)'
  <2>0. \A t \in Callers : Holds(t)
    BY DEF HandsInv
  <2>1. CASE UNCHANGED poster
    BY <2>0, <2>1
  <2>2. ASSUME NEW t \in Callers, state_event_loop_post(t)
        PROVE  \A u \in Callers : Holds(u)'
    BY <2>0, <2>2 DEF state_event_loop_post, TypeOK
  <2>3. ASSUME NEW t \in Callers, PostAlloc(t)
        PROVE  \A u \in Callers : Holds(u)'
    <3>1. CASE UNCHANGED <<mem, pc>>
      BY <2>0, <3>1
    <3>2. ASSUME NEW e \in free, mem' = [mem EXCEPT ![t] = e],
                 pc' = [pc EXCEPT ![t] = "dispatch"]
          PROVE  \A u \in Callers : Holds(u)'
      BY <2>0, <3>2 DEF TypeOK
    <3>3. QED
      BY <2>3, <3>1, <3>2 DEF PostAlloc
  <2>4. ASSUME NEW t \in Callers, PostTest(t) \/ PostBlock(t) \/ PostEnqueue(t)
        PROVE  \A u \in Callers : Holds(u)'
    <3>1. CASE UNCHANGED <<mem, pc>>
      BY <2>0, <3>1
    <3>2. CASE mem' = [mem EXCEPT ![t] = NoEvent] /\ pc' = [pc EXCEPT ![t] = "idle"]
      BY <2>0, <3>2 DEF TypeOK
    <3>3. ASSUME NEW q \in {"block", "enqueue"}, pc' = [pc EXCEPT ![t] = q], mem' = mem,
                 pc[t] \in {"dispatch", "block"}
          PROVE  \A u \in Callers : Holds(u)'
      BY <2>0, <3>3 DEF TypeOK
    <3>4. QED
      BY <2>4, <3>1, <3>2, <3>3 DEF PostTest, PostBlock, PostEnqueue
  <2>5. QED
    BY <1>3, <2>1, <2>2, <2>3, <2>4, EventSteps
    DEF PostStep, DeinitKill, WorkerTake, WorkerNotify, WorkerRelease, ListenerRelease
<1>4. CASE UNCHANGED vars
  BY <1>4 DEF HandsInv, vars
<1>5. CASE Step
  BY <1>1, <1>2, <1>3, <1>5 DEF HandsInv
<1>6. QED
  BY <1>4, <1>5, StepOrStutter

\* What is in the queue after an append ...
LEMMA Appended ==
  ASSUME TypeOK, NEW x \in Events \cup {Kill}, queue' = Append(queue, x)
  PROVE  /\ Len(queue) \in Nat /\ Len(queue') = Len(queue) + 1
         /\ \A i \in 1..Len(queue) : queue'[i] = queue[i]
         /\ queue'[Len(queue) + 1] = x
         /\ \A y : InQueue(y)' <=> InQueue(y) \/ y = x
<1>1. PICK n \in Nat : n = Len(queue)
  BY DEF TypeOK
<1>2. /\ Len(queue') = n + 1 /\ queue'[n + 1] = x
      /\ \A i \in 1..n : queue'[i] = queue[i]
  <2>1. queue \in Seq(Events \cup {Kill})
    BY DEF TypeOK
  <2>2. QED
    BY <1>1, <2>1, AppendIs
<1>3. \A i \in 1..(n + 1) : i \in 1..n \/ i = n + 1
  OBVIOUS
<1>4. ASSUME NEW y PROVE InQueue(y)' <=> InQueue(y) \/ y = x
  <2>1. InQueue(y)' <=> \E i \in 1..(n + 1) : queue'[i] = y
    BY <1>2 DEF InQueue
  <2>2. InQueue(y) <=> \E i \in 1..n : queue[i] = y
    BY <1>1 DEF InQueue
  <2>3. n + 1 \in 1..(n + 1) /\ \A i \in 1..n : i \in 1..(n + 1)
    OBVIOUS
  <2>4. QED
    BY <1>2, <1>3, <2>1, <2>2, <2>3
<1>5. QED
  BY <1>1, <1>2, <1>4

\* ... and after the head is taken.
LEMMA Taken ==
  ASSUME TypeOK, queue # <<>>, queue' = Tail(queue)
  PROVE  /\ Len(queue) \in Nat \ {0} /\ Len(queue') = Len(queue) - 1
         /\ \A i \in 1..Len(queue') : i + 1 \in 1..Len(queue) /\ queue'[i] = queue[i + 1]
         /\ Head(queue) = queue[1] /\ Head(queue) \in Events \cup {Kill}
         /\ \A y : InQueue(y) <=> InQueue(y)' \/ y = Head(queue)
<1>1. PICK n \in Nat : Len(queue) = n + 1
  <2>1. Len(queue) \in Nat \ {0}
    BY TailIs DEF TypeOK
  <2>2. Len(queue) - 1 \in Nat /\ Len(queue) = (Len(queue) - 1) + 1
    BY <2>1
  <2>3. QED
    BY <2>2
<1>2. /\ Len(queue') = n /\ \A i \in 1..n : queue'[i] = queue[i + 1]
      /\ Head(queue) = queue[1] /\ Head(queue) \in Events \cup {Kill}
  <2>1. queue \in Seq(Events \cup {Kill})
    BY DEF TypeOK
  <2>2. QED
    BY <1>1, <2>1, TailIs
<1>3. /\ \A i \in 1..n : i + 1 \in 1..(n + 1)
      /\ 1 \in 1..(n + 1)
      /\ \A i \in 1..(n + 1) : i = 1 \/ \E k \in 1..n : i = k + 1
  <2>1. \A i \in 1..(n + 1) : i = 1 \/ (i - 1 \in 1..n /\ i = (i - 1) + 1)
    OBVIOUS
  <2>2. QED
    BY <2>1
<1>4. ASSUME NEW y PROVE InQueue(y) <=> InQueue(y)' \/ y = Head(queue)
  <2>1. InQueue(y)' <=> \E i \in 1..n : queue'[i] = y
    BY <1>2 DEF InQueue
  <2>2. InQueue(y) <=> \E i \in 1..(n + 1) : queue[i] = y
    BY <1>1 DEF InQueue
  <2>3. ASSUME InQueue(y) PROVE InQueue(y)' \/ y = Head(queue)
    <3>1. PICK i \in 1..(n + 1) : queue[i] = y
      BY <2>2, <2>3
    <3>2. CASE i = 1
      BY <1>2, <3>1, <3>2
    <3>3. ASSUME NEW k \in 1..n, i = k + 1 PROVE InQueue(y)'
      BY <1>2, <2>1, <3>1, <3>3
    <3>4. QED
      BY <1>3, <3>1, <3>2, <3>3
  <2>4. ASSUME InQueue(y)' \/ y = Head(queue) PROVE InQueue(y)
    BY <1>2, <1>3, <2>1, <2>2, <2>4
  <2>5. QED
    BY <2>3, <2>4
<1>5. n + 1 \in Nat \ {0} /\ n = (n + 1) - 1
  OBVIOUS
<1>6. \A i \in 1..Len(queue') : i + 1 \in 1..Len(queue) /\ queue'[i] = queue[i + 1]
  BY ONLY <1>1, <1>2, <1>3, SMTT(40)
<1>7. QED
  BY ONLY <1>1, <1>2, <1>4, <1>5, <1>6, SMTT(40)

\* The counts hold while every event is carried, retained and counted as before.
LEMMA CountSame ==
  ASSUME CountInv, \A e \in Events : Carried(e)' <=> Carried(e),
         UNCHANGED <<refs, free, retained>>
  PROVE  CountInv'
  BY DEF CountInv

\* A post, or the end of the loop, puts something at the end of the queue.
LEMMA OwnEnqueue ==
  ASSUME TypeOK, OwnInv, NEW x \in Events \cup {Kill},
         queue' = Append(queue, x),
         \/ x = Kill /\ mem' = mem
         \/ \E t \in Callers : x = mem[t] /\ mem' = [mem EXCEPT ![t] = NoEvent],
         UNCHANGED <<wev, leaked>>
  PROVE  OwnInv' /\ \A e \in Events : Carried(e)' <=> Carried(e)
<1> USE Distinct
<1>1. PICK n \in Nat : n = Len(queue)
  BY DEF TypeOK
<1>2. /\ Len(queue') = n + 1 /\ queue'[n + 1] = x
      /\ \A i \in 1..n : queue'[i] = queue[i]
      /\ \A y : InQueue(y)' <=> InQueue(y) \/ y = x
  BY <1>1, Appended
<1>3. \A i \in 1..(n + 1) : i \in 1..n \/ i = n + 1
  OBVIOUS
<1>4. /\ \A u \in Callers : mem'[u] \in Events => mem'[u] = mem[u] /\ mem'[u] # x
      /\ \A u \in Callers : mem[u] \in Events /\ mem[u] # x => mem'[u] = mem[u]
      /\ x \in Events => \E t \in Callers : mem[t] = x
  BY DEF OwnInv, TypeOK
<1>5. x \in Events => ~InQueue(x) /\ x \notin leaked /\ x # wev
  BY <1>4 DEF OwnInv
<1>6. \A i, j \in 1..(n + 1) :
        queue'[i] = queue'[j] /\ queue'[i] \in Events => i = j
  BY <1>1, <1>2, <1>3, <1>5 DEF OwnInv, InQueue
<1>7. \A e \in Events :
        InQueue(e)' =>
            e \notin leaked' /\ e # wev' /\ \A t \in Callers : mem'[t] # e
  BY <1>2, <1>4, <1>5 DEF OwnInv
<1>8. \A u \in Callers :
        mem'[u] \in Events =>
            /\ mem'[u] \notin leaked' /\ mem'[u] # wev'
            /\ \A v \in Callers : mem'[v] = mem'[u] => v = u
  BY <1>4 DEF OwnInv
<1>9. OwnInv'
  BY <1>2, <1>6, <1>7, <1>8 DEF OwnInv
<1>10. ASSUME NEW e \in Events PROVE Carried(e)' <=> Carried(e)
  BY <1>2, <1>4 DEF Carried
<1>11. QED
  BY <1>9, <1>10

\* A refused post leaks its event.
LEMMA OwnLeak ==
  ASSUME TypeOK, OwnInv, NEW t \in Callers, mem[t] \in Events,
         mem' = [mem EXCEPT ![t] = NoEvent], leaked' = leaked \cup {mem[t]},
         UNCHANGED <<wev, queue>>
  PROVE  OwnInv' /\ \A e \in Events : Carried(e)' <=> Carried(e)
<1>1. PICK x \in Events : x = mem[t]
  OBVIOUS
<1>2. /\ \A u \in Callers : mem'[u] \in Events => mem'[u] = mem[u] /\ mem'[u] # x
      /\ \A u \in Callers : mem[u] \in Events /\ mem[u] # x => mem'[u] = mem[u]
  BY <1>1, Distinct DEF OwnInv, TypeOK
<1>3. ~InQueue(x) /\ x # wev
  BY <1>1 DEF OwnInv
<1>4. \A y : InQueue(y)' <=> InQueue(y)
  BY DEF InQueue
<1>5. OwnInv'
  BY <1>1, <1>2, <1>3, <1>4 DEF OwnInv
<1>6. ASSUME NEW e \in Events PROVE Carried(e)' <=> Carried(e)
  BY <1>1, <1>2, <1>4 DEF Carried
<1>7. QED
  BY <1>5, <1>6

\* The worker takes an event off the queue.
LEMMA OwnTake ==
  ASSUME TypeOK, HandsInv, OwnInv, WorkerTake
  PROVE  OwnInv' /\ \A e \in Events : Carried(e)' <=> Carried(e)
<1> USE Distinct DEF loop, dispatch, pool, machine, worker, main, poster
<1>1. queue # <<>> /\ queue' = Tail(queue) /\ UNCHANGED <<mem, leaked>>
  BY SMTT(60) DEF WorkerTake
<1>2. PICK n \in Nat : Len(queue) = n + 1
  <2>1. Len(queue) \in Nat \ {0}
    BY <1>1, Taken
  <2>2. Len(queue) - 1 \in Nat /\ Len(queue) = (Len(queue) - 1) + 1
    BY <2>1
  <2>3. QED
    BY <2>2
<1>3. /\ Len(queue') = n
      /\ \A i \in 1..n : i + 1 \in 1..(n + 1) /\ i + 1 # 1 /\ queue'[i] = queue[i + 1]
      /\ Head(queue) = queue[1] /\ Head(queue) \in Events \cup {Kill}
      /\ \A y : InQueue(y) <=> InQueue(y)' \/ y = Head(queue)
      /\ 1 \in 1..(n + 1)
      /\ \A i, j \in 1..n : i + 1 = j + 1 => i = j
  BY <1>1, <1>2, Taken
<1>4. /\ wev \notin Events
      /\ Head(queue) \in Events => wev' = Head(queue)
      /\ Head(queue) \notin Events => wev' = wev
  BY <1>3 DEF WorkerTake, HandsInv, HasEvent, AtMachine
<1>0. \A i, j \in 1..(n + 1) : queue[i] = queue[j] /\ queue[i] \in Events => i = j
  BY <1>2 DEF OwnInv
<1>5. ASSUME NEW i \in 1..n, NEW j \in 1..n, queue'[i] = queue'[j],
             queue'[i] \in Events
      PROVE  i = j
  <2>1. queue[i + 1] = queue[j + 1] /\ queue[i + 1] \in Events
    BY <1>3, <1>5
  <2>2. i + 1 = j + 1
    BY <1>0, <1>3, <2>1
  <2>3. QED
    BY <2>2
<1>6. Head(queue) \in Events => \A i \in 1..n : queue'[i] # Head(queue)
  BY <1>0, <1>3
<1>7. \A e \in Events : e = Head(queue) => ~InQueue(e)'
  BY <1>3, <1>6 DEF InQueue
<1>8. \A e \in Events :
        InQueue(e)' =>
            e \notin leaked' /\ e # wev' /\ \A t \in Callers : mem'[t] # e
  BY <1>1, <1>3, <1>4, <1>7 DEF OwnInv
<1>9. Head(queue) \in Events =>
        Head(queue) \notin leaked /\ \A t \in Callers : mem[t] # Head(queue)
  BY <1>3 DEF OwnInv
<1>10. \A u \in Callers :
        mem'[u] \in Events =>
            /\ mem'[u] \notin leaked' /\ mem'[u] # wev'
            /\ \A v \in Callers : mem'[v] = mem'[u] => v = u
  BY <1>1, <1>4, <1>9 DEF OwnInv
<1>11. OwnInv'
  BY <1>1, <1>3, <1>4, <1>5, <1>8, <1>9, <1>10 DEF OwnInv
<1>12. ASSUME NEW e \in Events PROVE Carried(e)' <=> Carried(e)
  BY <1>1, <1>3, <1>4 DEF Carried
<1>13. QED
  BY <1>11, <1>12

\* A post takes a free event.
LEMMA OwnAlloc ==
  ASSUME TypeOK, HandsInv, OwnInv, CountInv, NEW t \in Callers, mem[t] \notin Events,
         NEW x \in free, mem' = [mem EXCEPT ![t] = x], free' = free \ {x},
         refs' = [refs EXCEPT ![x] = 1], UNCHANGED <<wev, queue, leaked, retained>>
  PROVE  OwnInv' /\ CountInv'
<1>1. x \in Events /\ ~Carried(x) /\ x \notin retained
  BY DEF TypeOK, CountInv
<1>2. /\ \A u \in Callers : mem'[u] = IF u = t THEN x ELSE mem[u]
      /\ \A y : InQueue(y)' <=> InQueue(y)
  BY DEF TypeOK, InQueue
<1>3. ~InQueue(x) /\ x # wev /\ x \notin leaked /\ \A u \in Callers : mem[u] # x
  BY <1>1 DEF Carried
<1>4. OwnInv'
  BY <1>1, <1>2, <1>3 DEF OwnInv
<1>5. \A e \in Events : Carried(e)' <=> Carried(e) \/ e = x
  BY <1>1, <1>2 DEF Carried
<1>6. \A e \in Events : /\ refs'[e] = IF e = x THEN 1 ELSE refs[e]
                        /\ e \in free' <=> e \in free /\ e # x
  BY <1>1 DEF TypeOK
<1>7. CountInv'
  BY <1>1, <1>5, <1>6 DEF CountInv
<1>8. QED
  BY <1>4, <1>7

\* Each step keeps every event in one place, and its count.
LEMMA EventsKept ==
  ASSUME TypeOK, HandsInv, OwnInv, CountInv, [Next]_vars
  PROVE  OwnInv' /\ CountInv'
<1> USE Distinct DEF loop, dispatch, pool, machine, worker, main, poster, End
<1>0. ASSUME UNCHANGED <<queue, mem, wev, leaked>>
      PROVE  OwnInv' /\ \A e \in Events : Carried(e)' <=> Carried(e)
  BY <1>0 DEF OwnInv, Carried, InQueue
<1>1. CASE UNCHANGED <<queue, mem, wev, leaked, refs, free, retained>>
  BY <1>0, <1>1, CountSame
<1>2. CASE DeinitKill
  <2>1. CASE UNCHANGED queue
    BY <1>1, <1>2, <2>1 DEF DeinitKill
  <2>2. CASE queue' = Append(queue, Kill)
    <3>1. PICK x \in Events \cup {Kill} : x = Kill
      OBVIOUS
    <3>2. /\ queue' = Append(queue, x) /\ mem' = mem /\ UNCHANGED <<wev, leaked>>
          /\ UNCHANGED <<refs, free, retained>>
      BY <1>2, <2>2, <3>1 DEF DeinitKill
    <3>3. QED
      BY <3>1, <3>2, OwnEnqueue, CountSame
  <2>3. QED
    BY <1>2, <2>1, <2>2 DEF DeinitKill
<1>3. ASSUME NEW t \in Callers, PostAlloc(t) PROVE OwnInv' /\ CountInv'
  <2>1. mem[t] \notin Events
    BY <1>3 DEF PostAlloc, HandsInv
  <2>2. QED
    BY <1>1, <1>3, <2>1, OwnAlloc DEF PostAlloc
<1>4. ASSUME NEW t \in Callers, PostTest(t) \/ PostBlock(t) \/ PostEnqueue(t)
      PROVE  OwnInv' /\ CountInv'
  <2>1. PICK x \in Events : x = mem[t]
    BY <1>4 DEF PostTest, PostBlock, PostEnqueue, HandsInv
  <2>2. UNCHANGED <<wev, refs, free, retained>>
    BY <1>4 DEF PostTest, PostBlock, PostEnqueue
  <2>3. CASE UNCHANGED <<queue, leaked, mem>>
    BY <1>1, <2>2, <2>3
  <2>4. CASE /\ leaked' = leaked \cup {mem[t]} /\ UNCHANGED queue
             /\ mem' = [mem EXCEPT ![t] = NoEvent]
    BY <2>1, <2>2, <2>4, OwnLeak, CountSame
  <2>5. CASE /\ queue' = Append(queue, mem[t]) /\ UNCHANGED leaked
             /\ mem' = [mem EXCEPT ![t] = NoEvent]
    <3>1. OwnInv' /\ \A e \in Events : Carried(e)' <=> Carried(e)
      BY <2>1, <2>2, <2>5, OwnEnqueue
    <3>2. QED
      BY <2>2, <3>1, CountSame
  <2>6. QED
    BY <1>4, <2>3, <2>4, <2>5 DEF PostTest, PostBlock, PostEnqueue
<1>5. CASE WorkerTake
  <2>1. UNCHANGED <<refs, free, retained>>
    BY <1>5 DEF WorkerTake
  <2>2. QED
    BY <1>5, <2>1, OwnTake, CountSame
<1>6. CASE WorkerNotify
  <2>1. UNCHANGED <<queue, mem, wev, leaked, free>>
    BY <1>6 DEF WorkerNotify
  <2>2. wev \in Events /\ Carried(wev)
    BY <1>6 DEF WorkerNotify, HandsInv, HasEvent, AtMachine, Carried
  <2>3. CASE UNCHANGED <<refs, retained>>
    BY <1>1, <2>1, <2>3
  <2>4. CASE /\ wev \notin retained /\ retained' = retained \cup {wev}
             /\ refs' = [refs EXCEPT ![wev] = @ + 1]
    <3>1. OwnInv' /\ \A e \in Events : Carried(e)' <=> Carried(e)
      BY <1>0, <2>1
    <3>2. refs[wev] = 1
      BY <2>2, <2>4 DEF CountInv
    <3>3. \A e \in Events : refs'[e] = IF e = wev THEN 2 ELSE refs[e]
      BY <2>2, <2>4, <3>2 DEF TypeOK
    <3>4. CountInv'
      BY <2>1, <2>2, <2>4, <3>1, <3>2, <3>3 DEF CountInv
    <3>5. QED
      BY <3>1, <3>4
  <2>5. QED
    BY <1>6, <2>3, <2>4 DEF WorkerNotify
<1>7. CASE WorkerRelease
  <2>1. PICK x \in Events : x = wev
    BY <1>7 DEF WorkerRelease, HandsInv, HasEvent, AtMachine
  <2>2. Carried(x) /\ Release(x) /\ wev' = NoEvent
    BY <1>7, <2>1 DEF WorkerRelease, Carried
  <2>3. UNCHANGED <<queue, mem, leaked, retained>>
    BY <1>7 DEF WorkerRelease
  <2>4. ~InQueue(x) /\ x \notin leaked /\ \A t \in Callers : mem[t] # x
    BY <2>1 DEF OwnInv
  <2>5. \A y : InQueue(y)' <=> InQueue(y)
    BY <2>3 DEF InQueue
  <2>6. NoEvent \notin leaked
    BY DEF TypeOK
  <2>7. OwnInv'
    BY <2>2, <2>3, <2>5, <2>6 DEF OwnInv
  <2>8. \A e \in Events : Carried(e)' <=> Carried(e) /\ e # x
    BY <2>1, <2>2, <2>3, <2>4, <2>5 DEF Carried
  <2>9. /\ refs[x] \in {1, 2} /\ refs'[x] = refs[x] - 1
        /\ x \in free' <=> refs[x] = 1
        /\ \A y \in Events : y # x => refs'[y] = refs[y] /\ (y \in free' <=> y \in free)
    BY <2>2, ReleaseIs
  <2>10. CountInv'
    BY <2>2, <2>3, <2>8, <2>9 DEF CountInv
  <2>11. QED
    BY <2>7, <2>10
<1>8. ASSUME NEW x \in Events, ListenerRelease(x) PROVE OwnInv' /\ CountInv'
  <2>1. /\ x \in retained /\ Release(x) /\ retained' = retained \ {x}
        /\ UNCHANGED <<queue, mem, wev, leaked>>
    BY <1>8 DEF ListenerRelease
  <2>2. OwnInv' /\ \A e \in Events : Carried(e)' <=> Carried(e)
    BY <1>0, <2>1
  <2>3. /\ refs[x] \in {1, 2} /\ refs'[x] = refs[x] - 1
        /\ x \in free' <=> refs[x] = 1
        /\ \A y \in Events : y # x => refs'[y] = refs[y] /\ (y \in free' <=> y \in free)
    BY <2>1, ReleaseIs
  <2>4. CountInv'
    BY <2>1, <2>2, <2>3 DEF CountInv
  <2>5. QED
    BY <2>2, <2>4
<1>9. ASSUME NEW t \in Callers, state_event_loop_post(t) PROVE OwnInv' /\ CountInv'
  BY <1>1, <1>9 DEF state_event_loop_post
<1>10. CASE UNCHANGED vars
  BY <1>1, <1>10 DEF vars
<1>11. QED
  BY <1>1, <1>2, <1>3, <1>4, <1>5, <1>6, <1>7, <1>8, <1>9, <1>10, StepOrStutter,
     EventSteps DEF PostStep

-----------------------------------------------------------------------------
(* The end of the loop.                                                    *)

\* Each step keeps the kill request where it belongs.
LEMMA KillKept ==
  ASSUME TypeOK, HandsInv, KillInv, LiveInv, ended = "no", Step
  PROVE  KillInv'
<1> USE Distinct DEF loop, dispatch, pool, machine, worker, main, poster, End, Gone,
        Closing, Dismantling
<1>1. ASSUME UNCHANGED <<queue, destroying, racing>>,
             wpc' \in Gone <=> wpc \in Gone, wpc = "ended" => wpc' = "ended",
             \/ mpc' = mpc
             \/ /\ mpc' # "kill" /\ (mpc' \in Dismantling => mpc \in Dismantling)
                /\ mpc' \in Closing \cup Dismantling <=> mpc \in Closing \cup Dismantling
      PROVE  KillInv'
  <2>1. InQueue(Kill)' <=> InQueue(Kill)
    BY <1>1 DEF InQueue
  <2>2. QED
    BY <1>1, <2>1 DEF KillInv
<1>2. CASE state_event_loop_deinit
  <2>1. destroying' /\ mpc = "idle" /\ mpc' = "kill" /\ UNCHANGED <<wpc, queue>>
    BY <1>2 DEF state_event_loop_deinit
  <2>2. ~InQueue(Kill) /\ wpc \notin Gone
    BY <2>1 DEF KillInv
  <2>3. ~InQueue(Kill)' /\ wpc' \notin Gone
    BY <2>1, <2>2 DEF InQueue
  <2>4. QED
    BY <2>1, <2>3 DEF KillInv, InQueue
<1>3. CASE DeinitKill
  <2>1. mpc = "kill" /\ UNCHANGED <<wpc, destroying, racing>>
    BY <1>3 DEF DeinitKill
  <2>2. ~InQueue(Kill) /\ wpc \notin Gone /\ destroying
    BY <2>1 DEF KillInv
  <2>3. CASE UNCHANGED <<queue, mpc>>
    BY <1>1, <2>1, <2>3
  <2>4. CASE queue' = Append(queue, Kill) /\ mpc' = "wait"
    <3>0. queue \in Seq(Events \cup {Kill})
      BY DEF TypeOK
    <3>1. PICK n \in Nat : n = Len(queue)
      BY ONLY <3>0
    <3>2. PICK x \in Events \cup {Kill} : x = Kill
      OBVIOUS
    <3>3. Len(queue') = n + 1 /\ \A i \in 1..n : queue'[i] = queue[i]
      BY <2>4, <3>1, <3>2, Appended
    <3>4. \A i \in 1..(n + 1) : i \in 1..n \/ i = n + 1
      OBVIOUS
    <3>5. \A i \in 1..Len(queue') : queue'[i] = Kill => i = Len(queue')
      BY <2>2, <3>1, <3>3, <3>4 DEF InQueue
    <3>6. QED
      BY <2>1, <2>2, <2>4, <3>5 DEF KillInv
  <2>5. QED
    BY <1>3, <2>3, <2>4 DEF DeinitKill
<1>4. CASE DeinitWait \/ DeinitPool \/ DeinitBlocks \/ DeinitQueue
  BY <1>1, <1>4 DEF DeinitWait, DeinitPool, DeinitBlocks, DeinitQueue
<1>5. CASE DeinitJoin
  <2>1. /\ wpc = "ended" /\ mpc = "join" /\ mpc' = "drop_blocks"
        /\ UNCHANGED <<wpc, queue, destroying, racing>>
    BY <1>5 DEF DeinitJoin
  <2>2. QED
    BY <2>1 DEF KillInv, InQueue
<1>6. ASSUME NEW t \in Callers, PostEnqueue(t) PROVE KillInv'
  <2>1. UNCHANGED <<wpc, mpc, destroying, racing>> /\ pc[t] \in PastTest
    BY <1>6 DEF PostEnqueue, PastTest
  <2>2. CASE UNCHANGED queue
    BY <1>1, <2>1, <2>2
  <2>3. CASE queue' = Append(queue, mem[t])
    <3>1. PICK x \in Events : x = mem[t]
      BY <1>6 DEF PostEnqueue, HandsInv
    <3>2. InQueue(Kill)' <=> InQueue(Kill)
      BY <2>3, <3>1, Appended
    <3>3. ~racing => ~InQueue(Kill)' /\ wpc \notin Gone
      BY <2>1, <3>2 DEF LiveInv, KillInv
    <3>4. ~racing => \A i \in 1..Len(queue') : queue'[i] = Kill => i = Len(queue')
      BY <3>3 DEF InQueue
    <3>5. QED
      BY <2>1, <3>2, <3>3, <3>4 DEF KillInv
  <2>4. QED
    BY <1>6, <2>2, <2>3 DEF PostEnqueue
<1>7. CASE WorkerTake
  <2>1. UNCHANGED <<destroying, mpc, racing>> /\ wpc \notin Gone
    BY <1>7, ZenonT(40) DEF WorkerTake
  <2>2. PICK n \in Nat : Len(queue) = n + 1
    <3>1. Len(queue) \in Nat \ {0}
      BY <1>7, Taken DEF WorkerTake
    <3>2. Len(queue) - 1 \in Nat /\ Len(queue) = (Len(queue) - 1) + 1
      BY <3>1
    <3>3. QED
      BY <3>2
  <2>3. /\ Len(queue') = n
        /\ \A i \in 1..n : i + 1 \in 1..(n + 1) /\ queue'[i] = queue[i + 1]
        /\ Head(queue) = queue[1] /\ 1 \in 1..(n + 1)
        /\ \A y : InQueue(y) <=> InQueue(y)' \/ y = Head(queue)
        /\ queue' \in Seq(Events \cup {Kill})
    BY <1>7, <2>2, Taken, TailIs DEF WorkerTake, TypeOK
  <2>4. ~racing => \A i \in 1..(n + 1) : queue[i] = Kill => i = n + 1
    BY <2>2 DEF KillInv
  <2>5. ~racing => \A i \in 1..n : queue'[i] = Kill => i = n
    BY <2>3, <2>4
  <2>6. wpc' \in Gone => Head(queue) = Kill
    BY <1>7 DEF WorkerTake
  <2>7. wpc' \in Gone => InQueue(Kill) /\ (~racing => queue' = <<>>)
    <3>1. ~racing /\ Head(queue) = Kill => n = 0
      BY <2>3, <2>4
    <3>2. Head(queue) = Kill => InQueue(Kill)
      BY <2>3
    <3>3. QED
      BY <2>3, <2>6, <3>1, <3>2, EmptySeq
  <2>8. InQueue(Kill)' => InQueue(Kill)
    BY <2>3
  <2>9. QED
    BY <2>1, <2>3, <2>5, <2>7, <2>8 DEF KillInv
<1>8. CASE StopMachine
  BY <1>1, <1>8 DEF StopMachine
<1>9. CASE \/ \E i \in Machines, s \in States : state_event_loop_add_state(i, s)
           \/ state_event_loop_install_event_pre_proc
           \/ state_event_loop_start \/ state_event_loop_stop
           \/ StartLoad \/ StartFlag \/ StartEnter
  BY <1>1, <1>9 DEF state_event_loop_add_state, state_event_loop_install_event_pre_proc,
     state_event_loop_start, state_event_loop_stop, StartLoad, StartFlag, StartEnter
<1>10. CASE \/ \E t \in Callers : \/ state_event_loop_post(t)
                                  \/ PostAlloc(t) \/ PostTest(t) \/ PostBlock(t)
            \/ ClearStop \/ \E e \in Events : ListenerRelease(e)
  BY <1>1, <1>10 DEF state_event_loop_post, PostAlloc, PostTest, PostBlock, ClearStop,
     WorkerStop, ListenerRelease
<1>11. CASE \/ WorkerSignal \/ WorkerEnd \/ WorkerPre \/ WorkerHandle \/ WorkerValid
            \/ WorkerHandled \/ WorkerTransition \/ WorkerExit \/ WorkerExited
            \/ WorkerEnter \/ WorkerInited \/ WorkerEntered \/ WorkerNotify
            \/ WorkerRelease \/ WorkerFree
  <2>1. /\ UNCHANGED <<queue, destroying, racing, mpc>>
        /\ wpc' \in Gone <=> wpc \in Gone
    BY <1>11 DEF WorkerSignal, WorkerEnd, WorkerPre, WorkerHandle, WorkerValid,
       WorkerHandled, WorkerTransition, WorkerExit, WorkerExited, WorkerEnter,
       WorkerInited, WorkerEntered, WorkerNotify, WorkerRelease, WorkerFree, NextMachine
  <2>2. wpc # "ended"
    BY <1>11 DEF WorkerSignal, WorkerEnd, WorkerPre, WorkerHandle, WorkerValid,
       WorkerHandled, WorkerTransition, WorkerExit, WorkerExited, WorkerEnter,
       WorkerInited, WorkerEntered, WorkerNotify, WorkerRelease, WorkerFree
  <2>3. QED
    BY <1>1, <2>1, <2>2
<1>12. QED
  BY <1>2, <1>3, <1>4, <1>5, <1>6, <1>7, <1>8, <1>9, <1>10, <1>11
     DEF Step, Deinit, PostStep, WorkerStep

\* Each step keeps what has been taken apart, and the posts that can meet it.
LEMMA LiveKept ==
  ASSUME TypeOK, KillInv, LiveInv, Step
  PROVE  LiveInv'
<1> USE DEF loop, dispatch, pool, machine, worker, main, poster, End, Closing,
        Dismantling, PastTest
<1>1. ASSUME UNCHANGED <<plive, blive, qlive, destroying, racing, pc>>,
             mpc' \in Dismantling <=> mpc \in Dismantling,
             mpc' = mpc \/ (mpc' # "done" /\ mpc # "done"
                            /\ mpc' \notin {"drop_blocks", "drop_queue"}
                            /\ mpc \notin {"drop_blocks", "drop_queue"})
      PROVE  LiveInv'
  BY <1>1 DEF LiveInv
<1>2. CASE state_event_loop_deinit
  BY <1>2 DEF LiveInv, state_event_loop_deinit
<1>3. CASE DeinitKill \/ DeinitWait
  BY <1>1, <1>3 DEF DeinitKill, DeinitWait
<1>4. CASE DeinitJoin \/ DeinitBlocks \/ DeinitQueue \/ DeinitPool
  <2>1. UNCHANGED <<destroying, racing, pc>>
    BY <1>4 DEF DeinitJoin, DeinitBlocks, DeinitQueue, DeinitPool
  <2>2. CASE DeinitJoin
    <3>1. mpc = "join" /\ mpc' = "drop_blocks" /\ UNCHANGED <<plive, blive, qlive>>
      BY <2>2 DEF DeinitJoin
    <3>2. QED
      BY ONLY LiveInv, <2>1, <3>1 DEF LiveInv
  <2>3. CASE DeinitBlocks
    <3>1. mpc = "drop_blocks" /\ mpc' = "drop_queue" /\ UNCHANGED <<plive, qlive>> /\ ~blive'
      BY <2>3 DEF DeinitBlocks
    <3>2. QED
      BY ONLY LiveInv, <2>1, <3>1 DEF LiveInv
  <2>4. CASE DeinitQueue
    <3>1. mpc = "drop_queue" /\ mpc' = "deinit_stop" /\ UNCHANGED <<plive, blive>> /\ ~qlive'
      BY <2>4 DEF DeinitQueue
    <3>2. QED
      BY ONLY LiveInv, <2>1, <3>1 DEF LiveInv
  <2>5. CASE DeinitPool
    <3>1. mpc = "deinit_pool" /\ mpc' = "done" /\ UNCHANGED <<blive, qlive>> /\ ~plive'
      BY <2>5 DEF DeinitPool
    <3>2. QED
      BY ONLY LiveInv, <2>1, <3>1 DEF LiveInv
  <2>6. QED
    BY <1>4, <2>2, <2>3, <2>4, <2>5
<1>5. ASSUME NEW t \in Callers, state_event_loop_post(t) \/ PostStep(t) PROVE LiveInv'
  <2>1. UNCHANGED <<plive, blive, qlive, destroying, racing, mpc>>
    BY <1>5 DEF state_event_loop_post, PostStep, PostAlloc, PostTest, PostBlock, PostEnqueue
  <2>2. \/ UNCHANGED pc
        \/ \E q \in {"idle", "alloc", "dispatch"} : pc' = [pc EXCEPT ![t] = q]
        \/ ~destroying
        \/ pc[t] = "block" /\ pc' = [pc EXCEPT ![t] = "enqueue"]
    BY <1>5 DEF state_event_loop_post, PostStep, PostAlloc, PostTest, PostBlock, PostEnqueue
  <2>3. destroying => \A u \in Callers : pc'[u] \in PastTest => pc[u] \in PastTest
    BY <2>2 DEF TypeOK
  <2>4. QED
    BY <2>1, <2>3 DEF LiveInv
<1>6. CASE StopMachine
  BY <1>1, <1>6 DEF StopMachine
<1>7. CASE \/ \E i \in Machines, s \in States : state_event_loop_add_state(i, s)
           \/ state_event_loop_install_event_pre_proc
           \/ state_event_loop_start \/ state_event_loop_stop
           \/ StartLoad \/ StartFlag \/ StartEnter
  BY <1>1, <1>7 DEF state_event_loop_add_state, state_event_loop_install_event_pre_proc,
     state_event_loop_start, state_event_loop_stop, StartLoad, StartFlag, StartEnter
<1>8. CASE WorkerStep \/ ClearStop \/ \E e \in Events : ListenerRelease(e)
  <2>1. UNCHANGED <<plive, blive, qlive, destroying, racing, pc, mpc>>
    BY <1>8 DEF WorkerStep, WorkerTake, WorkerSignal, WorkerEnd, WorkerPre, WorkerHandle,
       WorkerValid, WorkerHandled, WorkerTransition, WorkerExit, WorkerExited,
       WorkerEnter, WorkerInited, WorkerEntered, WorkerNotify, WorkerRelease,
       WorkerFree, ClearStop, WorkerStop, ListenerRelease
  <2>2. QED
    BY <1>1, <2>1
<1>9. QED
  BY <1>2, <1>3, <1>4, <1>5, <1>6, <1>7, <1>8 DEF Step, Deinit

-----------------------------------------------------------------------------
(* The machines.                                                           *)

\* Each step keeps what is known of the machines without any care of the client.
LEMMA MachineKept ==
  ASSUME TypeOK, TypeOK', HandsInv, MachineInv, ended = "no", Step
  PROVE  MachineInv'
<1> USE DEF loop, dispatch, pool, machine, worker, main, poster, End, AtMachine, Closing
<1> DEFINE Within == {"valid", "handling", "exit", "exiting", "enter", "initing"}
           First == {"idle", "drop_blocks", "drop_queue", "kill", "wait", "join"}
           Begun == {"flag", "enter"}
<1>0. N \in Nat /\ mi \in Machines /\ wi \in Machines
  BY Distinct DEF TypeOK
<1>1. ASSUME UNCHANGED <<sm, stopped>>,
             wpc' \in Within => wi' = wi /\ sm[wi].started,
             mpc' \in Begun => mpc \in Begun /\ mi' = mi,
             mpc' \in First => mi' = 1
      PROVE  MachineInv'
  BY <1>1 DEF MachineInv
<1>2. ASSUME NEW k \in Machines, Keeps(k), UNCHANGED <<stopped, mpc, mi>>,
             wpc' \in Within => wi' = wi /\ sm[wi].started
      PROVE  MachineInv'
  BY <1>2, <1>0 DEF MachineInv, Keeps, Becomes
<1>3. ASSUME NEW i \in Machines, NEW s \in States, state_event_loop_add_state(i, s)
      PROVE  MachineInv'
  <2>1. UNCHANGED <<stopped, mpc, mi, wpc, wi>>
    BY <1>3 DEF state_event_loop_add_state
  <2>2. wpc' \in Within => wi' = wi /\ sm[wi].started
    BY <2>1 DEF MachineInv
  <2>3. QED
    BY <1>2, <1>3, <2>1, <2>2, AddStateMachine
<1>4. CASE \/ state_event_loop_install_event_pre_proc
           \/ state_event_loop_start \/ state_event_loop_stop
           \/ state_event_loop_deinit \/ Deinit
           \/ \E t \in Callers : state_event_loop_post(t) \/ PostStep(t)
           \/ \E e \in Events : ListenerRelease(e)
  <2>1. /\ UNCHANGED <<sm, stopped, wpc, wi>>
        /\ \/ mpc' = mpc /\ mi' = mi
           \/ mpc' \notin Begun /\ mi = 1 /\ mi' = 1
           \/ mpc' \notin Begun \cup First
    BY <1>4 DEF MachineInv, state_event_loop_install_event_pre_proc,
       state_event_loop_start, state_event_loop_stop, state_event_loop_deinit,
       Deinit, DeinitKill, DeinitWait, DeinitJoin, DeinitBlocks, DeinitQueue,
       DeinitPool, state_event_loop_post, PostStep, PostAlloc, PostTest, PostBlock,
       PostEnqueue, ListenerRelease
  <2>2. QED
    BY <1>1, <2>1 DEF MachineInv
<1>5. CASE StartLoad
  <2>1. UNCHANGED <<wpc, wi, mi>> /\ mpc = "load"
    BY <1>5 DEF StartLoad
  <2>2. CASE UNCHANGED <<sm, stopped, mpc>>
    BY <1>1, <2>1, <2>2 DEF MachineInv
  <2>3. CASE /\ Becomes(mi, Start, sm[mi].started, sm[mi].requested, sm[mi].next)
             /\ mpc' = "flag" /\ stopped' = stopped \ {mi}
    BY <1>0, <2>1, <2>3, Distinct DEF MachineInv, Becomes
  <2>4. QED
    BY <1>5, <2>2, <2>3, StartLoadMachine
<1>6. CASE StartFlag
  <2>1. UNCHANGED <<wpc, wi, mi, stopped>> /\ mpc = "flag" /\ mpc' = "enter"
    BY <1>6 DEF StartFlag
  <2>2. QED
    BY <1>0, <1>6, <2>1, StartFlagMachine DEF MachineInv, Becomes
<1>7. CASE StartEnter
  <2>0. UNCHANGED <<wpc, wi, stopped>>
    BY <1>7 DEF StartEnter, EnterState
  <2>1. CASE sm[mi].current = NoState
    BY <1>1, <1>7, <2>0, <2>1 DEF StartEnter, MachineInv
  <2>2. CASE sm[mi].current # NoState
    <3>1. Keeps(mi)
      BY <1>0, <1>7, <2>2, EnterStateMachine DEF StartEnter
    <3>2. mpc' = "load" \/ (mpc' = "idle" /\ mi' = 1)
      BY <1>7, <2>2 DEF StartEnter
    <3>3. QED
      BY <1>0, <2>0, <3>1, <3>2 DEF MachineInv, Keeps, Becomes
  <2>3. QED
    BY <2>1, <2>2
<1>8. CASE StopMachine
  <2>1. /\ UNCHANGED <<wpc, wi>> /\ mpc' \notin Begun
        /\ mpc' \in First => mi' = 1
        /\ stopped' = stopped \cup {mi}
    BY <1>8 DEF StopMachine
  <2>2. QED
    BY <1>0, <1>8, <2>1, StopMachineMachine DEF MachineInv, Becomes
<1>9. CASE WorkerStop
  <2>1. UNCHANGED <<wpc, wi, mpc, mi>> /\ stopped' = Machines
    BY <1>9 DEF WorkerStop
  <2>2. QED
    BY <1>0, <1>9, <2>1, WorkerStopMachines DEF MachineInv
<1>10. CASE \/ WorkerTake \/ WorkerSignal \/ WorkerEnd \/ WorkerPre \/ WorkerEntered
            \/ WorkerNotify \/ WorkerRelease \/ WorkerFree
  <2>1. UNCHANGED <<sm, stopped, mpc, mi>> /\ wpc' \notin Within
    BY <1>10 DEF WorkerTake, WorkerSignal, WorkerEnd, WorkerPre, WorkerEntered,
       WorkerNotify, WorkerRelease, WorkerFree, NextMachine
  <2>2. QED
    BY <1>1, <2>1 DEF MachineInv
<1>11. CASE WorkerHandle \/ WorkerValid \/ WorkerExit \/ WorkerInited
  <2>1. /\ UNCHANGED <<sm, stopped, mpc, mi, wi>>
        /\ wpc' \in Within => sm[wi].started
    BY <1>11 DEF WorkerHandle, WorkerValid, WorkerExit, WorkerInited, MachineInv
  <2>2. QED
    BY <1>1, <2>1 DEF MachineInv
<1>12. CASE WorkerHandled
  <2>1. UNCHANGED <<mpc, mi, wi, stopped>> /\ wpc = "handling"
    BY <1>12 DEF WorkerHandled
  <2>2. sm[wi].started
    BY <2>1 DEF MachineInv
  <2>3. CASE UNCHANGED <<sm, wpc>>
    BY <1>1, <2>1, <2>2, <2>3 DEF MachineInv
  <2>4. ASSUME wpc' = "transition", NEW s \in States,
               Becomes(wi, sm[wi].current, sm[wi].started,
                        sm[wi].requested \/ s # sm[wi].current, s)
        PROVE  MachineInv'
    <3>1. \A i \in Machines : /\ sm'[i].current = sm[i].current
                              /\ sm'[i].started = sm[i].started
                              /\ sm'[i].requested => sm'[i].started
      BY <1>0, <2>2, <2>4 DEF MachineInv, Becomes
    <3>2. QED
      BY <1>0, <2>1, <2>4, <3>1 DEF MachineInv
  <2>5. QED
    BY <1>12, <2>3, <2>4, HandledMachine
<1>13. CASE WorkerTransition
  <2>1. UNCHANGED <<mpc, mi, stopped>> /\ wpc = "transition"
    BY <1>13 DEF WorkerTransition
  <2>2. Becomes(wi, sm[wi].current, sm[wi].started,
                sm[wi].requested /\ ~sm[wi].started, sm[wi].next)
    BY <1>13, TransitionMachine
  <2>3. wpc' \in Within => wi' = wi /\ sm[wi].started
    <3>1. NextMachine => wpc' \notin Within
      BY DEF NextMachine
    <3>2. QED
      BY <1>13, <2>1, <3>1, TransitionMachine
  <2>4. \A i \in Machines : /\ sm'[i].current = sm[i].current
                            /\ sm'[i].started = sm[i].started
                            /\ sm'[i].requested => sm'[i].started
    BY <1>0, <2>2 DEF MachineInv, Becomes
  <2>5. QED
    BY <1>0, <2>1, <2>3, <2>4 DEF MachineInv
<1>14. CASE WorkerExited
  <2>1. UNCHANGED <<mpc, mi, wi, stopped>> /\ wpc = "exiting" /\ wpc' = "enter"
    BY <1>14 DEF WorkerExited
  <2>2. sm[wi].next # NoState
    BY <1>0, Distinct DEF TypeOK
  <2>3. QED
    BY <1>0, <1>14, <2>1, <2>2, ExitedMachine DEF MachineInv, Becomes
<1>15. CASE WorkerEnter
  <2>1. UNCHANGED <<mpc, mi, wi, stopped>> /\ wpc = "enter"
    BY <1>15 DEF WorkerEnter, EnterState
  <2>2. sm[wi].started
    BY <2>1 DEF MachineInv
  <2>3. CASE UNCHANGED sm
    BY <1>1, <2>1, <2>2, <2>3 DEF MachineInv
  <2>4. CASE Keeps(wi)
    BY <1>0, <1>2, <2>1, <2>2, <2>4
  <2>5. QED
    BY <1>15, <2>3, <2>4, EnterMachine
<1>16. QED
  BY <1>3, <1>4, <1>5, <1>6, <1>7, <1>8, <1>9, <1>10, <1>11, <1>12, <1>13, <1>14,
     <1>15 DEF Step, WorkerStep, ClearStop

\* The step records when Main and the worker are at one machine.
LEMMA ApartKept ==
  ASSUME Watch
  PROVE  ApartInv' /\ (overlap => overlap')
<1>1. ~overlap' => (MainAt \cap WorkerAt)' = {}
  BY DEF Watch
<1>2. ApartInv'
  BY <1>1 DEF ApartInv, MainAt, WorkerAt, Starting, AtMachine
<1>3. QED
  BY <1>2 DEF Watch

\* f_enter and f_exit stay paired, and requests settled, over a step of a client
\* that keeps its starts and stops apart from the worker.
LEMMA PairKept ==
  ASSUME TypeOK, TypeOK', HandsInv, KillInv, MachineInv, ApartInv, ApartInv',
         \A i \in Machines : Paired(i) /\ Settled(i), ProgressInv,
         ~overlap, ~overlap', ended = "no", ended' = "no", Step
  PROVE  (\A i \in Machines : Paired(i)' /\ Settled(i)') /\ ProgressInv'
<1> USE DEF loop, dispatch, pool, machine, worker, main, poster, End
<1> DEFINE Goal == (\A i \in Machines : Paired(i)' /\ Settled(i)') /\ ProgressInv'
<1>0. /\ N \in Nat /\ mi \in Machines /\ wi \in Machines /\ NoState \notin States
      /\ \A i \in Machines : i \in Nat /\ 1 <= i /\ i <= N
      /\ \A i \in Machines : sm[i].next \in States
  BY Distinct DEF TypeOK, Machines
<1>a. ASSUME \A i \in Machines : sm'[i].current = sm[i].current, UNCHANGED <<mpc, mi>>,
             LeavesInv', wpc' = "initing" => wst' = sm'[wi'].current
      PROVE  ProgressInv'
  BY <1>0, <1>a DEF ProgressInv
<1>1. ASSUME \A i \in Machines : /\ sm'[i].current = sm[i].current
                                 /\ sm'[i].requested = sm[i].requested
                                 /\ sm'[i].next = sm[i].next,
             UNCHANGED <<inside, wpc, wi, wst, mpc, mi>>
      PROVE  Goal
  <2>1. \A i \in Machines : Paired(i)' /\ Settled(i)'
    BY <1>0, <1>1 DEF Paired, Settled
  <2>2. LeavesInv' /\ (wpc' = "initing" => wst' = sm'[wi'].current)
    BY <1>0, <1>1 DEF LeavesInv, ProgressInv
  <2>3. QED
    BY <1>a, <1>1, <2>1, <2>2
<1>2. ASSUME NEW i \in Machines, NEW s \in States, state_event_loop_add_state(i, s)
      PROVE  Goal
  BY <1>1, <1>2, AddStateMachine DEF state_event_loop_add_state, Keeps, Becomes
<1>3. CASE \/ state_event_loop_install_event_pre_proc
           \/ \E t \in Callers : state_event_loop_post(t) \/ PostStep(t)
           \/ \E e \in Events : ListenerRelease(e)
  BY <1>1, <1>3 DEF state_event_loop_install_event_pre_proc,
     state_event_loop_post, PostStep, PostAlloc, PostTest, PostBlock,
     PostEnqueue, ListenerRelease
<1>4. CASE state_event_loop_start
  <2>1. /\ UNCHANGED <<sm, inside, wpc, wi, wst>> /\ mpc = "idle" /\ mpc' = "load"
        /\ \A i \in Machines : sm[i].current = NoState
    BY <1>4 DEF state_event_loop_start
  <2>2. \A i \in Machines : Paired(i)' /\ Settled(i)'
    BY <2>1 DEF Paired, Settled
  <2>3. mi' \in Machines
    BY DEF TypeOK
  <2>4. QED
    BY <2>1, <2>2, <2>3 DEF ProgressInv, LeavesInv
<1>5. CASE \/ state_event_loop_stop \/ state_event_loop_deinit \/ DeinitKill
           \/ DeinitWait \/ DeinitJoin \/ DeinitBlocks \/ DeinitPool
  <2>1. /\ UNCHANGED <<sm, inside, wpc, wi, wst>>
        /\ mpc \notin {"flag", "enter"} /\ mpc' \notin Starting \cup {"deinit_stop"}
    BY <1>5 DEF state_event_loop_stop, state_event_loop_deinit, DeinitKill, DeinitWait,
       DeinitJoin, DeinitBlocks, DeinitPool, Starting
  <2>2. QED
    BY <2>1 DEF Paired, Settled, ProgressInv, LeavesInv, Starting
<1>6. CASE DeinitQueue
  <2>1. /\ UNCHANGED <<sm, inside, wpc, wi, wst, mi>> /\ mpc = "drop_queue"
        /\ mpc' = "deinit_stop"
    BY <1>6 DEF DeinitQueue
  <2>2. mi = 1
    BY <2>1 DEF MachineInv
  <2>3. \A i \in Machines : ~(i < mi')
    <3>1. \A i \in Machines : ~(i < 1)
      BY <1>0
    <3>2. QED
      BY <2>1, <2>2, <3>1
  <2>4. ProgressInv'
    BY <2>1, <2>3 DEF ProgressInv, LeavesInv, Starting
  <2>5. QED
    BY <2>1, <2>4 DEF Paired, Settled
<1>7. CASE StartLoad
  <2>1. UNCHANGED <<inside, wpc, wi, wst, mi>> /\ mpc = "load" /\ mpc' = "flag"
    BY <1>7, StartLoadMachine DEF StartLoad
  <2>2. Becomes(mi, Start, sm[mi].started, sm[mi].requested, sm[mi].next)
    BY <1>7, StartLoadMachine
  <2>3. ~(wpc \in AtMachine /\ mi = wi) /\ ~sm[mi].requested
    BY <1>0, <2>1 DEF ApartInv, Settled, AtMachine, Starting
  <2>4. inside[mi] = NoState
    BY <1>0, <2>1, <2>3 DEF Paired, ProgressInv, LeavesInv, AtMachine
  <2>5. \A i \in Machines : Paired(i)'
    BY <1>0, <2>1, <2>2, <2>3, <2>4 DEF Paired, Becomes, AtMachine
  <2>6. \A i \in Machines : Settled(i)'
    BY <1>0, <2>1, <2>2, <2>3 DEF Settled, Becomes
  <2>7. ProgressInv'
    BY <1>0, <2>1, <2>2, <2>3 DEF ProgressInv, LeavesInv, Becomes, Starting, AtMachine
  <2>8. QED
    BY <2>5, <2>6, <2>7
<1>8. CASE StartFlag
  <2>1. UNCHANGED <<inside, wpc, wi, wst, mi>> /\ mpc = "flag" /\ mpc' = "enter"
    BY <1>8 DEF StartFlag
  <2>2. Becomes(mi, sm[mi].current, TRUE, sm[mi].requested, sm[mi].next)
    BY <1>8, StartFlagMachine
  <2>3. \A i \in Machines : /\ sm'[i].current = sm[i].current
                            /\ sm'[i].requested = sm[i].requested
                            /\ sm'[i].next = sm[i].next
    BY <1>0, <2>2 DEF Becomes
  <2>4. QED
    BY <1>0, <2>1, <2>3 DEF Paired, Settled, ProgressInv, LeavesInv, Starting
<1>9. CASE StartEnter
  <2>1. EnterState(mi) /\ sm[mi].current # NoState /\ UNCHANGED <<wpc, wi, wst>>
    BY <1>9 DEF StartEnter
  <2>2. Keeps(mi) /\ inside' = [inside EXCEPT ![mi] = sm[mi].current]
    BY <1>0, <2>1, EnterStateMachine
  <2>3. \A i \in Machines : /\ sm'[i].current = sm[i].current
                            /\ sm'[i].requested = sm[i].requested
                            /\ sm'[i].next = sm[i].next
                            /\ inside'[i] = IF i = mi THEN sm[mi].current ELSE inside[i]
    BY <1>0, <2>2 DEF Keeps, Becomes, TypeOK
  <2>4. /\ mpc = "enter"
        /\ \/ mpc' = "load" /\ mi < N /\ mi' = mi + 1
           \/ mpc' = "idle"
    BY <1>9, <2>1 DEF StartEnter
  <2>5. ~(wpc \in AtMachine /\ mi = wi)
    BY <2>4 DEF ApartInv, Starting
  <2>6. \A i \in Machines : Paired(i)'
    BY <1>0, <2>1, <2>3, <2>4, <2>5 DEF Paired, AtMachine
  <2>7. \A i \in Machines : Settled(i)'
    BY <1>0, <2>1, <2>3 DEF Settled
  <2>8. ProgressInv'
    <3>1. \A i \in Machines : i > mi => sm'[i].current = NoState
      BY <2>3, <2>4 DEF ProgressInv, LeavesInv, Starting
    <3>2. mi' = mi + 1 => mi' > mi /\ \A i \in Machines : i > mi' => i > mi
      BY <1>0
    <3>3. mi' \in Machines
      BY DEF TypeOK
    <3>4. /\ wpc' \in {"exit", "exiting", "enter"} => sm'[wi'].current # NoState
          /\ wpc' = "initing" => wst' = sm'[wi'].current
      BY <1>0, <2>1, <2>3 DEF ProgressInv, LeavesInv
    <3>5. QED
      BY <2>4, <3>1, <3>2, <3>3, <3>4 DEF ProgressInv, LeavesInv, Starting
  <2>9. QED
    BY <2>6, <2>7, <2>8
<1>10. CASE StopMachine
  <2>1. /\ UNCHANGED <<wpc, wi, wst>> /\ mpc \in {"stop", "deinit_stop"}
        /\ \/ mpc' = mpc /\ mi < N /\ mi' = mi + 1
           \/ mpc' \in {"idle", "deinit_pool"}
        /\ inside' = [inside EXCEPT ![mi] = IF sm[mi].current = NoState THEN @ ELSE NoState]
    BY <1>10 DEF StopMachine
  <2>2. Becomes(mi, NoState, sm[mi].started,
                sm[mi].requested /\ sm[mi].current = NoState, sm[mi].next)
    BY <1>10, StopMachineMachine
  <2>3. ~(wpc \in AtMachine /\ mi = wi) /\ ~sm[mi].requested
    BY <1>0, <2>1 DEF ApartInv, Settled, AtMachine
  <2>4. /\ inside'[mi] = NoState
        /\ \A i \in Machines : i # mi => inside'[i] = inside[i]
    BY <1>0, <2>1, <2>3 DEF Paired, AtMachine, TypeOK
  <2>5. \A i \in Machines : Paired(i)'
    BY <1>0, <2>1, <2>2, <2>3, <2>4, ZenonT(60) DEF Paired, Becomes, AtMachine
  <2>6. \A i \in Machines : Settled(i)'
    BY <1>0, <2>1, <2>2, <2>3 DEF Settled, Becomes
  <2>7. ProgressInv'
    <3>1. mpc = "deinit_stop" =>
            \A i \in Machines : i < mi \/ i = mi => sm'[i].current = NoState
      BY <1>0, <2>2 DEF ProgressInv, LeavesInv, Becomes
    <3>2. mi' = mi + 1 => \A i \in Machines : i < mi' => i < mi \/ i = mi
      BY <1>0
    <3>3. /\ wpc' \in {"exit", "exiting", "enter"} => sm'[wi'].current # NoState
          /\ wpc' = "initing" => wst' = sm'[wi'].current
      BY <1>0, <2>1, <2>2, <2>3 DEF ProgressInv, LeavesInv, Becomes, AtMachine
    <3>4. QED
      BY <2>1, <3>1, <3>2, <3>3 DEF ProgressInv, LeavesInv, Starting
  <2>8. QED
    BY <2>5, <2>6, <2>7
<1>11. CASE \/ WorkerTake \/ WorkerSignal \/ WorkerEnd \/ WorkerPre \/ WorkerHandle
            \/ WorkerValid \/ WorkerEntered \/ WorkerNotify \/ WorkerRelease \/ WorkerFree
  <2>1. /\ UNCHANGED <<sm, inside, mpc, mi>>
        /\ wpc \notin {"transition", "exit", "exiting", "enter", "initing"}
        /\ wpc' \notin {"exit", "exiting", "enter", "initing"}
    BY <1>11 DEF WorkerTake, WorkerSignal, WorkerEnd, WorkerPre, WorkerHandle,
       WorkerValid, WorkerEntered, WorkerNotify, WorkerRelease, WorkerFree, NextMachine
  <2>2. QED
    BY <2>1 DEF Paired, Settled, ProgressInv, LeavesInv
<1>12. CASE WorkerHandled
  <2>1. /\ UNCHANGED <<inside, mpc, mi, wi>> /\ wpc = "handling" /\ wpc' = "transition"
    BY <1>12, HandledMachine DEF WorkerHandled
  <2>2. PICK s \in States :
            Becomes(wi, sm[wi].current, sm[wi].started,
                    sm[wi].requested \/ s # sm[wi].current, s)
    BY <1>12, HandledMachine
  <2>3. \A i \in Machines : ~sm[i].requested
    BY <2>1 DEF Settled
  <2>4. \A i \in Machines : sm'[i].current = sm[i].current
    BY <1>0, <2>2 DEF Becomes
  <2>5. \A i \in Machines : Settled(i)'
    BY <1>0, <2>1, <2>2, <2>3 DEF Settled, Becomes
  <2>6. QED
    BY <1>0, <2>1, <2>4, <2>5 DEF Paired, ProgressInv, LeavesInv
<1>13. CASE WorkerTransition
  <2>1. UNCHANGED <<inside, mpc, mi>> /\ wpc = "transition"
    BY <1>13 DEF WorkerTransition
  <2>2. Becomes(wi, sm[wi].current, sm[wi].started,
                sm[wi].requested /\ ~sm[wi].started, sm[wi].next)
    BY <1>13, TransitionMachine
  <2>3. /\ wpc' \notin {"exiting", "enter", "initing"}
        /\ wpc' = "exit" => wi' = wi /\ sm[wi].current # NoState
    <3>1. NextMachine => wpc' \in {"handle", "notify"}
      BY DEF NextMachine
    <3>2. QED
      BY <1>13, <3>1, TransitionMachine
  <2>4. \A i \in Machines : ~sm'[i].requested /\ sm'[i].current = sm[i].current
    BY <1>0, <2>1, <2>2 DEF Becomes, Settled, MachineInv
  <2>5. QED
    BY <1>0, <2>1, <2>3, <2>4 DEF Paired, Settled, ProgressInv, LeavesInv
<1>14. CASE WorkerExit
  <2>1. wpc = "exit" /\ sm[wi].current # NoState
    BY <1>14 DEF WorkerExit, ProgressInv, LeavesInv
  <2>2. /\ UNCHANGED <<sm, mpc, mi, wi>> /\ wpc' = "exiting"
        /\ inside' = [inside EXCEPT ![wi] = NoState]
    BY <1>14, <2>1 DEF WorkerExit
  <2>3. \A i \in Machines : inside'[i] = IF i = wi THEN NoState ELSE inside[i]
    BY <1>0, <2>2 DEF TypeOK
  <2>4. \A i \in Machines : Paired(i)' /\ Settled(i)'
    BY <1>0, <2>1, <2>2, <2>3 DEF Paired, Settled
  <2>5. ProgressInv'
    BY <2>1, <2>2 DEF ProgressInv, LeavesInv
  <2>6. QED
    BY <2>4, <2>5
<1>15. CASE WorkerExited
  <2>1. UNCHANGED <<inside, mpc, mi, wi>> /\ wpc = "exiting" /\ wpc' = "enter"
    BY <1>15 DEF WorkerExited
  <2>2. Becomes(wi, sm[wi].next, sm[wi].started, sm[wi].requested, sm[wi].next)
    BY <1>15, ExitedMachine
  <2>3. sm[wi].next # NoState /\ sm[wi].current # NoState
    BY <1>0, <2>1 DEF ProgressInv, LeavesInv
  <2>4. \A i \in Machines : ~sm[i].requested
    BY <2>1 DEF Settled
  <2>5. \A i \in Machines : Paired(i)' /\ Settled(i)'
    BY <1>0, <2>1, <2>2, <2>4 DEF Paired, Settled, Becomes
  <2>6. ProgressInv'
    <3>1. mpc \in Starting => ~(wi > mi)
      BY <1>0, <2>3 DEF ProgressInv
    <3>2. mpc # "deinit_stop"
      BY <2>1 DEF KillInv, Dismantling
    <3>3. mpc = "load" => wi # mi
      BY <2>3 DEF ProgressInv
    <3>4. QED
      BY <1>0, <2>1, <2>2, <2>3, <3>1, <3>2, <3>3 DEF ProgressInv, LeavesInv, Becomes
  <2>7. QED
    BY <2>5, <2>6
<1>16. CASE WorkerEnter
  <2>1. wpc = "enter" /\ sm[wi].current # NoState /\ UNCHANGED <<mpc, mi, wi>>
    BY <1>16 DEF WorkerEnter, ProgressInv, LeavesInv
  <2>2. /\ Keeps(wi)
        /\ \/ /\ wpc' = "entering"
              /\ inside' = [inside EXCEPT ![wi] = sm[wi].current]
           \/ wpc' = "initing" /\ wst' = sm[wi].current /\ UNCHANGED inside
    BY <1>16, <2>1, EnterMachine
  <2>3. \A i \in Machines : /\ sm'[i].current = sm[i].current
                            /\ sm'[i].requested = sm[i].requested
                            /\ sm'[i].next = sm[i].next
    BY <1>0, <2>2 DEF Keeps, Becomes
  <2>4. \A i \in Machines :
            inside'[i] = IF i = wi /\ wpc' = "entering" THEN sm[wi].current ELSE inside[i]
    BY <1>0, <2>2 DEF TypeOK
  <2>5. ~(mpc \in Starting /\ mi = wi)
    BY <2>1 DEF ApartInv, AtMachine
  <2>6. \A i \in Machines : ~sm[i].requested
    BY <2>1 DEF Settled
  <2>7. \A i \in Machines : Paired(i)' /\ Settled(i)'
    BY <1>0, <2>1, <2>2, <2>3, <2>4, <2>5, <2>6 DEF Paired, Settled, Starting
  <2>8. ProgressInv'
    <3>1. LeavesInv' /\ (wpc' = "initing" => wst' = sm'[wi'].current)
      BY <1>0, <2>1, <2>2, <2>3 DEF LeavesInv
    <3>2. QED
      BY <1>a, <2>1, <2>3, <3>1
  <2>9. QED
    BY <2>7, <2>8
<1>17. CASE WorkerInited
  <2>1. /\ UNCHANGED <<sm, mpc, mi, wi>> /\ wpc = "initing" /\ wpc' = "entering"
        /\ inside' = [inside EXCEPT ![wi] = wst] /\ wst = sm[wi].current
    BY <1>17 DEF WorkerInited, ProgressInv
  <2>2. \A i \in Machines : inside'[i] = IF i = wi THEN sm[wi].current ELSE inside[i]
    BY <1>0, <2>1 DEF TypeOK
  <2>3. ~(mpc \in Starting /\ mi = wi)
    BY <2>1 DEF ApartInv, AtMachine
  <2>4. \A i \in Machines : Paired(i)' /\ Settled(i)'
    BY <1>0, <2>1, <2>2, <2>3 DEF Paired, Settled, Starting
  <2>5. ProgressInv'
    BY <2>1 DEF ProgressInv, LeavesInv
  <2>6. QED
    BY <2>4, <2>5
<1>18. CASE ClearStop
  <2>1. /\ UNCHANGED <<wpc, wi, mpc, mi>>
        /\ wpc \in {"pre", "valid", "handling", "entering", "notify"}
        /\ inside' = [i \in Machines |->
                        IF sm[i].current = NoState THEN inside[i] ELSE NoState]
    BY <1>18 DEF ClearStop, WorkerStop, InCallback
  <2>2. mpc \notin Starting
    BY <1>18 DEF ClearStop, MainAt, Starting
  <2>3. \A i \in Machines : sm'[i].current = NoState /\ ~sm'[i].requested
    BY <1>18, <2>1, WorkerStopMachines DEF ClearStop, Settled
  <2>4. \A i \in Machines : inside'[i] = NoState
    BY <2>1, <2>2 DEF Paired, Starting
  <2>5. \A i \in Machines : Paired(i)' /\ Settled(i)'
    BY <2>3, <2>4 DEF Paired, Settled
  <2>6. ProgressInv'
    BY <2>1, <2>2, <2>3 DEF ProgressInv, LeavesInv, Starting
  <2>7. QED
    BY <2>5, <2>6
<1>19. QED
  BY <1>2, <1>3, <1>4, <1>5, <1>6, <1>7, <1>8, <1>9, <1>10, <1>11, <1>12, <1>13,
     <1>14, <1>15, <1>16, <1>17, <1>18 DEF Step, WorkerStep, Deinit

\* The loop that has been dismantled has left every state.
LEMMA LeftKept ==
  ASSUME TypeOK, KillInv, PairInv, LeftInv, ended = "no", Step, Watch
  PROVE  LeftInv'
<1> USE DEF loop, dispatch, pool, machine, worker, main, poster, End
<1>0. overlap => overlap'
  BY ApartKept
<1>1. CASE UNCHANGED inside /\ (mpc' \in {"deinit_pool", "done"} =>
                                    mpc \in {"deinit_pool", "done"})
  BY <1>0, <1>1 DEF LeftInv
<1>2. CASE StopMachine
  <2> SUFFICES ASSUME mpc' \in {"deinit_pool", "done"}, ~overlap', NEW i \in Machines
               PROVE  inside'[i] = NoState
    BY DEF LeftInv
  <2>1. /\ mpc = "deinit_stop" /\ ~(mi < N) /\ mi \in Machines
        /\ inside' = [inside EXCEPT ![mi] = IF sm[mi].current = NoState THEN @ ELSE NoState]
    BY <1>2 DEF StopMachine, TypeOK
  <2>2. wpc = "ended"
    BY <2>1 DEF KillInv, Dismantling
  <2>3. inside[i] = sm[i].current /\ inside[mi] = sm[mi].current
    BY <1>0, <2>1, <2>2 DEF PairInv, Paired
  <2>4. i < mi => sm[i].current = NoState
    BY <1>0, <2>1 DEF PairInv, ProgressInv
  <2>5. i < mi \/ i = mi
    <3>1. i \in 1..N /\ mi \in 1..N /\ ~(mi < N) /\ N \in Nat
      BY <2>1, Distinct DEF Machines
    <3>2. QED
      BY ONLY <3>1
  <2>6. DOMAIN inside = Machines
    BY DEF TypeOK
  <2>7. CASE i = mi
    BY <2>1, <2>3, <2>6, <2>7
  <2>8. CASE i < mi
    <3>1. i # mi
      <4>1. i \in 1..N /\ mi \in 1..N /\ N \in Nat
        BY <2>1, Distinct DEF Machines
      <4>2. QED
        BY ONLY <4>1, <2>8
    <3>2. QED
      BY <2>1, <2>3, <2>4, <2>6, <2>8, <3>1
  <2>9. QED
    BY <2>5, <2>7, <2>8
<1>3. CASE \/ \E i \in Machines, s \in States : state_event_loop_add_state(i, s)
           \/ state_event_loop_install_event_pre_proc
           \/ state_event_loop_start \/ state_event_loop_stop
           \/ state_event_loop_deinit \/ Deinit
           \/ StartLoad \/ StartFlag
           \/ \E t \in Callers : state_event_loop_post(t) \/ PostStep(t)
           \/ \E e \in Events : ListenerRelease(e)
  BY <1>1, <1>3 DEF state_event_loop_add_state,
     state_event_loop_install_event_pre_proc,
     state_event_loop_start, state_event_loop_stop, state_event_loop_deinit,
     Deinit, DeinitKill, DeinitWait, DeinitJoin, DeinitBlocks, DeinitQueue, DeinitPool,
     StartLoad, StartFlag, state_event_loop_post, PostStep, PostAlloc, PostTest,
     PostBlock, PostEnqueue, ListenerRelease
<1>4. CASE StartEnter
  <2>1. mpc' \notin {"deinit_pool", "done"}
    BY <1>4 DEF StartEnter
  <2>2. QED
    BY <2>1 DEF LeftInv
<1>5. CASE WorkerStep \/ WorkerStop
  <2>1. wpc # "ended" /\ mpc' = mpc
    BY <1>5 DEF WorkerStep, WorkerTake, WorkerSignal, WorkerEnd, WorkerPre, WorkerHandle,
       WorkerValid, WorkerHandled, WorkerTransition, WorkerExit, WorkerExited,
       WorkerEnter, WorkerInited, WorkerEntered, WorkerNotify, WorkerRelease,
       WorkerFree, WorkerStop, InCallback
  <2>2. mpc' \notin {"deinit_pool", "done"}
    BY <2>1 DEF KillInv, Dismantling
  <2>3. QED
    BY <2>2 DEF LeftInv
<1>6. QED
  BY <1>2, <1>3, <1>4, <1>5 DEF Step, ClearStop

-----------------------------------------------------------------------------
(* The ends of the program.                                                *)

\* A queue of distinct events of T has no more elements than T.
LEMMA NoMoreThan ==
  ASSUME TypeOK, OwnInv, NEW T \in SUBSET Events,
         \A i \in 1..Len(queue) : queue[i] \in T
  PROVE  /\ IsFiniteSet(T) /\ Cardinality(T) \in Nat
         /\ Len(queue) <= Cardinality(T)
<1>1. PICK n \in Nat : n = Len(queue)
  BY DEF TypeOK
<1>2. \A i, j \in 1..n : queue[i] = queue[j] => i = j
  BY <1>1 DEF OwnInv
<1>3. [i \in 1..n |-> queue[i]] \in Injection(1..n, T)
  BY <1>1, <1>2 DEF Injection, IsInjective
<1>4. IsFiniteSet(T) /\ Cardinality(T) \in Nat
  BY FS_Subset, FS_CardinalityType, LoopAssumption
<1>5. IsFiniteSet(1..n) /\ Cardinality(1..n) = n
  BY FS_Interval
<1>6. n <= Cardinality(T)
  BY <1>3, <1>4, <1>5, FS_Injection
<1>7. QED
  BY <1>1, <1>4, <1>6

\* The queue is full only if every event is on it, or the kill request is.
LEMMA QueueFull ==
  ASSUME TypeOK, OwnInv, ~InQueue(Kill), ~(Len(queue) < Cardinality(Events)),
         NEW e \in Events
  PROVE  InQueue(e)
<1> SUFFICES ASSUME ~InQueue(e) PROVE FALSE
  OBVIOUS
<1>0. Cardinality(Events) \in Nat /\ IsFiniteSet(Events)
  BY FS_CardinalityType, LoopAssumption
<1>1. \A i \in 1..Len(queue) : queue[i] \in Events \ {e}
  <2>1. \A i \in 1..Len(queue) : queue[i] \in Events \cup {Kill}
    BY ElementOfSeq DEF TypeOK
  <2>2. QED
    BY <2>1 DEF InQueue
<1>2. Events \ {e} \in SUBSET Events
  OBVIOUS
<1>3. Len(queue) \in Nat /\ Len(queue) <= Cardinality(Events \ {e})
  <2>1. Len(queue) <= Cardinality(Events \ {e})
    BY <1>1, <1>2, NoMoreThan
  <2>2. queue \in Seq(Events \cup {Kill})
    BY DEF TypeOK
  <2>3. QED
    BY <2>1, <2>2, LenProperties
<1>4. Cardinality(Events \ {e}) = Cardinality(Events) - 1
  BY <1>0, FS_RemoveElement
<1>5. QED
  BY <1>0, <1>3, <1>4

\* dispatch_async_f has a block for a post, unless the worker has released its
\* event and not its block.
LEMMA BlockLeft ==
  ASSUME TypeOK, OwnInv, wpc # "free", NEW t \in Callers, mem[t] \in Events,
         pc[t] = "block"
  PROVE  BlocksInUse < Cardinality(Events)
<1>1. Cardinality(Events) \in Nat /\ IsFiniteSet(Events)
  BY FS_CardinalityType, LoopAssumption
<1>2. PICK x \in Events : x = mem[t]
  OBVIOUS
<1>3. IsFiniteSet(Events \ {x}) /\ Cardinality(Events \ {x}) = Cardinality(Events) - 1
  BY <1>1, FS_RemoveElement
<1>4. x \notin Blocks
  <2>1. ~InQueue(x) /\ x # wev /\ \A u \in Callers : mem[u] = x => u = t
    BY <1>2 DEF OwnInv
  <2>2. QED
    BY <2>1 DEF Blocks, InQueue
<1>5. Blocks \subseteq Events \ {x}
  BY <1>4 DEF Blocks
<1>6. Cardinality(Blocks) \in Nat /\ Cardinality(Blocks) <= Cardinality(Events \ {x})
  BY <1>3, <1>5, FS_Subset, FS_CardinalityType
<1>7. BlocksInUse = Cardinality(Blocks)
  BY <1>6 DEF BlocksInUse
<1>8. QED
  BY <1>1, <1>3, <1>6, <1>7

\* Each step keeps the causes of an end: the step that ends the program has one.
LEMMA EndsKept ==
  ASSUME TypeOK, HandsInv, OwnInv, KillInv, LiveInv, MachineInv, ended = "no", Step
  PROVE  EndCauses'
<1> USE DEF loop, dispatch, pool, machine, worker, main, poster, End
<1>0. mi \in Machines /\ wi \in Machines
  BY DEF TypeOK
<1>1. ASSUME ended' \in {"no", "start_state", "next_state", "exit_signal"}
      PROVE  EndCauses'
  BY <1>1 DEF EndCauses
<1>2. ASSUME ended' \in {"no", "next_state"} \/ (ended' = "null" /\ sm[wi].current = NoState),
             sm[wi].started, UNCHANGED <<wi, stopped>>, wpc \in AtMachine,
             ended' = "null" => wpc' = wpc
      PROVE  EndCauses'
  <2>1. CASE ended' = "null"
    <3>1. wi \in stopped
      BY <1>0, <1>2, <2>1 DEF MachineInv
    <3>2. WorkerAt' = {wi} /\ wi \in stopped'
      BY <1>2, <2>1, <3>1 DEF WorkerAt, AtMachine
    <3>3. QED
      BY <2>1, <3>2 DEF EndCauses
  <2>2. QED
    BY <1>1, <1>2, <2>1
<1>3. CASE \/ \E i \in Machines, s \in States : state_event_loop_add_state(i, s)
           \/ state_event_loop_install_event_pre_proc
           \/ state_event_loop_start \/ state_event_loop_stop
           \/ state_event_loop_deinit
           \/ DeinitWait \/ DeinitJoin \/ DeinitBlocks \/ DeinitQueue \/ DeinitPool
           \/ StartLoad \/ StartFlag \/ StopMachine
           \/ \E t \in Callers : state_event_loop_post(t)
           \/ \E e \in Events : ListenerRelease(e)
  BY <1>1, <1>3 DEF state_event_loop_add_state,
     state_event_loop_install_event_pre_proc,
     state_event_loop_start, state_event_loop_stop, state_event_loop_deinit,
     DeinitWait, DeinitJoin, DeinitBlocks, DeinitQueue, DeinitPool, StartLoad, StartFlag,
     StopMachine, state_event_loop_post, ListenerRelease
<1>4. CASE \/ WorkerTake \/ WorkerSignal \/ WorkerEnd \/ WorkerPre \/ WorkerExited
           \/ WorkerInited \/ WorkerEntered \/ WorkerNotify \/ WorkerRelease
           \/ WorkerFree \/ ClearStop
  BY <1>1, <1>4 DEF WorkerTake, WorkerSignal, WorkerEnd, WorkerPre, WorkerExited,
     WorkerInited, WorkerEntered, WorkerNotify, WorkerRelease, WorkerFree, ClearStop,
     WorkerStop
<1>5. CASE StartEnter
  <2>1. CASE sm[mi].current # NoState
    BY <1>1, <1>5, <2>1 DEF StartEnter
  <2>2. CASE sm[mi].current = NoState
    <3>1. ended' = "null" /\ mpc = "enter" /\ UNCHANGED <<mpc, mi, stopped>>
      BY <1>5, <2>2 DEF StartEnter
    <3>2. mi \in stopped
      BY <1>0, <2>2, <3>1 DEF MachineInv
    <3>3. QED
      BY <3>1, <3>2 DEF EndCauses
  <2>3. QED
    BY <2>1, <2>2
<1>6. CASE DeinitKill
  <2>1. CASE ended' = "no"
    BY <1>1, <2>1
  <2>2. CASE ended' # "no"
    <3>1. /\ ended' = "kill" /\ UNCHANGED queue /\ mpc = "kill"
          /\ ~(Len(queue) < Cardinality(Events))
      BY <1>6, <2>2 DEF DeinitKill
    <3>2. ~InQueue(Kill)
      BY <3>1 DEF KillInv
    <3>3. \A e \in Events : InQueue(e)
      BY <3>1, <3>2, QueueFull
    <3>4. QED
      BY <3>1, <3>3 DEF EndCauses, InQueue
  <2>3. QED
    BY <2>1, <2>2
<1>7. ASSUME NEW t \in Callers, PostAlloc(t) \/ PostTest(t) PROVE EndCauses'
  <2>1. \/ ended' = "no"
        \/ ended' = "event_pool" /\ UNCHANGED <<free, mpc>> /\ (free = {} \/ ~plive)
    BY <1>7 DEF PostAlloc, PostTest
  <2>2. QED
    BY <1>1, <2>1 DEF EndCauses, LiveInv
<1>8. ASSUME NEW t \in Callers, PostBlock(t) \/ PostEnqueue(t) PROVE EndCauses'
  <2>1. CASE ended' = "no"
    BY <1>1, <2>1
  <2>2. CASE ended' # "no"
    <3>1. /\ mem[t] \in Events /\ pc[t] \in PastTest
          /\ UNCHANGED <<wpc, racing, destroying>>
      BY <1>8 DEF PostBlock, PostEnqueue, PastTest, HandsInv
    <3>2. destroying => racing
      BY <3>1 DEF LiveInv
    <3>3. ~blive \/ ~qlive => destroying /\ wpc = "ended"
      BY DEF LiveInv, KillInv, Dismantling
    <3>4. CASE PostBlock(t)
      <4>1. /\ ended' = "dispatch_pool" /\ pc[t] = "block"
            /\ ~blive \/ ~(BlocksInUse < Cardinality(Events))
        BY <2>2, <3>4 DEF PostBlock
      <4>2. wpc = "free" \/ ~blive
        BY <3>1, <4>1, BlockLeft
      <4>3. QED
        BY <3>1, <3>2, <3>3, <4>1, <4>2 DEF EndCauses
    <3>5. CASE PostEnqueue(t)
      <4>1. /\ ended' = "dispatch_queue"
            /\ ~qlive \/ ~(Len(queue) < Cardinality(Events))
        BY <2>2, <3>5 DEF PostEnqueue
      <4>2. ~InQueue(mem[t])
        BY <3>1 DEF OwnInv
      <4>3. ~qlive \/ InQueue(Kill)
        BY <3>1, <4>1, <4>2, QueueFull
      <4>4. destroying
        BY <3>3, <4>3 DEF KillInv
      <4>5. QED
        BY <3>1, <3>2, <4>1, <4>4 DEF EndCauses
    <3>6. QED
      BY <1>8, <3>4, <3>5
  <2>3. QED
    BY <2>1, <2>2
<1>9. CASE WorkerHandle
  <2>1. CASE sm[wi].started
    BY <1>2, <1>9, <2>1 DEF WorkerHandle, AtMachine
  <2>2. CASE ~sm[wi].started
    BY <1>1, <1>9, <2>2 DEF WorkerHandle
  <2>3. QED
    BY <2>1, <2>2
<1>10. CASE WorkerValid \/ WorkerExit \/ WorkerHandled \/ WorkerEnter
  <2>1. wpc \in {"valid", "exit", "handling", "enter"} /\ UNCHANGED <<wi, stopped>>
    BY <1>10 DEF WorkerValid, WorkerExit, WorkerHandled, WorkerEnter, EnterState
  <2>2. sm[wi].started
    BY <2>1 DEF MachineInv, AtMachine
  <2>3. \/ ended' = "no"
        \/ ended' = "null" /\ sm[wi].current = NoState /\ UNCHANGED wpc
    BY <1>10 DEF WorkerValid, WorkerExit, WorkerHandled, WorkerEnter, EnterState
  <2>4. QED
    BY <1>2, <2>1, <2>2, <2>3 DEF AtMachine
<1>11. CASE WorkerTransition
  <2>1. wpc = "transition" /\ UNCHANGED stopped
    BY <1>11 DEF WorkerTransition
  <2>2. \/ ended' = "no"
        \/ /\ ended' \in {"null", "next_state"} /\ UNCHANGED <<wpc, wi>> /\ sm[wi].started
           /\ ended' = "null" => sm[wi].current = NoState
    BY <1>11, TransitionMachine
  <2>3. QED
    BY <1>1, <1>2, <2>1, <2>2 DEF AtMachine
<1>12. QED
  BY <1>3, <1>4, <1>5, <1>6, <1>7, <1>8, <1>9, <1>10, <1>11
     DEF Step, Deinit, PostStep, WorkerStep

-----------------------------------------------------------------------------
(* The theorems.                                                           *)

\* state_event_loop_init establishes the invariant.
LEMMA InitInv == Init => LoopInv
<1> SUFFICES ASSUME Init PROVE LoopInv
  OBVIOUS
<1> USE Distinct DEF Init
<1>1. Len(queue) = 0
  BY EmptySeq
<1>2. TypeOK
  <2>1. sm \in [Machines -> [current : States \cup {NoState}, started : BOOLEAN,
                              requested : BOOLEAN, next : States,
                              states : SUBSET States, once : SUBSET States]]
    OBVIOUS
  <2>2. posts \in 0..MaxPosts /\ starts \in 0..MaxStarts
    BY LoopAssumption
  <2>3. <<>> \in Seq(Events \cup {Kill})
    BY EmptySeq
  <2>4. /\ refs \in [Events -> Nat] /\ mem \in [Callers -> Events \cup {NoEvent}]
        /\ pc \in [Callers -> {"idle", "alloc", "dispatch", "block", "enqueue"}]
        /\ inside \in [Machines -> States \cup {NoState}]
    OBVIOUS
  <2>5. QED
    BY <2>1, <2>2, <2>3, <2>4 DEF TypeOK, Ends
<1>3. HandsInv
  BY DEF HandsInv, WorkerStates, MainStates, HasEvent, AtMachine, Gone
<1>4. OwnInv
  BY <1>1 DEF OwnInv, InQueue
<1>5. CountInv
  BY <1>1 DEF CountInv, Carried, InQueue
<1>6. KillInv /\ LiveInv
  BY <1>1 DEF KillInv, LiveInv, InQueue, Gone, Closing, Dismantling
<1>7. MachineInv /\ ApartInv /\ LeftInv /\ EndCauses
  BY DEF MachineInv, ApartInv, LeftInv, EndCauses, Starting, AtMachine
<1>8. PairInv
  BY DEF PairInv, Paired, Settled, ProgressInv, LeavesInv, Starting
<1>9. QED
  BY <1>2, <1>3, <1>4, <1>5, <1>6, <1>7, <1>8 DEF LoopInv

\* LoopInv is inductive.
LEMMA LoopInvariant == Spec => []LoopInv
<1>1. ASSUME LoopInv, [Next]_vars PROVE LoopInv'
  <2>1. CASE UNCHANGED vars
    <3> USE DEF vars
    <3>1. TypeOK'
      BY <1>1, <2>1 DEF LoopInv, TypeOK
    <3>2. HandsInv' /\ OwnInv'
      BY <1>1, <2>1 DEF LoopInv, HandsInv, OwnInv, Carried, InQueue
    <3>3. CountInv' /\ KillInv' /\ LiveInv'
      BY <1>1, <2>1 DEF LoopInv, CountInv, KillInv, LiveInv, Carried, InQueue
    <3>4. MachineInv' /\ ApartInv' /\ LeftInv' /\ EndCauses'
      BY <1>1, <2>1 DEF LoopInv, MachineInv, ApartInv, LeftInv, EndCauses, WorkerAt
    <3>5. PairInv'
      BY <1>1, <2>1 DEF LoopInv, PairInv, Paired, Settled, ProgressInv, LeavesInv
    <3>6. QED
      BY <3>1, <3>2, <3>3, <3>4, <3>5 DEF LoopInv
  <2>2. CASE ended = "no" /\ Step /\ Watch
    <3>0. /\ TypeOK /\ HandsInv /\ OwnInv /\ CountInv /\ KillInv
          /\ LiveInv /\ MachineInv /\ ApartInv /\ PairInv /\ LeftInv
      BY <1>1 DEF LoopInv
    <3>1. TypeOK' /\ HandsInv' /\ OwnInv' /\ CountInv' /\ KillInv' /\ LiveInv'
      BY <1>1, <2>2, <3>0, TypesKept, HandsKept, EventsKept, KillKept, LiveKept
    <3>2. MachineInv' /\ ApartInv' /\ LeftInv' /\ EndCauses'
      BY <2>2, <3>0, <3>1, MachineKept, ApartKept, LeftKept, EndsKept
    <3>3. PairInv'
      <4>1. ASSUME ~overlap', ended' = "no"
            PROVE  (\A i \in Machines : Paired(i)' /\ Settled(i)') /\ ProgressInv'
        <5>1. ~overlap
          BY <2>2, <4>1, ApartKept
        <5>2. (\A i \in Machines : Paired(i) /\ Settled(i)) /\ ProgressInv
          BY <2>2, <3>0, <5>1 DEF PairInv
        <5>3. QED
          BY <2>2, <3>0, <3>1, <3>2, <4>1, <5>1, <5>2, PairKept
      <4>2. QED
        BY <4>1 DEF PairInv
    <3>4. QED
      BY <3>1, <3>2, <3>3 DEF LoopInv
  <2>3. QED
    BY <1>1, <2>1, <2>2, StepOrStutter DEF LoopInv
<1>2. QED
  BY <1>1, InitInv, PTL DEF Spec

\* Type correctness, for every number of machines, states, events and threads.
\* In particular state_event_loop_release_event never takes a count below zero.
THEOREM TypeCorrect == Spec => []TypeOK
  BY LoopInvariant, PTL DEF LoopInv

\* f_enter and f_exit are paired over any number of starts, transitions and
\* stops that are kept apart from the worker. state_event_loop_deinit finds the
\* worker ended, and, if no post raced with it, the queue empty; it leaves no
\* state entered.
THEOREM EntersPaired == Spec => []CallbacksPaired
<1>1. ASSUME LoopInv PROVE CallbacksPaired
  BY <1>1 DEF LoopInv, PairInv, Paired, KillInv, LeftInv, CallbacksPaired, Dismantling,
     Gone
<1>2. QED
  BY <1>1, LoopInvariant, PTL

\* A transition that f_handle_event requested is over before the next machine
\* sees the event, and no request is left for a later event.
THEOREM RequestsSettled == Spec => []TransitionsSettled
<1>1. ASSUME LoopInv PROVE TransitionsSettled
  BY <1>1 DEF LoopInv, PairInv, Settled, TransitionsSettled
<1>2. QED
  BY <1>1, LoopInvariant, PTL

\* The program ends for the causes EndCauses names and no other: the dispatch
\* queue fails a post only between the worker's release of its event and that of
\* its block, or if the post raced with the destruction, and a NULL current_state
\* is used only at a machine that was stopped and not started again.
THEOREM EndsExplained == Spec => []EndCauses
  BY LoopInvariant, PTL DEF LoopInv

\* The count of an event is the number of its owners, and it is free exactly
\* when there are none: the worker's release and the listeners' releases, in
\* any order, neither lose an event nor free it twice. At the end only listeners,
\* refused posts and posts that raced with the destruction have kept one.
THEOREM EventsCounted == Spec => []EventsConserved
<1>1. ASSUME LoopInv PROVE EventsConserved
  <2> SUFFICES
        ASSUME NEW e \in Events
        PROVE  /\ refs[e] = Cardinality(Owners(e))
               /\ e \in free <=> refs[e] = 0
               /\ wpc = "ended" /\ mem = [t \in Callers |-> NoEvent] /\ e \notin free =>
                    \/ e \in retained \cup leaked
                    \/ racing /\ \E i \in 1..Len(queue) : queue[i] = e
    BY DEF EventsConserved
  <2> DEFINE P == {<<"post", t>> : t \in {u \in Callers : mem[u] = e}}
             Q == {<<"queue", i>> : i \in {j \in 1..Len(queue) : queue[j] = e}}
             W == {<<"worker", x>> : x \in {wev} \cap {e}}
             L == {<<"listener", x>> : x \in retained \cap {e}}
             K == {<<"leaked", x>> : x \in leaked \cap {e}}
  <2>0. /\ OwnInv
        /\ refs[e] = (IF Carried(e) THEN 1 ELSE 0) + (IF e \in retained THEN 1 ELSE 0)
        /\ e \in free <=> refs[e] = 0
    BY <1>1 DEF LoopInv, CountInv
  <2>1. W = IF wev = e THEN {<<"worker", e>>} ELSE {}
    OBVIOUS
  <2>2. L = IF e \in retained THEN {<<"listener", e>>} ELSE {}
    OBVIOUS
  <2>3. K = IF e \in leaked THEN {<<"leaked", e>>} ELSE {}
    OBVIOUS
  <2>4. (\A t \in Callers : mem[t] # e) => P = {}
    OBVIOUS
  <2>5. ~InQueue(e) => Q = {}
    BY DEF InQueue
  <2>6. /\ InQueue(e) => e # wev /\ e \notin leaked /\ \A t \in Callers : mem[t] # e
        /\ wev = e => e \notin leaked
        /\ \A t \in Callers : mem[t] = e =>
                /\ e # wev /\ e \notin leaked /\ ~InQueue(e)
                /\ \A u \in Callers : mem[u] = e => u = t
        /\ \A i, j \in 1..Len(queue) : queue[i] = e /\ queue[j] = e => i = j
    BY <2>0 DEF OwnInv
  <2>7. ~Carried(e) => P \cup Q \cup W \cup K = {}
    BY <2>1, <2>3, <2>4, <2>5 DEF Carried
  <2>8. Carried(e) => \E p : P \cup Q \cup W \cup K = {p} /\ p # <<"listener", e>>
    <3>1. ASSUME NEW t \in Callers, mem[t] = e
          PROVE  P \cup Q \cup W \cup K = {<<"post", t>>}
      <4>1. {u \in Callers : mem[u] = e} = {t}
        BY <2>6, <3>1
      <4>2. P = {<<"post", t>>}
        BY <4>1
      <4>3. QED
        BY <2>1, <2>3, <2>5, <2>6, <3>1, <4>2
    <3>2. ASSUME NEW i \in 1..Len(queue), queue[i] = e
          PROVE  P \cup Q \cup W \cup K = {<<"queue", i>>}
      <4>1. {j \in 1..Len(queue) : queue[j] = e} = {i}
        BY <2>6, <3>2
      <4>2. Q = {<<"queue", i>>} /\ InQueue(e)
        BY <3>2, <4>1 DEF InQueue
      <4>3. QED
        BY <2>1, <2>3, <2>4, <2>6, <3>2, <4>2
    <3>3. ASSUME wev = e
          PROVE  P \cup Q \cup W \cup K = {<<"worker", e>>}
      BY <2>1, <2>3, <2>4, <2>5, <2>6, <3>3
    <3>4. ASSUME e \in leaked
          PROVE  P \cup Q \cup W \cup K = {<<"leaked", e>>}
      BY <2>1, <2>3, <2>4, <2>5, <2>6, <3>4
    <3>5. /\ <<"worker", e>> # <<"listener", e>> /\ <<"leaked", e>> # <<"listener", e>>
          /\ \A t : <<"post", t>> # <<"listener", e>>
          /\ \A i : <<"queue", i>> # <<"listener", e>>
      OBVIOUS
    <3>6. QED
      BY <3>1, <3>2, <3>3, <3>4, <3>5 DEF Carried, InQueue
  <2>9. Owners(e) = (P \cup Q \cup W \cup K) \cup L
    BY DEF Owners
  <2> HIDE DEF P, Q, W, L, K
  <2>10. Cardinality(Owners(e)) = refs[e]
    <3>1. CASE ~Carried(e)
      <4>1. Owners(e) = L
        BY <2>7, <2>9, <3>1
      <4>2. Cardinality({}) = 0 /\ Cardinality({<<"listener", e>>}) = 1
        BY FS_EmptySet, FS_Singleton
      <4>3. QED
        BY <2>0, <2>2, <3>1, <4>1, <4>2
    <3>2. CASE Carried(e)
      <4>1. PICK p : P \cup Q \cup W \cup K = {p} /\ p # <<"listener", e>>
        BY <2>8, <3>2
      <4>2. IsFiniteSet({p}) /\ Cardinality({p}) = 1
        BY FS_Singleton
      <4>3. CASE e \notin retained
        BY <2>0, <2>2, <2>9, <3>2, <4>1, <4>2, <4>3
      <4>4. CASE e \in retained
        <5>1. Owners(e) = {p} \cup {<<"listener", e>>} /\ <<"listener", e>> \notin {p}
          BY <2>2, <2>9, <4>1, <4>4
        <5>2. Cardinality({p} \cup {<<"listener", e>>}) = Cardinality({p}) + 1
          BY <4>2, <5>1, FS_AddElement
        <5>3. Cardinality(Owners(e)) = 2
          BY <4>2, <5>1, <5>2
        <5>4. QED
          BY <2>0, <3>2, <4>4, <5>3
      <4>5. QED
        BY <4>3, <4>4
    <3>3. QED
      BY <3>1, <3>2
  <2>11. ASSUME wpc = "ended", mem = [t \in Callers |-> NoEvent], e \notin free,
                e \notin retained \cup leaked
         PROVE  racing /\ \E i \in 1..Len(queue) : queue[i] = e
    <3>1. \A t \in Callers : mem[t] # e
      BY <2>11, Distinct
    <3>2. wev # e
      BY <1>1, <2>11 DEF LoopInv, HandsInv, HasEvent, AtMachine
    <3>3. InQueue(e)
      BY <2>0, <2>11, <3>1, <3>2 DEF Carried
    <3>4. ~racing => queue = <<>>
      BY <1>1, <2>11 DEF LoopInv, KillInv, Gone
    <3>5. queue # <<>>
      BY <3>3, EmptySeq DEF InQueue
    <3>6. QED
      BY <3>3, <3>4, <3>5 DEF InQueue
  <2>12. QED
    BY <2>0, <2>10, <2>11
<1>2. QED
  BY <1>1, LoopInvariant, PTL
=============================================================================
