---------------------------- MODULE TimerProofs ----------------------------
(***************************************************************************)
(* Timer is safe for any number of blocks and clients, any delays, with or *)
(* without the time cache.                                                 *)
(***************************************************************************)
EXTENDS Timer, TLAPS

LEMMA InitEstablishes == Init => IInv
<1> SUFFICES ASSUME Init PROVE IInv
  OBVIOUS
<1> USE TimerAssumption
<1>1. Live = {}
  BY DEF Init, Live
<1>2. TypeOK
  <2>1. clock \in 0..MaxTime /\ now \in 0..clock
    BY DEF Init
  <2>2. /\ expired \in [Blocks -> BOOLEAN]
        /\ subject \in [Blocks -> Clients \cup {None}]
        /\ deadline \in [Blocks -> Int]
        /\ handle \in [Clients -> Blocks \cup {None}]
    BY DEF Init
  <2>3. /\ active \subseteq Blocks /\ passive \subseteq Blocks /\ todo \subseteq Blocks
        /\ ticking \in BOOLEAN /\ current \in Blocks \cup {None}
    BY DEF Init
  <2> QED BY <2>1, <2>2, <2>3 DEF TypeOK
<1>3. HandlesAreLive
  BY <1>1 DEF Init, HandlesAreLive
<1>4. ListsAreDisjoint /\ WalkOK
  BY DEF Init, ListsAreDisjoint, WalkOK
<1> QED BY <1>2, <1>3, <1>4 DEF IInv

LEMMA TimerNowType == TypeOK => timer_now \in Nat /\ timer_now <= clock
BY TimerAssumption DEF TypeOK, timer_now

\* timer_schedule takes a block that nobody uses.
LEMMA UsableIsFree ==
  ASSUME IInv, NEW t \in Blocks, Usable(t)
  PROVE  /\ t \notin active
         /\ \A c \in Clients : handle[c] # t
         /\ t # current
         /\ t \notin todo
BY TimerAssumption DEF IInv, HandlesAreLive, ListsAreDisjoint, WalkOK, Usable, Live, TypeOK

LEMMA StepPreserves == IInv /\ [Next]_vars => IInv'
<1> SUFFICES ASSUME IInv, [Next]_vars PROVE IInv'
  OBVIOUS
<1> USE TimerAssumption
<1>1. CASE Advance
  BY <1>1 DEF Advance, IInv, TypeOK, HandlesAreLive, ListsAreDisjoint, WalkOK, Live,
              lists, fields, walk
<1>2. CASE TickStart
  BY <1>2 DEF TickStart, IInv, TypeOK, HandlesAreLive, ListsAreDisjoint, WalkOK, Live,
              lists, fields
<1>3. CASE CallbackReturns
  BY <1>3 DEF CallbackReturns, IInv, TypeOK, HandlesAreLive, ListsAreDisjoint, WalkOK, Live,
              lists, fields
<1>4. CASE Sweep
  BY <1>4 DEF Sweep, IInv, TypeOK, HandlesAreLive, ListsAreDisjoint, WalkOK, Live, fields
<1>5. ASSUME NEW t \in Blocks, Expire(t) PROVE IInv'
  <2>1. t \in active /\ ~expired[t] /\ subject[t] \in Clients /\ handle[subject[t]] = t
    BY <1>5 DEF Expire, Visiting, Due, IInv, ListsAreDisjoint, HandlesAreLive, Live
  <2>2. TypeOK' /\ ListsAreDisjoint' /\ WalkOK'
    BY <1>5, <2>1 DEF Expire, Visiting, Due, IInv, TypeOK, ListsAreDisjoint, WalkOK,
                      lists, fields
  <2>3. HandlesAreLive'
    BY <1>5, <2>1 DEF Expire, Visiting, IInv, TypeOK, HandlesAreLive, Live, lists, fields
  <2> QED BY <2>2, <2>3 DEF IInv
<1>6. ASSUME NEW t \in Blocks, Skip(t) PROVE IInv'
  BY <1>6 DEF Skip, Visiting, IInv, TypeOK, HandlesAreLive, ListsAreDisjoint, WalkOK, Live,
              lists, fields
<1>7. ASSUME NEW c \in Clients, Schedule(c) PROVE IInv'
  <2> PICK t \in Blocks, d \in Delays :
        /\ Usable(t)
        /\ passive' = passive \ {t}
        /\ active' = active \cup {t}
        /\ expired' = [expired EXCEPT ![t] = FALSE]
        /\ subject' = [subject EXCEPT ![t] = c]
        /\ deadline' = [deadline EXCEPT ![t] = timer_now + d]
        /\ handle' = [handle EXCEPT ![c] = t]
    BY <1>7 DEF Schedule
  <2>1. /\ t \notin active
        /\ \A b \in Clients : handle[b] # t
        /\ t # current
        /\ t \notin todo
    BY UsableIsFree
  <2>2. handle[c] = None /\ UNCHANGED <<clock, now, ticking, todo, current>>
    BY <1>7 DEF Schedule, walk
  <2>3. TypeOK'
    BY <2>2, TimerNowType DEF IInv, TypeOK
  <2>4. HandlesAreLive'
    BY <2>1, <2>2 DEF IInv, TypeOK, HandlesAreLive, Live
  <2>5. ListsAreDisjoint' /\ WalkOK'
    BY <2>1, <2>2 DEF IInv, TypeOK, ListsAreDisjoint, WalkOK
  <2> QED BY <2>3, <2>4, <2>5 DEF IInv
<1>8. ASSUME NEW c \in Clients, Cancel(c) PROVE IInv'
  <2>1. handle[c] \in Live /\ subject[handle[c]] = c
    BY <1>8 DEF Cancel, IInv, HandlesAreLive
  <2>2. TypeOK' /\ ListsAreDisjoint' /\ WalkOK'
    BY <1>8, <2>1 DEF Cancel, IInv, TypeOK, ListsAreDisjoint, WalkOK, Live, lists, fields, walk
  <2>3. HandlesAreLive'
    BY <1>8, <2>1 DEF Cancel, IInv, TypeOK, HandlesAreLive, Live, lists, fields
  <2> QED BY <2>2, <2>3 DEF IInv
<1>9. CASE UNCHANGED vars
  BY <1>9 DEF vars, lists, fields, walk, IInv, TypeOK, HandlesAreLive, ListsAreDisjoint,
              WalkOK, Live
<1> QED BY <1>1, <1>2, <1>3, <1>4, <1>5, <1>6, <1>7, <1>8, <1>9 DEF Next

THEOREM Inductive == Spec => []IInv
BY InitEstablishes, StepPreserves, PTL DEF Spec

(* Type correctness of the timer facility: in particular the cached time   *)
(* never runs ahead of the clock (timer.c:214).                            *)
THEOREM TypeCorrect == Spec => []TypeOK
<1>1. IInv => TypeOK  BY DEF IInv
<1> QED BY Inductive, <1>1, PTL

(* Whatever the clients do, a remembered timer is a live timer of the one  *)
(* who remembers it, and no callback is left for a client that cancelled   *)
(* (timer.c:265-277, core.c:1410-1413).                                    *)
THEOREM HandleSafety == Spec => []HandlesAreLive
<1>1. IInv => HandlesAreLive  BY DEF IInv
<1> QED BY Inductive, <1>1, PTL

(* A block is never handed out twice, and never while its callback is on   *)
(* the stack (timer.c:195-204, 231-234).                                   *)
THEOREM NoDoubleUse == Spec => [](ListsAreDisjoint /\ WalkOK)
<1>1. IInv => ListsAreDisjoint /\ WalkOK  BY DEF IInv
<1> QED BY Inductive, <1>1, PTL

-----------------------------------------------------------------------------
\* The refinement, step by step.
Armed == {<<subject[t], deadline[t]>> : t \in Live}
Server == IF current = None THEN None ELSE subject[current]
Instants == {n + d : n \in 0..MaxTime, d \in Delays}

LEMMA StepImplements == IInv /\ IInv' /\ [Next]_vars => [Service!Next]_(Service!vars)
<1> SUFFICES ASSUME IInv, IInv', [Next]_vars PROVE [Service!Next]_(Service!vars)
  OBVIOUS
<1> USE TimerAssumption
<1>a. Service!vars = <<clock, Armed, Server>>
  BY DEF Service!vars, Armed, Server
<1>1. CASE Advance
  <2>1. clock' = clock + 1 /\ Armed' = Armed /\ Server' = Server
    BY <1>1 DEF Advance, Armed, Server, Live, lists, fields, walk
  <2> QED BY <2>1 DEF Service!Next, Service!Advance, Armed, Server
<1>2. CASE TickStart \/ \E t \in Blocks : Skip(t)
  <2>1. clock' = clock /\ Armed' = Armed /\ Server' = Server
    BY <1>2 DEF TickStart, Skip, Armed, Server, Live, lists, fields
  <2> QED BY <1>a, <2>1 DEF Service!vars, Armed, Server
<1>3. CASE CallbackReturns
  <2>1. clock' = clock /\ Armed' = Armed /\ Server' = None
    BY <1>3 DEF CallbackReturns, Armed, Server, Live, lists, fields
  <2>2. Server # None
    BY <1>3 DEF CallbackReturns, Server, IInv, WalkOK
  <2> QED BY <2>1, <2>2 DEF Service!Next, Service!Return, Armed, Server
<1>4. CASE Sweep
  <2>1. Live' = Live
    BY <1>4 DEF Sweep, Live
  <2>2. clock' = clock /\ Armed' = Armed /\ Server' = Server
    BY <1>4, <2>1 DEF Sweep, Armed, Server, fields
  <2> QED BY <1>a, <2>2 DEF Service!vars, Armed, Server
<1>5. ASSUME NEW t \in Blocks, Expire(t) PROVE Service!Next
  <2> PICK c \in Clients : c = subject[t]
    BY <1>5 DEF Expire, Visiting, Due, IInv, ListsAreDisjoint, HandlesAreLive, Live
  <2> DEFINE p == <<subject[t], deadline[t]>>
  <2>1. t \in Live /\ handle[c] = t /\ c # None
    BY <1>5 DEF Expire, Visiting, Due, IInv, ListsAreDisjoint, HandlesAreLive, Live
  <2>2. Live' = Live \ {t}
    BY <1>5, <2>1 DEF Expire, Live, lists, IInv, TypeOK
  <2>3. \A u \in Live : u # t => subject[u] # c
    BY <2>1 DEF IInv, HandlesAreLive
  <2>4. Armed' = Armed \ {p}
    BY <1>5, <2>2, <2>3, <2>1 DEF Expire, Armed, fields
  <2>5. p \in Armed /\ p[1] = c /\ p[2] < clock
    BY <1>5, <2>1, TimerNowType DEF Armed, Expire, Due, IInv, TypeOK, Live
  <2>6. Server = None /\ Server' = c /\ clock' = clock
    BY <1>5, <2>1 DEF Expire, Visiting, Server, fields
  <2>7. Service!Fire(c)
    BY <2>4, <2>5, <2>6 DEF Service!Fire, Armed, Server
  <2> QED BY <2>1, <2>7 DEF Service!Next
<1>6. ASSUME NEW c \in Clients, Schedule(c) PROVE Service!Next
  <2> PICK t \in Blocks, d \in Delays :
        /\ Usable(t)
        /\ active' = active \cup {t}
        /\ expired' = [expired EXCEPT ![t] = FALSE]
        /\ subject' = [subject EXCEPT ![t] = c]
        /\ deadline' = [deadline EXCEPT ![t] = timer_now + d]
    BY <1>6 DEF Schedule
  <2> DEFINE p == <<c, timer_now + d>>
  <2>1. t \notin active /\ t # current
    BY UsableIsFree
  <2>2. handle[c] = None /\ UNCHANGED <<clock, current>>
    BY <1>6 DEF Schedule, walk
  <2>3. Live' = Live \cup {t} /\ t \notin Live
    BY <2>1 DEF Live, IInv, TypeOK
  <2>4. Armed' = Armed \cup {p}
    BY <2>3 DEF Armed, IInv, TypeOK, Live
  <2>5. \A q \in Armed : q[1] # c
    BY <2>2 DEF Armed, IInv, HandlesAreLive, Live, TypeOK
  <2>6. Server' = Server
    BY <2>1, <2>2 DEF Server, IInv, TypeOK
  <2>7. timer_now + d \in Instants
    BY TimerNowType DEF Instants, IInv, TypeOK
  <2>8. Service!Arm(c)
    BY <2>2, <2>4, <2>5, <2>6, <2>7 DEF Service!Arm, Armed, Server, Instants
  <2> QED BY <2>8 DEF Service!Next
<1>7. ASSUME NEW c \in Clients, Cancel(c) PROVE Service!Next
  <2> DEFINE t == handle[c]
  <2> DEFINE p == <<subject[t], deadline[t]>>
  <2>1. t \in Live /\ subject[t] = c
    BY <1>7 DEF Cancel, IInv, HandlesAreLive
  <2>2. Live' = Live \ {t}
    BY <1>7, <2>1 DEF Cancel, Live, lists, IInv, TypeOK
  <2>3. \A u \in Live : u # t => subject[u] # c
    BY <2>1 DEF IInv, HandlesAreLive
  <2>4. Armed' = Armed \ {p}
    BY <1>7, <2>1, <2>2, <2>3 DEF Cancel, Armed, fields
  <2>5. p \in Armed /\ p[1] = c
    BY <2>1 DEF Armed
  <2>6. Server' = Server /\ clock' = clock
    BY <1>7 DEF Cancel, Server, fields, walk
  <2>7. Service!Disarm(c)
    BY <2>4, <2>5, <2>6 DEF Service!Disarm, Armed, Server
  <2> QED BY <2>7 DEF Service!Next
<1>8. CASE UNCHANGED vars
  BY <1>8 DEF vars, lists, fields, walk, Service!vars, Live
<1> QED BY <1>1, <1>2, <1>3, <1>4, <1>5, <1>6, <1>7, <1>8 DEF Next

(* The timer facility is the service its clients count on: one timer each, *)
(* fired once, after its deadline, never after its cancellation.           *)
THEOREM Refinement == Spec => ImplementsService
<1>1. Init => Service!Init
  BY TimerAssumption DEF Init, Service!Init, Live
<1> QED BY <1>1, StepImplements, Inductive, PTL DEF Spec, ImplementsService, Service!Spec

(* A tick visits at most the blocks that were scheduled when it began.     *)
THEOREM TickIsBounded == Spec => WalkShrinks
<1>1. ASSUME [Next]_vars, ticking, ticking' PROVE todo' \subseteq todo
  BY <1>1 DEF Next, Advance, TickStart, CallbackReturns, Sweep, Expire, Skip, Schedule, Cancel,
             vars, walk
<1>2. [Next]_vars => [ticking /\ ticking' => todo' \subseteq todo]_vars
  BY <1>1
<1> QED BY <1>2, PTL DEF Spec, WalkShrinks
=============================================================================
