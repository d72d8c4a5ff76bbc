---------------------------- MODULE TimerService ----------------------------
(***************************************************************************)
(* What timer.c promises its clients (the watchdog of a connection, the    *)
(* arrival timer of a rate generator, the think timer of a session),       *)
(* without its lists and its memory blocks: a client has at most one armed *)
(* timer; it fires at most once per arming, after its deadline, never once *)
(* it was cancelled, and one callback runs at a time.                      *)
(***************************************************************************)
EXTENDS Integers

CONSTANTS Clients,    \* holders of a timer handle
          Deadlines,  \* the instants a timer can be set to
          Idle        \* "no callback is running", no client

VARIABLES clock,    \* real time
          pending,  \* the armed timers, as pairs <<client, deadline>>
          serving   \* the client whose callback runs, or Idle

vars == <<clock, pending, serving>>

TypeOK == /\ clock \in Nat
          /\ pending \subseteq Clients \X Deadlines
          /\ serving \in Clients \cup {Idle}

Init == /\ clock \in Nat
        /\ pending = {}
        /\ serving = Idle

Advance == /\ clock' = clock + 1
           /\ UNCHANGED <<pending, serving>>

\* A client arms a timer only when it has none.
Arm(c) == /\ \A p \in pending : p[1] # c
          /\ \E d \in Deadlines : pending' = pending \cup {<<c, d>>}
          /\ UNCHANGED <<clock, serving>>

Disarm(c) == /\ \E p \in pending : p[1] = c /\ pending' = pending \ {p}
             /\ UNCHANGED <<clock, serving>>

Fire(c) == /\ serving = Idle
           /\ \E p \in pending : /\ p[1] = c
                                 /\ p[2] < clock
                                 /\ pending' = pending \ {p}
           /\ serving' = c
           /\ UNCHANGED clock

Return == /\ serving # Idle
          /\ serving' = Idle
          /\ UNCHANGED <<clock, pending>>

Next == \/ Advance
        \/ Return
        \/ \E c \in Clients : Arm(c) \/ Disarm(c) \/ Fire(c)

Spec == Init /\ [][Next]_vars
=============================================================================
