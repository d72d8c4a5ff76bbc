------------------------------- MODULE Timer -------------------------------
(***************************************************************************)
(* The timer facility (src/timer.c on the lists of src/lib/list.c) and the *)
(* protocol its clients follow.                                            *)
(*                                                                         *)
(* A timer is a block of memory.  A free block is on the passive list (or  *)
(* was never allocated), a scheduled one on the active list until the      *)
(* sweep of a tick finds has_expired set.  The walk of a tick runs the     *)
(* callbacks; a callback may schedule and cancel timers of any client.     *)
(* list_push adds at the head and the walk never goes back, so the blocks  *)
(* still to be visited are a set, todo, that only shrinks.  The lists are  *)
(* sets here: a block enters a list only by leaving the other one or by    *)
(* being allocated, and no order among timers is promised.                 *)
(*                                                                         *)
(* persistent_timers is dead code (timer.c:244) and timer_free_all runs    *)
(* when the event loop is over; neither is modelled.                       *)
(***************************************************************************)
EXTENDS Integers

CONSTANTS Blocks,         \* the memory blocks a timer can live in
          Clients,        \* the holders of a handle (conn->watchdog, rg->timer, ...)
          None,           \* the null pointer
          Delays,         \* the delays clients ask for; a late one may be negative
          UseTimerCache,  \* --use-timer-cache
          MaxTime         \* bound on the clock

ASSUME TimerAssumption == /\ None \notin Blocks
                          /\ None \notin Clients
                          /\ Delays \subseteq Int
                          /\ UseTimerCache \in BOOLEAN
                          /\ MaxTime \in Nat

VARIABLES clock,     \* what gettimeofday returns
          now,       \* the cached time
          active,    \* active_timers
          passive,   \* passive_timers
          expired,   \* has_expired of each block
          subject,   \* timer_subject of each block
          deadline,  \* time_started + timeout_delay of each block
          handle,    \* the timer each client remembers, or None
          ticking,   \* timer_tick is on the stack
          todo,      \* blocks the walk of this tick has not visited
          current    \* the block whose callback runs, or None

lists  == <<active, passive>>
fields == <<subject, deadline>>
walk   == <<ticking, todo, current>>
vars == <<clock, now, lists, expired, fields, handle, walk>>

TypeOK == /\ clock \in 0..MaxTime
          /\ now \in 0..clock
          /\ active \subseteq Blocks
          /\ passive \subseteq Blocks
          /\ expired \in [Blocks -> BOOLEAN]
          /\ subject \in [Blocks -> Clients \cup {None}]
          /\ deadline \in [Blocks -> Int]
          /\ handle \in [Clients -> Blocks \cup {None}]
          /\ ticking \in BOOLEAN
          /\ todo \subseteq Blocks
          /\ current \in Blocks \cup {None}

timer_now == IF UseTimerCache THEN now ELSE clock

\* timer_init fills the passive list; any number of its blocks may be there.
Init == /\ clock = 0
        /\ now = 0
        /\ active = {}
        /\ passive \in SUBSET Blocks
        /\ expired = [t \in Blocks |-> FALSE]
        /\ subject = [t \in Blocks |-> None]
        /\ deadline = [t \in Blocks |-> 0]
        /\ handle = [c \in Clients |-> None]
        /\ ticking = FALSE
        /\ todo = {}
        /\ current = None

Advance == /\ clock < MaxTime
           /\ clock' = clock + 1
           /\ UNCHANGED <<now, lists, expired, fields, handle, walk>>

\* Client code runs in the event handlers between two ticks and in callbacks.
ClientRuns == ~ticking \/ current # None

\* The block timer_schedule uses: a passive one, else newly allocated memory.
Usable(t) == IF passive # {} THEN t \in passive ELSE t \notin active

\* Mutant of Schedule: list_push adds at the tail, ahead of the walk.
ScheduleAtTail(c) ==
  /\ ClientRuns
  /\ handle[c] = None
  /\ \E t \in Blocks, d \in Delays :
       /\ Usable(t)
       /\ timer_now + d < MaxTime
       /\ passive' = passive \ {t}
       /\ active' = active \cup {t}
       /\ todo' = IF ticking THEN todo \cup {t} ELSE todo
       /\ expired' = [expired EXCEPT ![t] = FALSE]
       /\ subject' = [subject EXCEPT ![t] = c]
       /\ deadline' = [deadline EXCEPT ![t] = timer_now + d]
       /\ handle' = [handle EXCEPT ![c] = t]
  /\ UNCHANGED <<clock, now, ticking, current>>

(* A client that has no timer schedules one and keeps the handle.  The     *)
(* deadline stays below MaxTime so that the bounded clock can pass it.     *)
Schedule(c) ==
  /\ ClientRuns
  /\ handle[c] = None
  /\ \E t \in Blocks, d \in Delays :
       /\ Usable(t)
       /\ timer_now + d < MaxTime
       /\ passive' = passive \ {t}
       /\ active' = active \cup {t}
       /\ expired' = [expired EXCEPT ![t] = FALSE]
       /\ subject' = [subject EXCEPT ![t] = c]
       /\ deadline' = [deadline EXCEPT ![t] = timer_now + d]
       /\ handle' = [handle EXCEPT ![c] = t]
  /\ UNCHANGED <<clock, now, walk>>

(* A client cancels the timer it remembers and forgets it: the block stays *)
(* on the active list, marked, until a sweep.                              *)
Cancel(c) ==
  /\ ClientRuns
  /\ handle[c] # None
  /\ expired' = [expired EXCEPT ![handle[c]] = TRUE]
  /\ handle' = [handle EXCEPT ![c] = None]
  /\ UNCHANGED <<clock, now, lists, fields, walk>>

\* Mutant of TickStart: the cached time is rounded up.
TickRoundsUp == /\ ~ticking
                /\ ticking' = TRUE
                /\ now' = clock + 1
                /\ todo' = active
                /\ UNCHANGED <<clock, lists, expired, fields, handle, current>>

TickStart == /\ ~ticking
             /\ ticking' = TRUE
             /\ now' = clock
             /\ todo' = active
             /\ UNCHANGED <<clock, lists, expired, fields, handle, current>>

Visiting(t) == ticking /\ current = None /\ t \in todo

\* Mutant of Due: timer_has_expired does not look at has_expired.
DueThoughCancelled(t) == deadline[t] < timer_now

Due(t) == ~expired[t] /\ deadline[t] < timer_now

\* Mutant of Expire: the callback does not clear its client's handle.
ExpireKeepsHandle(t) == /\ Visiting(t)
                        /\ Due(t)
                        /\ expired' = [expired EXCEPT ![t] = TRUE]
                        /\ current' = t
                        /\ todo' = todo \ {t}
                        /\ UNCHANGED <<clock, now, lists, fields, handle, ticking>>

\* The callback's first statement makes its client forget the handle.
Expire(t) == /\ Visiting(t)
             /\ Due(t)
             /\ expired' = [expired EXCEPT ![t] = TRUE]
             /\ current' = t
             /\ todo' = todo \ {t}
             /\ handle' = [handle EXCEPT ![subject[t]] = None]
             /\ UNCHANGED <<clock, now, lists, fields, ticking>>

Skip(t) == /\ Visiting(t)
           /\ ~Due(t)
           /\ todo' = todo \ {t}
           /\ UNCHANGED <<clock, now, lists, expired, fields, handle, ticking, current>>

CallbackReturns == /\ current # None
                   /\ current' = None
                   /\ UNCHANGED <<clock, now, lists, expired, fields, handle, ticking, todo>>

\* Mutant of Sweep: list_remove_if_true removes the timers still waiting too.
SweepAll == /\ ticking
            /\ current = None
            /\ todo = {}
            /\ ticking' = FALSE
            /\ active' = {}
            /\ passive' = passive \cup active
            /\ UNCHANGED <<clock, now, expired, fields, handle, todo, current>>

\* The second pass of the tick returns the marked blocks to the pool.
Sweep == /\ ticking
         /\ current = None
         /\ todo = {}
         /\ ticking' = FALSE
         /\ active' = {t \in active : ~expired[t]}
         /\ passive' = passive \cup {t \in active : expired[t]}
         /\ UNCHANGED <<clock, now, expired, fields, handle, todo, current>>

Next == \/ Advance
        \/ TickStart \/ CallbackReturns \/ Sweep
        \/ \E t \in Blocks : Expire(t) \/ Skip(t)
        \/ \E c \in Clients : Schedule(c) \/ Cancel(c)

Spec == Init /\ [][Next]_vars

(* core_loop calls timer_tick in every iteration and never blocks for good *)
(* in between; callbacks return; time passes.                              *)
Fairness == /\ WF_vars(Advance)
            /\ WF_vars(TickStart)
            /\ WF_vars(CallbackReturns)
            /\ WF_vars(Sweep)
            /\ \A t \in Blocks : WF_vars(Expire(t)) /\ WF_vars(Skip(t))

FairSpec == Spec /\ Fairness

-----------------------------------------------------------------------------
\* The blocks whose callback may still run.
Live == {t \in active : ~expired[t]}

(* The block of a running callback is spent, still on the active list, and *)
(* so in nobody's hands until the sweep; there is a walk only in a tick.   *)
WalkOK == /\ current # None => /\ ticking
                               /\ current \in active
                               /\ expired[current]
                               /\ subject[current] \in Clients
          /\ ~ticking => todo = {}

(* A handle a client keeps denotes a live timer of that very client, and a *)
(* live timer is one its subject still remembers: no client can cancel a   *)
(* block that was recycled for another one (timer.c:276), and no callback  *)
(* runs for a client that has cancelled or been destroyed (core.c:1410).   *)
HandlesAreLive ==
  /\ \A c \in Clients : handle[c] # None => handle[c] \in Live /\ subject[handle[c]] = c
  /\ \A t \in Live : subject[t] \in Clients /\ handle[subject[t]] = t

(* A block is on one list at most, so a block handed out by timer_schedule *)
(* is in nobody's use, and the walk only visits scheduled blocks.          *)
ListsAreDisjoint == active \cap passive = {} /\ todo \subseteq active

(* timer_tick visits what was scheduled when it began and nothing else,    *)
(* even when its callbacks keep re-arming timers that are already late:    *)
(* what is pushed during the walk lies behind it (list.c:97, timer.c:215). *)
WalkShrinks == [][ticking /\ ticking' => todo' \subseteq todo]_vars

(* A timer that is not cancelled fires: every armed client is eventually   *)
(* disarmed (timer.c:184).                                                 *)
ArmedTimersEnd == \A c \in Clients : (handle[c] # None) ~> (handle[c] = None)

\* What every step preserves, the induction hypothesis of the proofs.
IInv == TypeOK /\ HandlesAreLive /\ ListsAreDisjoint /\ WalkOK

Service == INSTANCE TimerService
             WITH Idle <- None,
                  Deadlines <- {n + d : n \in 0..MaxTime, d \in Delays},
                  pending <- {<<subject[t], deadline[t]>> : t \in Live},
                  serving <- IF current = None THEN None ELSE subject[current]

(* The lists, the lazily removed blocks and the block reuse implement the  *)
(* service the clients count on (timer.c:175-277).                         *)
ImplementsService == Service!Spec
=============================================================================
