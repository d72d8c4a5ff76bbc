------------------------------ MODULE ConnRate ------------------------------
(***************************************************************************)
(* The arrival of connections: src/gen/conn_rate.c on the rate generator   *)
(* of src/gen/rate.c.  With a rate, a timer creates the connections; with  *)
(* none, the end of one creates the next ("generate callbacks              *)
(* sequentially").  core_exit ends the event loop.                         *)
(*                                                                         *)
(* make_conn re-enters itself: a core_connect that fails at once destroys  *)
(* the connection before it returns, and EV_CONN_DESTROYED makes the       *)
(* sequential generator create the next one.  frames counts the calls of   *)
(* make_conn whose connection has failed in this way and that have not     *)
(* returned yet.  Time is abstract: a tick finds any number of arrivals    *)
(* due.  Connections are told apart only by their number, alive.           *)
(***************************************************************************)
EXTENDS Integers

CONSTANT Options  \* the command lines and whether core_connect may fail

ASSUME OptionsAssumption ==
  Options \subseteq [num : Nat \ {0}, max : Nat, timed : BOOLEAN, fails : BOOLEAN]

VARIABLES opt,        \* the option record of this run
          num_conns_generated,
          num_conns_destroyed,
          num_conns_open,
          paused,
          num_conns,  \* param.num_conns, which core_exit clears
          running,    \* core_loop is to go on
          done,       \* rg->done
          timer,      \* rg->timer is armed
          alive,      \* the connections there are
          at,         \* where the thread is
          caller,     \* who called the outermost make_conn
          frames

NumConns == opt.num         \* --num-conns
MaxConns == opt.max         \* --max-connections, 0: no limit
Timed == opt.timed          \* --rate or --period is given
ConnectFails == opt.fails   \* core_connect may return -1 (no socket, port or route)

counters == <<num_conns_generated, num_conns_destroyed, num_conns_open>>
core == <<num_conns, running>>
thread == <<at, caller, frames>>
state == <<counters, paused, core, done, timer, alive, thread>>
vars == <<opt, state>>

TypeOK ==
  /\ opt \in Options
  /\ num_conns_generated \in Nat
  /\ num_conns_destroyed \in Nat
  /\ num_conns_open \in Nat
  /\ paused \in BOOLEAN
  /\ num_conns \in {0, NumConns}
  /\ running \in BOOLEAN
  /\ done \in BOOLEAN
  /\ timer \in BOOLEAN
  /\ alive \in Nat
  /\ at \in {"start", "loop", "tick", "make", "connect", "return"}
  /\ caller \in {"start", "tick", "done"}
  /\ frames \in Nat

Init ==
  /\ opt \in Options
  /\ num_conns_generated = 0 /\ num_conns_destroyed = 0 /\ num_conns_open = 0
  /\ paused = FALSE
  /\ num_conns = NumConns
  /\ running = TRUE
  /\ done = FALSE /\ timer = FALSE
  /\ alive = 0
  /\ at = "start" /\ caller = "start" /\ frames = 0

-----------------------------------------------------------------------------
(* rate_generator_start: the first arrival is now, the timer is for the    *)
(* second one.                                                             *)
Start ==
  /\ at = "start"
  /\ timer' = Timed
  /\ at' = "make"
  /\ UNCHANGED <<counters, paused, core, done, alive, caller, frames>>

\* The caller of make_conn that returned to it goes on; the tick's loop
\* ends with the generator.
Resume == IF caller = "tick" /\ ~done' THEN "tick" ELSE "loop"

(* make_conn is left without a connection; stop: rg->tick returned -1.     *)
(* If the end of a failed connection had called it, that call returns next.*)
Returns(stop) ==
  /\ done' = stop
  /\ at' = IF frames > 0 THEN "return" ELSE Resume
  /\ UNCHANGED <<num_conns_open, paused, core, timer, alive, caller, frames>>

\* Mutant of NoMore: off by one.
OneMore == num_conns_generated > num_conns

NoMore == num_conns_generated >= num_conns

MakePaused ==
  /\ at = "make"
  /\ paused
  /\ Returns(FALSE)
  /\ UNCHANGED <<num_conns_generated, num_conns_destroyed>>

\* The test and the increment of num_conns_generated are one expression.
MakeNoMore ==
  /\ at = "make"
  /\ ~paused
  /\ NoMore
  /\ num_conns_generated' = num_conns_generated + 1
  /\ Returns(TRUE)
  /\ UNCHANGED num_conns_destroyed

\* Mutant of AtLimit: off by one.
OverLimit == MaxConns # 0 /\ num_conns_open > MaxConns

AtLimit == MaxConns # 0 /\ num_conns_open >= MaxConns

MakeLater ==
  /\ at = "make"
  /\ ~paused
  /\ ~NoMore
  /\ AtLimit
  /\ num_conns_generated' = num_conns_generated + 1
  /\ Returns(FALSE)
  /\ UNCHANGED num_conns_destroyed

MakeConn ==
  /\ at = "make"
  /\ ~paused
  /\ ~NoMore
  /\ ~AtLimit
  /\ num_conns_generated' = num_conns_generated + 1
  /\ num_conns_open' = num_conns_open + 1
  /\ at' = "connect"
  /\ UNCHANGED <<num_conns_destroyed, paused, core, done, timer, alive, caller, frames>>

ConnectSucceeds ==
  /\ at = "connect"
  /\ alive' = alive + 1
  /\ done' = FALSE
  /\ at' = IF frames > 0 THEN "return" ELSE Resume
  /\ UNCHANGED <<counters, paused, core, timer, caller, frames>>

\* Mutant of Destroyed: core_exit comes one connection early.
DestroyedEarly ==
  /\ num_conns_destroyed' = num_conns_destroyed + 1
  /\ num_conns_open' = num_conns_open - 1
  /\ paused' = FALSE
  /\ IF num_conns_destroyed' + 1 >= num_conns
       THEN running' = FALSE /\ num_conns' = 0
       ELSE UNCHANGED core

\* Mutant of Destroyed: a paused generator stays paused.
DestroyedKeepsPause ==
  /\ num_conns_destroyed' = num_conns_destroyed + 1
  /\ num_conns_open' = num_conns_open - 1
  /\ UNCHANGED paused
  /\ IF num_conns_destroyed' >= num_conns
       THEN running' = FALSE /\ num_conns' = 0
       ELSE UNCHANGED core

\* EV_CONN_DESTROYED: conn_rate's destroyed, which may end the program.
Destroyed ==
  /\ num_conns_destroyed' = num_conns_destroyed + 1
  /\ num_conns_open' = num_conns_open - 1
  /\ paused' = FALSE
  /\ IF num_conns_destroyed' >= num_conns
       THEN running' = FALSE /\ num_conns' = 0
       ELSE UNCHANGED core

\* EV_CONN_DESTROYED reaches rate.c's done next: it creates a connection.
GeneratesNext == ~Timed /\ ~done

ConnectReturnsError ==
  /\ ConnectFails
  /\ at = "connect"
  /\ Destroyed
  /\ frames' = frames + 1
  /\ at' = IF GeneratesNext THEN "make" ELSE "return"
  /\ UNCHANGED <<num_conns_generated, done, timer, alive, caller>>

\* Mutant of MakeFails: num_conns_generated is not corrected.
MakeFailsCounted ==
  /\ at = "return"
  /\ num_conns_destroyed' = num_conns_destroyed - 1
  /\ paused' = TRUE
  /\ frames' = frames - 1
  /\ done' = FALSE
  /\ at' = IF frames > 1 THEN "return" ELSE Resume
  /\ UNCHANGED <<num_conns_generated, num_conns_open, core, timer, alive, caller>>

(* make_conn after core_connect returned -1: the connection does not count *)
(* and the generator pauses until another one ends.                        *)
MakeFails ==
  /\ at = "return"
  /\ num_conns_generated' = num_conns_generated - 1
  /\ num_conns_destroyed' = num_conns_destroyed - 1
  /\ paused' = TRUE
  /\ frames' = frames - 1
  /\ done' = FALSE
  /\ at' = IF frames > 1 THEN "return" ELSE Resume
  /\ UNCHANGED <<num_conns_open, core, timer, alive, caller>>

-----------------------------------------------------------------------------
(* core_loop: a connection has come to its end.  The events and timers that*)
(* are already due are still handled after core_exit, as in Tick.          *)
ConnEnds ==
  /\ at = "loop"
  /\ alive > 0
  /\ alive' = alive - 1
  /\ Destroyed
  /\ IF GeneratesNext THEN at' = "make" /\ caller' = "done"
                      ELSE UNCHANGED <<at, caller>>
  /\ UNCHANGED <<num_conns_generated, done, timer, frames>>

\* rate.c's tick.
Tick ==
  /\ at = "loop"
  /\ timer
  /\ timer' = FALSE
  /\ at' = IF done THEN "loop" ELSE "tick"
  /\ UNCHANGED <<counters, paused, core, done, alive, caller, frames>>

Arrival ==  \* now > rg->next_time
  /\ at = "tick"
  /\ at' = "make"
  /\ caller' = "tick"
  /\ UNCHANGED <<counters, paused, core, done, timer, alive, frames>>

TickEnds ==
  /\ at = "tick"
  /\ timer' = TRUE
  /\ at' = "loop"
  /\ UNCHANGED <<counters, paused, core, done, alive, caller, frames>>

\* core_loop polls and nothing happens, or has returned.
Idle ==
  /\ at = "loop"
  /\ UNCHANGED state

Make == \/ MakePaused \/ MakeNoMore \/ MakeLater \/ MakeConn
        \/ ConnectSucceeds \/ ConnectReturnsError \/ MakeFails

Next == /\ Start \/ Make \/ ConnEnds \/ Tick \/ Arrival \/ TickEnds \/ Idle
        /\ UNCHANGED opt

Spec == Init /\ [][Next]_vars

(* The thread goes on; every connection ends, by its watchdog if need be;  *)
(* time passes, so that arrivals become due, and the arrivals due at one   *)
(* tick are finitely many.                                                 *)
Fairness == /\ WF_state(Start \/ Make)
            /\ WF_state(ConnEnds)
            /\ WF_state(Tick)
            /\ SF_state(Arrival)
            /\ SF_state(TickEnds)

FairSpec == Spec /\ Fairness

-----------------------------------------------------------------------------
(* The counters agree with the connections there are, through any nesting  *)
(* of failures in make_conn; without --max-connections every connection    *)
(* generated is open or destroyed until the last one (conn_rate.c:67-95).  *)
Accounting ==
  /\ num_conns_open = alive + (IF at = "connect" THEN 1 ELSE 0)
  /\ MaxConns = 0 /\ running /\ ~done =>
       num_conns_generated = num_conns_destroyed + num_conns_open

(* --max-connections bounds the connections that are open; a sequential    *)
(* generator has one at a time (conn_rate.c:70, rate.c:131).               *)
LimitKept == /\ MaxConns # 0 => num_conns_open <= MaxConns
             /\ ~Timed => num_conns_open <= 1

(* Connections that failed at once are made up for, but never more than    *)
(* --num-conns connections are established (conn_rate.c:67-82).            *)
NeverTooMany == num_conns_destroyed - frames + alive <= NumConns

(* core_exit is called when the last connection has ended, not before, and *)
(* no connection is opened after it (conn_rate.c:91-92, core.c:1686-1687). *)
StopsWhenQuiet == ~running => num_conns_open = 0

(* The test ends.                                                          *)
EventuallyStops == <>(~running)

(* It does unless --max-connections turns arrivals away, or a rate meets   *)
(* connects that fail (conn_rate.c:70-83, rate.c:123-135).                 *)
StopsUnlessObstructed == (~Timed \/ (MaxConns = 0 /\ ~ConnectFails)) => EventuallyStops
=============================================================================
