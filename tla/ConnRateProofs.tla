--------------------------- MODULE ConnRateProofs ---------------------------
(***************************************************************************)
(* The arrival of connections is safe for any --num-conns, any limit, with *)
(* or without a rate, and however core_connect fails.                      *)
(***************************************************************************)
EXTENDS ConnRate, TLAPS

\* No more connections are accounted for than were generated or asked for.
Counts ==
  /\ num_conns_open = alive + (IF at = "connect" THEN 1 ELSE 0)
  /\ frames <= num_conns_destroyed
  /\ num_conns_destroyed + num_conns_open <= num_conns_generated
  /\ running => num_conns = NumConns /\ num_conns_destroyed + num_conns_open <= NumConns
  /\ ~running => /\ num_conns = 0 /\ num_conns_open = 0
                 /\ num_conns_destroyed - frames <= NumConns

\* Failed calls of make_conn are on the stack only while one is.
Stack == /\ frames > 0 => at \in {"make", "connect", "return"}
         /\ at = "return" => frames > 0

\* A sequential generator creates a connection when there is none.
OneByOne ==
  ~Timed => /\ ~timer /\ at # "tick" /\ caller # "tick"
            /\ alive <= 1
            /\ at \in {"start", "make", "connect"} => alive = 0

Limit == MaxConns # 0 => num_conns_open <= MaxConns

IInv == TypeOK /\ Counts /\ Stack /\ OneByOne /\ Limit

LEMMA InitEstablishes == Init => IInv
<1> SUFFICES ASSUME Init PROVE IInv
  OBVIOUS
<1>1. TypeOK
  <2>1. paused \in BOOLEAN /\ running \in BOOLEAN /\ done \in BOOLEAN /\ timer \in BOOLEAN
    BY Zenon DEF Init
  <2> QED BY <2>1 DEF Init, TypeOK
<1>2. Counts /\ Stack /\ OneByOne /\ Limit
  BY OptionsAssumption DEF Init, Counts, Stack, OneByOne, Limit, NumConns, MaxConns, Timed
<1> QED BY <1>1, <1>2 DEF IInv

\* make_conn, from its call to its return.
LEMMA MakePreserves == IInv /\ Make /\ UNCHANGED opt => IInv'
<1> SUFFICES ASSUME IInv, Make, UNCHANGED opt PROVE IInv'
  OBVIOUS
<1> USE OptionsAssumption DEF IInv, TypeOK, Counts, Stack, OneByOne, Limit, counters, core,
            NumConns, MaxConns, Timed
<1>0. done' \in BOOLEAN /\ running' \in BOOLEAN /\ paused' \in BOOLEAN
  <2>1. CASE MakePaused \/ MakeNoMore \/ MakeLater
    BY <2>1, Zenon DEF MakePaused, MakeNoMore, MakeLater, Returns
  <2>2. CASE MakeConn \/ ConnectSucceeds \/ MakeFails
    BY <2>2, Zenon DEF MakeConn, ConnectSucceeds, MakeFails
  <2>3. CASE ConnectReturnsError
    BY <2>3, Zenon DEF ConnectReturnsError, Destroyed
  <2> QED BY <2>1, <2>2, <2>3 DEF Make
<1>1. CASE MakePaused
  BY <1>0, <1>1 DEF MakePaused, Returns, Resume
<1>2. CASE MakeNoMore
  BY <1>0, <1>2 DEF MakeNoMore, Returns, Resume
<1>3. CASE MakeLater
  BY <1>0, <1>3 DEF MakeLater, Returns, Resume
<1>4. CASE MakeConn
  BY <1>0, <1>4 DEF MakeConn, NoMore, AtLimit
<1>5. CASE ConnectSucceeds
  BY <1>0, <1>5 DEF ConnectSucceeds, Resume
<1>6. CASE ConnectReturnsError
  BY <1>0, <1>6 DEF ConnectReturnsError, Destroyed, GeneratesNext
<1>7. CASE MakeFails
  BY <1>0, <1>7 DEF MakeFails, Resume
<1> QED BY <1>1, <1>2, <1>3, <1>4, <1>5, <1>6, <1>7 DEF Make

LEMMA LoopPreserves ==
  IInv /\ (Start \/ ConnEnds \/ Tick \/ Arrival \/ TickEnds) /\ UNCHANGED opt => IInv'
<1> SUFFICES ASSUME IInv, Start \/ ConnEnds \/ Tick \/ Arrival \/ TickEnds, UNCHANGED opt
             PROVE IInv'
  OBVIOUS
<1> USE OptionsAssumption DEF IInv, TypeOK, Counts, Stack, OneByOne, Limit, counters, core,
            NumConns, MaxConns, Timed
<1>0. running' \in BOOLEAN /\ paused' \in BOOLEAN /\ timer' \in BOOLEAN
  BY Zenon DEF Start, ConnEnds, Tick, Arrival, TickEnds, Destroyed
<1>1. CASE Start
  BY <1>0, <1>1 DEF Start
<1>2. CASE ConnEnds
  BY <1>0, <1>2 DEF ConnEnds, Destroyed, GeneratesNext
<1>3. CASE Tick
  BY <1>0, <1>3 DEF Tick
<1>4. CASE Arrival
  BY <1>4 DEF Arrival
<1>5. CASE TickEnds
  BY <1>0, <1>5 DEF TickEnds
<1> QED BY <1>1, <1>2, <1>3, <1>4, <1>5

LEMMA StepPreserves == IInv /\ [Next]_vars => IInv'
<1> SUFFICES ASSUME IInv, [Next]_vars PROVE IInv'
  OBVIOUS
<1>1. CASE UNCHANGED vars
  BY <1>1 DEF vars, state, counters, core, thread, IInv, TypeOK, Counts, Stack, OneByOne, Limit,
             NumConns, MaxConns, Timed
<1>2. CASE Idle /\ UNCHANGED opt
  BY <1>1, <1>2 DEF Idle, vars, state
<1> QED BY <1>1, <1>2, MakePreserves, LoopPreserves DEF Next

THEOREM Inductive == Spec => []IInv
BY InitEstablishes, StepPreserves, PTL DEF Spec

(* Neither the limit on open connections nor the sequential order is       *)
(* exceeded, at whatever depth make_conn re-enters itself.                 *)
THEOREM NeverOverLimit == Spec => []LimitKept
<1>1. IInv => LimitKept
  BY OptionsAssumption DEF IInv, TypeOK, Counts, OneByOne, Limit, LimitKept,
                            NumConns, MaxConns, Timed
<1> QED BY <1>1, Inductive, PTL

(* core_exit never leaves a connection behind.                             *)
THEOREM ExitIsLast == Spec => []StopsWhenQuiet
<1>1. IInv => StopsWhenQuiet
  BY DEF IInv, Counts, StopsWhenQuiet
<1> QED BY <1>1, Inductive, PTL

(* At most --num-conns connections are established.                        *)
THEOREM EnoughIsEnough == Spec => []NeverTooMany
<1>1. IInv => NeverTooMany
  BY OptionsAssumption DEF IInv, TypeOK, Counts, NeverTooMany, NumConns
<1> QED BY <1>1, Inductive, PTL
-----------------------------------------------------------------------------
(* Every connection generated is accounted for.  While a rate is given the *)
(* end of a failed connection does not enter make_conn, and a sequential   *)
(* generator that has made all its connections meets NoMore only when they *)
(* have all ended: a correction is outstanding (at = "return") with the    *)
(* numbers in step.                                                        *)
InStep ==
  /\ at \in {"start", "tick", "make", "connect"} => ~done
  /\ Timed /\ frames > 0 => at = "return"
  /\ running => num_conns_destroyed < NumConns
  /\ MaxConns = 0 /\ running /\ (~done \/ at = "return") =>
       num_conns_generated = num_conns_destroyed + num_conns_open

LEMMA InitInStep == Init => InStep
BY OptionsAssumption DEF Init, InStep, NumConns, MaxConns, Timed

LEMMA MakeStaysInStep == IInv /\ InStep /\ Make /\ UNCHANGED opt => InStep'
<1> SUFFICES ASSUME IInv, InStep, Make, UNCHANGED opt PROVE InStep'
  OBVIOUS
<1> USE OptionsAssumption DEF IInv, TypeOK, Counts, Stack, OneByOne, InStep, counters, core,
            NumConns, MaxConns, Timed
<1>1. CASE MakePaused
  BY <1>1 DEF MakePaused, Returns, Resume
<1>2. CASE MakeNoMore
  BY <1>2 DEF MakeNoMore, NoMore, Returns, Resume
<1>3. CASE MakeLater
  BY <1>3 DEF MakeLater, AtLimit, Returns, Resume
<1>4. CASE MakeConn
  BY <1>4 DEF MakeConn
<1>5. CASE ConnectSucceeds
  BY <1>5 DEF ConnectSucceeds, Resume
<1>6. CASE ConnectReturnsError
  BY <1>6 DEF ConnectReturnsError, Destroyed, GeneratesNext
<1>7. CASE MakeFails
  BY <1>7 DEF MakeFails, Resume
<1> QED BY <1>1, <1>2, <1>3, <1>4, <1>5, <1>6, <1>7 DEF Make

LEMMA LoopStaysInStep ==
  IInv /\ InStep /\ (Start \/ ConnEnds \/ Tick \/ Arrival \/ TickEnds) /\ UNCHANGED opt
    => InStep'
<1> SUFFICES ASSUME IInv, InStep, Start \/ ConnEnds \/ Tick \/ Arrival \/ TickEnds,
                    UNCHANGED opt
             PROVE InStep'
  OBVIOUS
<1> USE OptionsAssumption DEF IInv, TypeOK, Counts, Stack, OneByOne, InStep, counters, core,
            NumConns, MaxConns, Timed
<1>1. CASE Start
  BY <1>1 DEF Start
<1>2. CASE ConnEnds
  BY <1>2 DEF ConnEnds, Destroyed, GeneratesNext
<1>3. CASE Tick
  BY <1>3 DEF Tick
<1>4. CASE Arrival
  BY <1>4 DEF Arrival
<1>5. CASE TickEnds
  BY <1>5 DEF TickEnds
<1> QED BY <1>1, <1>2, <1>3, <1>4, <1>5

(* The counters agree with the connections there are, through any nesting  *)
(* of failures in make_conn.                                               *)
THEOREM CountersAgree == Spec => []Accounting
<1>1. IInv /\ InStep /\ [Next]_vars => InStep'
  <2> SUFFICES ASSUME IInv, InStep, [Next]_vars PROVE InStep'
    OBVIOUS
  <2>1. CASE UNCHANGED vars \/ (Idle /\ UNCHANGED opt)
    BY <2>1 DEF Idle, vars, state, counters, core, thread, InStep, NumConns, MaxConns, Timed
  <2> QED BY <2>1, MakeStaysInStep, LoopStaysInStep DEF Next
<1>2. IInv /\ InStep => Accounting
  BY DEF IInv, Counts, InStep, Accounting
<1> QED BY <1>1, <1>2, InitInStep, Inductive, PTL DEF Spec
=============================================================================
