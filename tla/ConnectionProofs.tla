-------------------------- MODULE ConnectionProofs --------------------------
(***************************************************************************)
(* Connection is type-correct, leaves nothing behind when it closes and    *)
(* issues no call while it closes, for any number of calls, any burst      *)
(* length, either event loop and any sizes of the requests and buffers.    *)
(***************************************************************************)
EXTENDS Connection, SequenceTheorems, TLAPS

ClosedStates == {"CLOSING", "FREE"}

\* Where the thread can be in each state of the connection.
ThreadOK ==
  /\ at = "connect" <=> state = "INITIAL"
  /\ at \in {"event", "send", "read", "parse", "destroy", "destroy_eof"} => Open
  /\ at = "send" => sendq # <<>>
  /\ at = "read" => recvq # <<>>
  /\ Backend = "epoll" => count = (IF at = "event" THEN 1 ELSE 0)
  /\ state \in ClosedStates => link = "closed"

\* A call is counted as destroyed when it has been counted as completed.
Counted == state \notin ClosedStates =>
             num_completed = num_destroyed + (IF Destroying THEN 1 ELSE 0)

IInv == TypeOK /\ ClosedIsQuiet /\ ThreadOK /\ Counted /\ NoCallOnClosing

-----------------------------------------------------------------------------
\* The types of what the helpers compute.

LEMMA SetActiveType ==
  ASSUME NEW i \in SUBSET {"R", "W"}, NEW dir \in {"R", "W"}
  PROVE  SetActive(i, dir) \subseteq {"R", "W"} /\ ClearActive(i, dir) \subseteq {"R", "W"}
BY DEF SetActive, ClearActive, Other

LEMMA WatchType ==
  ASSUME NEW w \in BOOLEAN, NEW sq, NEW rq, NEW tm \in [Calls -> BOOLEAN],
         sq # <<>> => Head(sq) \in Calls, rq # <<>> => Head(rq) \in Calls
  PROVE  Watch(w, sq, rq, tm) \in BOOLEAN
BY DEF Watch

LEMMA BurstType == TypeOK => Burst \in Seq(Calls)
<1> SUFFICES ASSUME TypeOK PROVE Burst \in Seq(Calls)
  OBVIOUS
<1> DEFINE m == MinOf(BurstLen, NumCalls - MinOf(num_calls, NumCalls))
<1>1. m \in Nat /\ num_calls \in Nat
  BY ConnectionAssumption DEF TypeOK, MinOf
<1>2. \A k \in 1..m : num_calls + k \in Calls
  BY ConnectionAssumption, <1>1 DEF Calls, MinOf
<1>3. [k \in 1..m |-> num_calls + k] \in [1..m -> Calls]
  BY <1>2
<1>4. [k \in 1..m |-> num_calls + k] \in Seq(Calls)
  BY SMTT(30), <1>1, <1>3
<1> QED BY <1>4 DEF Burst

LEMMA UnitsType ==
  ASSUME NEW c \in Calls, NEW n \in Nat
  PROVE  Units(c, n) \in Seq(Calls)
<1>1. [k \in 1..n |-> c] \in [1..n -> Calls]
  OBVIOUS
<1>2. [k \in 1..n |-> c] \in Seq(Calls)
  BY <1>1
<1> QED BY <1>2 DEF Units

\* issue_calls fills the send queue and arms what the first request needs.
LEMMA IssueCallsType ==
  ASSUME TypeOK, NEW i \in SUBSET {"R", "W"}, NEW w \in BOOLEAN, IssueCalls(i, w)
  PROVE  /\ sendq' \in Seq(Calls) /\ timed' \in [Calls -> BOOLEAN]
         /\ interest' \subseteq {"R", "W"} /\ watchdog' \in BOOLEAN
         /\ num_calls' \in Nat /\ num_completed' = 0 /\ num_destroyed' = 0
<1>1. num_calls' \in Nat /\ num_completed' = 0 /\ num_destroyed' = 0
  BY ConnectionAssumption DEF TypeOK, IssueCalls, BurstStarts
<1>2. Burst \in Seq(Calls) /\ sendq' \in Seq(Calls)
  BY BurstType, ConcatProperties DEF TypeOK, IssueCalls
<1>3. CASE sendq = <<>> /\ Burst # <<>>
  <2>1. timed' \in [Calls -> BOOLEAN] /\ interest' = SetActive(i, "W")
         /\ watchdog' = Watch(w, Burst, recvq, timed')
    BY <1>3, ConnectionAssumption DEF IssueCalls, TypeOK
  <2>2. recvq # <<>> => Head(recvq) \in Calls
    BY DEF TypeOK
  <2>3. Head(Burst) \in Calls
    BY <1>2, <1>3
  <2>4. watchdog' \in BOOLEAN
    BY <2>1, <2>2, <2>3, WatchType
  <2> QED BY <1>1, <1>2, <2>1, <2>4, SetActiveType
<1>4. CASE ~(sendq = <<>> /\ Burst # <<>>)
  BY <1>1, <1>2, <1>4 DEF IssueCalls, TypeOK
<1> QED BY <1>3, <1>4

\* core_close of a connection whose counters agree: nothing is left behind.
LEMMA CoreCloseIsClean ==
  ASSUME TypeOK, NEW d \in Nat, d = num_completed, CoreClose(d)
  PROVE  /\ state' \in ClosedStates /\ sendq' = <<>> /\ recvq' = <<>>
         /\ watchdog' = FALSE /\ interest' = {}
         /\ num_destroyed' \in Nat /\ stray' = stray
         /\ link' = "closed" /\ tx' = <<>> /\ rx' = <<>> /\ fin' = FALSE
         /\ serving' = <<>> /\ part' = "none"
         /\ UNCHANGED <<held, left, timed, num_calls, num_completed, completed>>
<1>1. Len(sendq) \in Nat /\ Len(recvq) \in Nat /\ num_completed \in Nat
  BY DEF TypeOK
<1>2. \A n \in d + 1 .. d + Len(sendq) + Len(recvq) : ~GoesOn(n, num_completed)
  BY <1>1 DEF GoesOn
<1> QED BY <1>1, <1>2 DEF CoreClose, Unregister, ClosedStates, TypeOK

-----------------------------------------------------------------------------
LEMMA InitEstablishes == Init => IInv
<1> SUFFICES ASSUME Init PROVE IInv
  OBVIOUS
<1>1. TypeOK
  <2>1. <<>> \in Seq(Calls) /\ <<>> \in Seq(Piece)
    OBVIOUS
  <2>2. left \in [Calls -> 0..ReqSize] /\ timed \in [Calls -> BOOLEAN]
    BY ConnectionAssumption DEF Init
  <2>3. /\ sendq \in Seq(Calls) /\ recvq \in Seq(Calls) /\ buf \in Seq(Piece) /\ rx \in Seq(Piece)
        /\ tx \in Seq(Calls) /\ serving \in Seq(Calls)
    BY <2>1 DEF Init
  <2>4. /\ watchdog \in BOOLEAN /\ held \in BOOLEAN /\ stray \in BOOLEAN /\ fin \in BOOLEAN
    BY Zenon DEF Init
  <2>5. /\ num_calls \in Nat /\ num_completed \in Nat /\ num_destroyed \in Nat
        /\ count \in 0..2 /\ completed \subseteq Calls
    BY DEF Init
  <2> QED BY <2>2, <2>3, <2>4, <2>5 DEF Init, TypeOK, States
<1>2. ClosedIsQuiet /\ ThreadOK /\ Counted /\ NoCallOnClosing
  BY DEF Init, ClosedIsQuiet, ThreadOK, Counted, NoCallOnClosing, Open, States, OpenStates,
         ClosedStates, Destroying
<1> QED BY <1>1, <1>2 DEF IInv

\* Every action that ends in core_close.
LEMMA ClosingPreserves ==
  ASSUME IInv, state \notin ClosedStates, NEW d \in Nat, d = num_completed, CoreClose(d),
         at' \in {"loop", "again", "handle"}, UNCHANGED poll,
         at # "event", buf' \in Seq(Piece)
  PROVE  IInv'
<1>1. TypeOK /\ NoCallOnClosing
  BY DEF IInv
<1> DEFINE Left == /\ state' \in ClosedStates /\ sendq' = <<>> /\ recvq' = <<>>
                   /\ watchdog' = FALSE /\ interest' = {}
                   /\ num_destroyed' \in Nat /\ stray' = stray
                   /\ link' = "closed" /\ tx' = <<>> /\ rx' = <<>> /\ fin' = FALSE
                   /\ serving' = <<>> /\ part' = "none"
                   /\ UNCHANGED <<held, left, timed, num_calls, num_completed, completed>>
<1>2. Left
  BY <1>1, CoreCloseIsClean, Zenon
<1>3. TypeOK'
  <2>1. <<>> \in Seq(Calls) /\ <<>> \in Seq(Piece)
    OBVIOUS
  <2>2. /\ watchdog' \in BOOLEAN /\ held' \in BOOLEAN /\ stray' \in BOOLEAN /\ fin' \in BOOLEAN
    BY <1>1, <1>2, Zenon DEF TypeOK
  <2>3. /\ sendq' \in Seq(Calls) /\ recvq' \in Seq(Calls) /\ tx' \in Seq(Calls)
        /\ serving' \in Seq(Calls) /\ rx' \in Seq(Piece)
    BY <2>1, <1>2
  <2> QED BY <1>1, <1>2, <2>2, <2>3 DEF TypeOK, States, ClosedStates, poll
<1>4. ClosedIsQuiet' /\ NoCallOnClosing'
  BY <1>1, <1>2 DEF ClosedIsQuiet, NoCallOnClosing
<1>5. ThreadOK' /\ Counted'
  BY <1>2 DEF IInv, ThreadOK, Counted, ClosedStates, Open, OpenStates, poll
<1> QED BY <1>3, <1>4, <1>5 DEF IInv

\* Every action that leaves the connection as it is.
LEMMA QuietSteps ==
  ASSUME IInv, UNCHANGED conn,
         Poll \/ SkipEvent \/ (\E dir \in {"R", "W"} : Handle(dir)) \/ SendBlocks \/ ReadBlocks
  PROVE  IInv'
<1> USE DEF IInv, TypeOK, ClosedIsQuiet, ThreadOK, Counted, NoCallOnClosing, Open, States, OpenStates,
            ClosedStates, Destroying, conn, callseq, poll, net, wire
<1>1. CASE Poll
  <2>0. Events \subseteq {"R", "W"}
    BY DEF Events
  <2>1. /\ at = "loop" /\ at' = "event" /\ UNCHANGED <<conn, held, work, buf, net>>
        /\ ready' \subseteq {"R", "W"} /\ count' \in 0..2
        /\ Backend = "epoll" => count' = 1
    BY <1>1, <2>0 DEF Poll
  <2>2. state \notin ClosedStates
    BY <1>1 DEF Poll, Events
  <2>3. Open
    BY <2>1, <2>2
  <2> QED BY <2>1, <2>3
<1>2. CASE SkipEvent
  <2>1. at' \in {"again", "loop"} /\ count' \in 0..2 /\ at \in {"event", "again"} /\ count > 0
        /\ (Backend = "epoll" => count' = 0) /\ UNCHANGED <<conn, held, ready, work, buf, net>>
    BY <1>2 DEF SkipEvent, AtEvent
  <2> QED BY <2>1
<1>3. ASSUME NEW dir \in {"R", "W"}, Handle(dir) PROVE IInv'
  <2>1. /\ at = "handle" /\ UNCHANGED <<conn, held, ready, count, buf, net>>
        /\ at' \in {"handle", "send", "read"} /\ work' \subseteq {"R", "W"}
        /\ at' = "send" => sendq # <<>>
        /\ at' = "read" => recvq # <<>>
    BY <1>3 DEF Handle
  <2>2. at' # "handle" => Open
    BY <2>1
  <2> QED BY <2>1, <2>2
<1>4. CASE SendBlocks
  BY <1>4 DEF SendBlocks
<1>5. CASE ReadBlocks
  BY <1>5 DEF ReadBlocks
<1> QED BY <1>1, <1>2, <1>3, <1>4, <1>5

LEMMA ClosingSteps ==
  ASSUME IInv, ConnectFails \/ ConnTimeout \/ SendFails \/ ReadFails \/ LastBurstDone
  PROVE  IInv'
<1>1. CASE ConnectFails
  <2>1. state = "INITIAL" /\ ~Destroying /\ num_destroyed \in Nat
    BY <1>1 DEF IInv, TypeOK, ThreadOK, ConnectFails, Destroying
  <2>2. num_destroyed = num_completed
    BY <2>1 DEF IInv, TypeOK, Counted, ClosedStates
  <2> QED BY <1>1, <2>1, <2>2, ClosingPreserves DEF ConnectFails, ClosedStates, IInv, TypeOK
<1>2. CASE ConnTimeout
  <2>1. state \notin ClosedStates /\ ~Destroying /\ num_destroyed \in Nat
    BY <1>2 DEF IInv, TypeOK, ClosedIsQuiet, ClosedStates, ConnTimeout, Destroying
  <2>2. num_destroyed = num_completed
    BY <2>1 DEF IInv, TypeOK, Counted
  <2> QED BY <1>2, <2>1, <2>2, ClosingPreserves DEF ConnTimeout, IInv, TypeOK
<1>3. CASE SendFails \/ ReadFails
  <2>1. state \notin ClosedStates /\ ~Destroying /\ num_destroyed \in Nat
    BY <1>3 DEF IInv, TypeOK, ThreadOK, Open, OpenStates, ClosedStates, SendFails, ReadFails, Destroying
  <2>2. num_destroyed = num_completed
    BY <2>1 DEF IInv, TypeOK, Counted
  <2> QED BY <1>3, <2>1, <2>2, ClosingPreserves DEF SendFails, ReadFails, IInv, TypeOK
<1>4. CASE LastBurstDone
  <2>1. state \notin ClosedStates /\ Destroying /\ num_destroyed \in Nat /\ num_completed \in Nat
    BY <1>4 DEF IInv, TypeOK, ThreadOK, Open, OpenStates, ClosedStates, LastBurstDone, Destroying
  <2>2. num_destroyed + 1 = num_completed
    BY <2>1 DEF IInv, Counted
  <2>3. at # "event" /\ at' = "handle" /\ UNCHANGED poll /\ buf' \in Seq(Piece)
    BY <1>4 DEF LastBurstDone, Destroying
  <2>4. CoreClose(num_destroyed + 1)
    BY <1>4 DEF LastBurstDone
  <2> QED BY <2>1, <2>2, <2>3, <2>4, ClosingPreserves
<1> QED BY <1>1, <1>2, <1>3, <1>4

\* Every action that issues a burst.
LEMMA IssuingSteps ==
  ASSUME IInv, ConnectSucceeds \/ TakeEvent \/ NextBurst
  PROVE  IInv'
<1> USE DEF IInv, TypeOK, ClosedIsQuiet, ThreadOK, Counted, NoCallOnClosing, Open, States, OpenStates,
            ClosedStates, Destroying, conn, callseq, poll, net, wire
<1>1. CASE ConnectSucceeds
  <2>1. IssueCalls(interest, watchdog)
    BY <1>1 DEF ConnectSucceeds
  <2>2. /\ sendq' \in Seq(Calls) /\ timed' \in [Calls -> BOOLEAN]
        /\ interest' \subseteq {"R", "W"} /\ watchdog' \in BOOLEAN
        /\ num_calls' \in Nat /\ num_completed' = 0 /\ num_destroyed' = 0
    BY <2>1, IssueCallsType
  <2> QED BY <1>1, <2>2 DEF ConnectSucceeds
<1>2. CASE TakeEvent
  <2>1. /\ at \in {"event", "again"} /\ count > 0 /\ at' = "handle" /\ held' = TRUE
        /\ count' = count - 1 /\ work' \subseteq {"R", "W"}
        /\ UNCHANGED <<recvq, left, stray, completed, ready, buf, net>>
    BY <1>2 DEF TakeEvent, AtEvent, StillReady
  <2>2. Open
    <3>1. CASE at = "event"
      BY <3>1
    <3>2. CASE at = "again"
      <4>1. Backend = "select"
        BY <2>1, <3>2, ConnectionAssumption
      <4>2. interest # {} /\ at # "connect"
        BY <1>2, <3>2, <4>1 DEF TakeEvent, StillReady
      <4> QED BY <4>2
    <3> QED BY <2>1, <3>1, <3>2
  <2>3. CASE state = "CONNECTING" /\ "W" \in StillReady
    <3>1. state' = "CONNECTED" /\ IssueCalls(ClearActive(interest, "W"), FALSE)
      BY <1>2, <2>3 DEF TakeEvent
    <3>2. ClearActive(interest, "W") \in SUBSET {"R", "W"}
      BY SetActiveType
    <3>3. /\ sendq' \in Seq(Calls) /\ timed' \in [Calls -> BOOLEAN]
          /\ interest' \subseteq {"R", "W"} /\ watchdog' \in BOOLEAN
          /\ num_calls' \in Nat /\ num_completed' = 0 /\ num_destroyed' = 0
      BY <3>1, <3>2, IssueCallsType
    <3> QED BY <2>1, <2>2, <3>1, <3>3
  <2>4. CASE ~(state = "CONNECTING" /\ "W" \in StillReady)
    <3>1. watchdog' = FALSE /\ UNCHANGED <<state, sendq, interest, timed, callseq>>
      BY <1>2, <2>4 DEF TakeEvent
    <3>2. watchdog' \in BOOLEAN /\ held' \in BOOLEAN
      BY <2>1, <3>1, Zenon
    <3>3. TypeOK'
      BY <2>1, <3>1, <3>2
    <3> QED BY <2>1, <2>2, <3>1, <3>3
  <2> QED BY <2>3, <2>4
<1>3. CASE NextBurst
  <2>1. IssueCalls(interest, watchdog)
    BY <1>3 DEF NextBurst
  <2>2. /\ sendq' \in Seq(Calls) /\ timed' \in [Calls -> BOOLEAN]
        /\ interest' \subseteq {"R", "W"} /\ watchdog' \in BOOLEAN
        /\ num_calls' \in Nat /\ num_completed' = 0 /\ num_destroyed' = 0
    BY <2>1, IssueCallsType
  <2>3. /\ state' \in {state, "REPLY_STATUS"} /\ at' \in {"parse", "handle"}
        /\ at \in {"destroy", "destroy_eof"}
        /\ UNCHANGED <<recvq, held, left, stray, completed, poll, buf, net>>
    BY <1>3 DEF NextBurst, ResumeReceiving
  <2> QED BY <2>2, <2>3
<1> QED BY <1>1, <1>2, <1>3

LEMMA WritesType ==
  ASSUME IInv, NEW n \in 1..ReqSize, Writes(n)
  PROVE  /\ at = "send" /\ Open /\ sendq # <<>> /\ Head(sendq) \in Calls
         /\ tx' \in Seq(Calls) /\ left' \in [Calls -> 0..ReqSize]
<1>1. at = "send" /\ Open /\ sendq # <<>> /\ sendq \in Seq(Calls)
  BY DEF IInv, TypeOK, ThreadOK, Writes
<1>2. Head(sendq) \in Calls
  BY <1>1
<1>3. left' \in [Calls -> 0..ReqSize]
  BY SMTT(30), <1>2, ConnectionAssumption DEF Writes, IInv, TypeOK
<1>4. Units(Head(sendq), n) \in Seq(Calls)
  BY <1>2, UnitsType, ConnectionAssumption
<1>5. tx' \in Seq(Calls)
  BY <1>4, ConcatProperties DEF Writes, IInv, TypeOK
<1> QED BY <1>1, <1>2, <1>3, <1>5

LEMMA SendingSteps ==
  ASSUME IInv, NEW n \in 1..ReqSize, SendPart(n) \/ SendAll(n)
  PROVE  IInv'
<1> USE DEF IInv, TypeOK, ClosedIsQuiet, ThreadOK, Counted, NoCallOnClosing, Open, States, OpenStates,
            ClosedStates, Destroying, conn, callseq, poll, net, wire
<1>1. /\ at = "send" /\ Open /\ sendq # <<>> /\ Head(sendq) \in Calls
      /\ tx' \in Seq(Calls) /\ left' \in [Calls -> 0..ReqSize]
  BY WritesType DEF SendPart, SendAll
<1>2. CASE SendPart(n)
  <2>1. timed' \in [Calls -> BOOLEAN]
    BY <1>1, <1>2, ConnectionAssumption DEF SendPart
  <2>2. interest' \subseteq {"R", "W"}
    BY <1>2, SetActiveType DEF SendPart
  <2>3. recvq # <<>> => Head(recvq) \in Calls
    OBVIOUS
  <2>4. watchdog' \in BOOLEAN
    BY <1>1, <1>2, <2>1, <2>3, WatchType DEF SendPart
  <2> QED BY <1>1, <1>2, <2>1, <2>2, <2>4 DEF SendPart
<1>3. CASE SendAll(n)
  <2> DEFINE c == Head(sendq)
             sq == Tail(sendq)
             i == IF sq = <<>> THEN ClearActive(interest, "W") ELSE interest
  <2>1. /\ sq \in Seq(Calls) /\ sendq' = sq
        /\ recvq' \in Seq(Calls) /\ recvq' # <<>>
    <3>1. sq \in Seq(Calls) /\ sendq' = sq /\ recvq' = Append(recvq, c)
      BY <1>1, <1>3, HeadTailProperties DEF SendAll, Awaiting
    <3>2. c \in Calls /\ recvq \in Seq(Calls)
      BY <1>1
    <3> HIDE DEF c, sq
    <3>3. Append(recvq, c) \in Seq(Calls) /\ Append(recvq, c) # <<>>
      BY <3>2, AppendProperties
    <3> QED BY <3>1, <3>3
  <2>2. timed' \in [Calls -> BOOLEAN]
    BY <1>1, <1>3, ConnectionAssumption DEF SendAll
  <2>3. interest' \subseteq {"R", "W"}
    <3>1. i \in SUBSET {"R", "W"}
      BY SetActiveType
    <3> QED BY <1>3, <3>1, SetActiveType DEF SendAll
  <2>4. (sq # <<>> => Head(sq) \in Calls) /\ Head(recvq') \in Calls
    BY <2>1, HeadTailProperties
  <2>5. watchdog' \in BOOLEAN
    BY <1>3, <2>2, <2>4, WatchType DEF SendAll
  <2>6. /\ state' \in {state, "REPLY_STATUS"}
        /\ at' = (IF sq = <<>> THEN "handle" ELSE "send")
        /\ UNCHANGED <<held, callseq, stray, completed, poll, buf, link, wire>>
    BY <1>3 DEF SendAll
  <2> HIDE DEF c, sq, i
  <2> QED BY ZenonT(60), <1>1, <2>1, <2>2, <2>3, <2>5, <2>6
<1> QED BY <1>2, <1>3

\* A reply that ends: recv_done at the call whose handler runs.
LEMMA RecvDoneType ==
  ASSUME IInv, recvq # <<>>, RecvDone
  PROVE  /\ state' = "REPLY_DONE" /\ recvq' \in Seq(Calls) /\ interest' \subseteq {"R", "W"}
         /\ num_completed' = num_completed + 1 /\ completed' \subseteq Calls
BY HeadTailProperties, SetActiveType DEF IInv, TypeOK, RecvDone

LEMMA ReceivingSteps ==
  ASSUME IInv, ReadEnds \/ ParsePiece \/ RecvReturns \/ (\E n \in 1..RxMax : ReadData(n))
  PROVE  IInv'
<1> USE DEF IInv, TypeOK, ClosedIsQuiet, ThreadOK, Counted, NoCallOnClosing, Open, States, OpenStates,
            ClosedStates, Destroying, conn, callseq, poll, net, wire
<1>1. CASE ReadEnds
  <2>1. /\ state' = "REPLY_DONE" /\ recvq' \in Seq(Calls) /\ interest' \subseteq {"R", "W"}
        /\ num_completed' = num_completed + 1 /\ completed' \subseteq Calls
    BY <1>1, RecvDoneType DEF ReadEnds
  <2>2. /\ at = "read" /\ at' = "destroy_eof"
        /\ UNCHANGED <<sendq, watchdog, held, left, timed, num_calls, num_destroyed, stray, poll, buf, net>>
    BY <1>1 DEF ReadEnds
  <2> QED BY <2>1, <2>2
<1>2. CASE ParsePiece
  <2>1. /\ at = "parse" /\ Open /\ recvq # <<>> /\ buf' \in Seq(Piece)
        /\ UNCHANGED <<sendq, watchdog, held, left, num_calls, num_destroyed, stray, poll, net>>
    BY <1>2 DEF ParsePiece
  <2>2. timed' \in [Calls -> BOOLEAN]
    BY <1>2, ConnectionAssumption DEF ParsePiece
  <2>3. Head(buf).part \in {"head", "data", "end"}
    <3>1. Head(buf) \in Piece
      BY <1>2 DEF ParsePiece
    <3> QED BY <3>1 DEF Piece
  <2>4. CASE Head(buf).part = "end"
    <3>1. RecvDone /\ at' = "destroy"
      BY <1>2, <2>4 DEF ParsePiece
    <3>2. /\ state' = "REPLY_DONE" /\ recvq' \in Seq(Calls) /\ interest' \subseteq {"R", "W"}
          /\ num_completed' = num_completed + 1 /\ completed' \subseteq Calls
      BY <2>1, <3>1, RecvDoneType
    <3> QED BY <2>1, <2>2, <3>1, <3>2
  <2>5. CASE Head(buf).part # "end"
    <3>1. /\ state' \in {"REPLY_DATA", "REPLY_HEADER"}
          /\ UNCHANGED <<recvq, interest, num_completed, completed, at>>
      BY <1>2, <2>3, <2>5 DEF ParsePiece
    <3> QED BY <2>1, <2>2, <3>1
  <2> QED BY <2>4, <2>5
<1>3. CASE RecvReturns
  <2>1. /\ at = "parse" /\ at' = "handle"
        /\ UNCHANGED <<state, sendq, recvq, held, left, timed, callseq, stray, completed, poll, buf, net>>
    BY <1>3 DEF RecvReturns
  <2>2. interest' \subseteq {"R", "W"} /\ watchdog' \in BOOLEAN
    <3>1. CASE recvq # <<>>
      <4>1. Head(recvq) \in Calls /\ (sendq # <<>> => Head(sendq) \in Calls)
        BY <3>1
      <4>2. Watch(watchdog, sendq, recvq, timed) \in BOOLEAN
        BY <4>1, WatchType
      <4>3. interest' = SetActive(interest, "R") /\ watchdog' = Watch(watchdog, sendq, recvq, timed)
        BY <1>3, <3>1 DEF RecvReturns
      <4>4. interest' \subseteq {"R", "W"}
        BY <4>3, SetActiveType
      <4> QED BY <4>2, <4>3, <4>4, Zenon
    <3>2. CASE recvq = <<>>
      BY <1>3, <3>2 DEF RecvReturns
    <3> QED BY <3>1, <3>2
  <2> QED BY <2>1, <2>2
<1>4. ASSUME NEW n \in 1..RxMax, ReadData(n) PROVE IInv'
  <2>1. n \in Nat /\ n <= Len(rx)
    BY <1>4, ConnectionAssumption DEF ReadData
  <2>2. SubSeq(rx, 1, n) \in Seq(Piece) /\ SubSeq(rx, n + 1, Len(rx)) \in Seq(Piece)
    <3>1. \A k \in 1..n : rx[k] \in Piece
      BY <2>1
    <3>2. \A k \in n + 1 .. Len(rx) : rx[k] \in Piece
      BY <2>1
    <3> QED BY <2>1, <3>1, <3>2, SubSeqProperties
  <2>3. /\ at = "read" /\ at' = "parse" /\ buf' \in Seq(Piece) /\ rx' \in Seq(Piece)
        /\ UNCHANGED <<conn, held, poll, link, tx, fin, serving, part>>
    BY <1>4, <2>2 DEF ReadData
  <2> QED BY <2>3
<1> QED BY <1>1, <1>2, <1>3, <1>4

LEMMA OtherSteps ==
  ASSUME IInv, ConnectStarts \/ EventDone \/ BurstPending
  PROVE  IInv'
<1> USE DEF IInv, TypeOK, ClosedIsQuiet, ThreadOK, Counted, NoCallOnClosing, Open, States, OpenStates,
            ClosedStates, Destroying, conn, callseq, poll, net, wire
<1>1. CASE ConnectStarts
  <2>1. interest' \subseteq {"R", "W"}
    BY <1>1, SetActiveType DEF ConnectStarts
  <2>2. watchdog' \in BOOLEAN
    BY <1>1, ConnectionAssumption, Zenon DEF ConnectStarts
  <2> QED BY <1>1, <2>1, <2>2 DEF ConnectStarts
<1>2. CASE EventDone
  <2>1. held' \in BOOLEAN
    BY <1>2, Zenon DEF EventDone
  <2>2. count > 0 => Backend = "select"
    BY <1>2, ConnectionAssumption DEF EventDone
  <2> QED BY <1>2, <2>1, <2>2 DEF EventDone
<1>3. CASE BurstPending
  <2>1. /\ num_destroyed' = num_destroyed + 1
        /\ state' \in {state, "REPLY_STATUS"} /\ at' \in {"parse", "handle"} /\ Destroying
        /\ UNCHANGED <<sendq, watchdog, interest, timed, num_calls, num_completed>>
        /\ UNCHANGED <<recvq, held, left, stray, completed, poll, buf, net>>
    BY <1>3 DEF BurstPending, ResumeReceiving
  <2> QED BY <2>1
<1> QED BY <1>1, <1>2, <1>3

\* The kernel and the server touch neither the connection nor its thread.
LEMMA ServerSteps ==
  ASSUME IInv, Serving \/ Break \/ ServerCloses
  PROVE  IInv'
<1> USE DEF IInv, TypeOK, client, conn, callseq, poll, net, wire
<1>1. CASE Accept \/ Break \/ ServerCloses
  <2>1. /\ UNCHANGED client /\ tx' \in {tx, <<>>} /\ UNCHANGED <<rx, serving, part>>
        /\ link' \in {"up", "broken"} /\ link # "closed"
    BY <1>1 DEF Accept, Break, ServerCloses
  <2>2. tx' \in Seq(Calls)
    BY <2>1, EmptySeq
  <2>3. fin' \in BOOLEAN
    BY <1>1, Zenon DEF Accept, Break, ServerCloses
  <2>4. TypeOK'
    BY <2>1, <2>2, <2>3
  <2>5. ClosedIsQuiet' /\ Counted' /\ NoCallOnClosing'
    BY <2>1 DEF ClosedIsQuiet, Counted, NoCallOnClosing, Destroying
  <2>6. ThreadOK'
    BY <2>1 DEF ThreadOK, Open
  <2> QED BY <2>4, <2>5, <2>6
<1>2. CASE ServerReads
  <2>1. UNCHANGED <<client, link, rx, fin, part>>
    BY <1>2 DEF ServerReads
  <2>2. tx' \in Seq(Calls) /\ serving' \in Seq(Calls)
    BY <1>2, HeadTailProperties, AppendProperties DEF ServerReads
  <2> QED BY <2>1, <2>2 DEF ClosedIsQuiet, ThreadOK, Counted, NoCallOnClosing, Open, Destroying
<1>3. ASSUME NEW p \in {"head", "data", "end"}, ServerWrites(p) PROVE IInv'
  <2>1. UNCHANGED <<client, link, tx, fin>>
    BY <1>3 DEF ServerWrites
  <2>2. serving' \in Seq(Calls) /\ part' \in {"none", "head", "data"}
    <3>1. CASE p = "end"
      BY <1>3, <3>1, EmptySeq DEF ServerWrites
    <3>2. CASE p # "end"
      BY <1>3, <3>2 DEF ServerWrites
    <3> QED BY <3>1, <3>2
  <2>3. rx' \in Seq(Piece)
    <3>1. serving # <<>>
      BY <1>3, ConnectionAssumption DEF ServerWrites
    <3>2. [call |-> Head(serving), part |-> p] \in Piece
      BY <3>1, HeadTailProperties DEF Piece
    <3> QED BY <1>3, <3>2, AppendProperties DEF ServerWrites
  <2> QED BY <2>1, <2>2, <2>3 DEF ClosedIsQuiet, ThreadOK, Counted, NoCallOnClosing, Open, Destroying
<1> QED BY <1>1, <1>2, <1>3 DEF Serving

LEMMA StepPreserves == IInv /\ [Next]_vars => IInv'
<1> SUFFICES ASSUME IInv, [Next]_vars PROVE IInv'
  OBVIOUS
<1>1. CASE UNCHANGED vars
  BY <1>1 DEF vars, conn, callseq, poll, net, wire, IInv, TypeOK, ClosedIsQuiet, ThreadOK, Counted,
              NoCallOnClosing, Open, Destroying
<1>2. CASE Opening
  BY <1>2, ClosingSteps, IssuingSteps, OtherSteps DEF Opening
<1>3. CASE Looping
  BY <1>3, QuietSteps, IssuingSteps, OtherSteps DEF Looping, Poll, SkipEvent, Handle
<1>4. CASE ConnTimeout
  BY <1>4, ClosingSteps
<1>5. CASE Sending
  BY <1>5, QuietSteps, ClosingSteps, SendingSteps DEF Sending, SendBlocks
<1>6. CASE Receiving
  BY <1>6, QuietSteps, ClosingSteps, ReceivingSteps DEF Receiving, ReadBlocks
<1>7. CASE CallDestroyed
  BY <1>7, ClosingSteps, IssuingSteps, OtherSteps DEF CallDestroyed
<1>8. CASE Serving \/ Break \/ ServerCloses
  BY <1>8, ServerSteps
<1> QED BY <1>1, <1>2, <1>3, <1>4, <1>5, <1>6, <1>7, <1>8 DEF Next, Finished

-----------------------------------------------------------------------------
THEOREM Inductive == Spec => []IInv
BY InitEstablishes, StepPreserves, PTL DEF Spec

(* The engine keeps its state well-typed: no request is written beyond its *)
(* end, no handler takes a call from an empty queue (core.c:508, 660).     *)
THEOREM TypeCorrect == Spec => []TypeOK
BY Inductive, PTL DEF IInv

(* However a connection is closed, it leaves no call in its queues, no     *)
(* descriptor in the poll and no armed watchdog (core.c:1396-1474).        *)
THEOREM ClosedQuietly == Spec => []ClosedIsQuiet
BY Inductive, PTL DEF IInv

(* However many calls a closing connection destroys, call_destroyed takes  *)
(* none of them for the last of a completed burst (call_seq.c:120-127).    *)
THEOREM ClosingIssuesNothing == Spec => []NoCallOnClosing
BY Inductive, PTL DEF IInv
-----------------------------------------------------------------------------
(* What the poll waits for.  Nothing is queued before the connection is    *)
(* established.  With select the two directions are kept apart, so that    *)
(* each is polled exactly for the queue it serves; an epoll mask is        *)
(* replaced as a whole, and names one queue that is not empty.             *)
Listening ==
  /\ state \in {"INITIAL", "CONNECTING"} => sendq = <<>> /\ recvq = <<>>
  /\ state = "INITIAL" => interest = {}
  /\ Destroying => state = "REPLY_DONE"
  /\ Open /\ Backend = "select" =>
       /\ ("R" \in interest) <=> (recvq # <<>>)
       /\ ("W" \in interest) <=> (sendq # <<>> \/ state = "CONNECTING")
  /\ Open /\ Backend = "epoll" /\ Pending =>
       ("R" \in interest /\ recvq # <<>>) \/ ("W" \in interest /\ sendq # <<>>)

\* Connections that are closed have nothing to listen for.
LEMMA ClosedListens ==
  ASSUME state' \in ClosedStates, at' \notin {"destroy", "destroy_eof"}
  PROVE  Listening'
BY DEF Listening, ClosedStates, Open, OpenStates, Destroying

\* issue_calls, from the interest i, in a connection that leaves the states in
\* which nothing may be queued.
LEMMA IssuingListens ==
  ASSUME IInv, NEW i \in SUBSET {"R", "W"}, NEW w, IssueCalls(i, w), UNCHANGED recvq,
         state' \in OpenStates \ {"CONNECTING"}, at' \notin {"destroy", "destroy_eof"},
         Backend = "select" => /\ ("R" \in i) <=> (recvq # <<>>)
                               /\ ("W" \in i) <=> (sendq # <<>>),
         Backend = "epoll" /\ Pending =>
           ("R" \in i /\ recvq # <<>>) \/ ("W" \in i /\ sendq # <<>>)
  PROVE  Listening'
<1>1. /\ sendq \in Seq(Calls) /\ Burst \in Seq(Calls) /\ sendq' = sendq \o Burst
      /\ interest' = IF sendq = <<>> /\ Burst # <<>> THEN SetActive(i, "W") ELSE i
  BY BurstType DEF IInv, TypeOK, IssueCalls
<1>2. sendq' # <<>> <=> sendq # <<>> \/ Burst # <<>>
  BY <1>1, ConcatProperties, EmptySeq
<1>3. CASE Backend = "select"
  BY <1>1, <1>2, <1>3 DEF Listening, SetActive, Open, OpenStates, Destroying
<1>4. CASE Backend = "epoll"
  BY <1>1, <1>2, <1>4 DEF Listening, SetActive, Open, OpenStates, Destroying, Pending
<1> QED BY <1>3, <1>4, ConnectionAssumption

\* Steps that issue calls
LEMMA IssuingStepsListen ==
  ASSUME IInv, Listening, ConnectSucceeds \/ TakeEvent \/ NextBurst
  PROVE  Listening'
<1>0. interest \in SUBSET {"R", "W"} /\ ConnectionAssumption
  BY ConnectionAssumption DEF IInv, TypeOK
<1>1. CASE ConnectSucceeds
  <2>1. /\ state = "INITIAL" /\ interest = {} /\ sendq = <<>> /\ recvq = <<>>
        /\ state' = "CONNECTED" /\ at' = "loop" /\ UNCHANGED recvq
        /\ IssueCalls(interest, watchdog)
    BY <1>1 DEF IInv, ThreadOK, Listening, ConnectSucceeds
  <2> QED BY <1>0, <2>1, IssuingListens DEF OpenStates, Pending
<1>2. CASE TakeEvent
  <2>1. CASE state = "CONNECTING" /\ "W" \in StillReady
    <3>1. /\ state' = "CONNECTED" /\ at' = "handle" /\ UNCHANGED recvq
          /\ sendq = <<>> /\ recvq = <<>>
          /\ IssueCalls(ClearActive(interest, "W"), FALSE)
      BY <1>2, <2>1 DEF TakeEvent, Listening
    <3>2. /\ ClearActive(interest, "W") \in SUBSET {"R", "W"}
          /\ Backend = "select" => /\ "R" \notin ClearActive(interest, "W")
                                   /\ "W" \notin ClearActive(interest, "W")
      BY <1>0, <2>1, <3>1 DEF Listening, ClearActive, Other, Open, OpenStates
    <3> QED BY <3>1, <3>2, IssuingListens DEF OpenStates, Pending
  <2>2. CASE ~(state = "CONNECTING" /\ "W" \in StillReady)
    BY <1>2, <2>2 DEF TakeEvent, Listening, Open, Pending, Destroying
  <2> QED BY <2>1, <2>2
<1>3. CASE NextBurst
  <2>1. /\ state = "REPLY_DONE" /\ state' \in {"REPLY_DONE", "REPLY_STATUS"}
        /\ at' \in {"parse", "handle"} /\ UNCHANGED recvq
        /\ IssueCalls(interest, watchdog)
    BY <1>3 DEF NextBurst, ResumeReceiving, Listening, Destroying
  <2>2. /\ Backend = "select" => /\ ("R" \in interest) <=> (recvq # <<>>)
                                 /\ ("W" \in interest) <=> (sendq # <<>>)
        /\ Backend = "epoll" /\ Pending =>
             ("R" \in interest /\ recvq # <<>>) \/ ("W" \in interest /\ sendq # <<>>)
    BY <2>1 DEF Listening, Open, OpenStates
  <2> QED BY <1>0, <2>1, <2>2, IssuingListens DEF OpenStates
<1> QED BY <1>1, <1>2, <1>3

\* Steps that send a request, or part of it
LEMMA SendingStepsListen ==
  ASSUME IInv, Listening, NEW n \in 1..ReqSize, SendPart(n) \/ SendAll(n)
  PROVE  Listening'
<1>0. sendq \in Seq(Calls) /\ recvq \in Seq(Calls) /\ sendq # <<>> /\ Open
      /\ state \notin {"INITIAL", "CONNECTING"}
  BY DEF IInv, TypeOK, ThreadOK, Listening, SendPart, SendAll, Writes
<1>1. CASE SendPart(n)
  BY <1>0, <1>1, ConnectionAssumption
     DEF SendPart, Writes, Listening, SetActive, Open, Pending, Destroying
<1>2. CASE SendAll(n)
  <2>1. recvq' # <<>>
    <3>1. Head(sendq) \in Calls /\ recvq' = Append(recvq, Head(sendq))
      BY <1>0, <1>2, HeadTailProperties DEF SendAll, Awaiting
    <3> QED BY <1>0, <3>1, AppendProperties, EmptySeq
  <2>2. /\ sendq' = Tail(sendq)
        /\ interest' = SetActive(IF Tail(sendq) = <<>> THEN ClearActive(interest, "W")
                                 ELSE interest, "R")
        /\ state' \in OpenStates \ {"CONNECTING"}
        /\ at' \in {"handle", "send"}
    BY <1>0, <1>2 DEF SendAll, Open, OpenStates
  <2>3. CASE Backend = "select"
    BY <1>0, <2>1, <2>2, <2>3
       DEF Listening, SetActive, ClearActive, Other, Open, OpenStates, Destroying
  <2>4. CASE Backend = "epoll"
    BY <2>1, <2>2, <2>4 DEF Listening, SetActive, Open, OpenStates, Destroying
  <2> QED BY <2>3, <2>4, ConnectionAssumption
<1> QED BY <1>1, <1>2

\* The call of a complete reply leaves the receive queue.
LEMMA RecvDoneListens ==
  ASSUME IInv, Listening, recvq # <<>>, Open, RecvDone, UNCHANGED sendq
  PROVE  Listening'
<1>1. state \notin {"INITIAL", "CONNECTING"} /\ state' = "REPLY_DONE"
      /\ recvq' = Tail(recvq)
      /\ interest' = IF Tail(recvq) = <<>> THEN ClearActive(interest, "R") ELSE interest
  BY DEF Listening, RecvDone
<1>2. CASE Backend = "select"
  BY <1>1, <1>2 DEF Listening, ClearActive, Open, OpenStates
<1>3. CASE Backend = "epoll"
  BY <1>1, <1>3 DEF Listening, ClearActive, Other, Open, OpenStates, Pending
<1> QED BY <1>2, <1>3, ConnectionAssumption

\* Steps of do_recv
LEMMA ReceivingStepsListen ==
  ASSUME IInv, Listening, ReadEnds \/ ParsePiece \/ RecvReturns
  PROVE  Listening'
<1>1. CASE ReadEnds
  BY <1>1, RecvDoneListens DEF ReadEnds, IInv, ThreadOK
<1>2. CASE ParsePiece
  <2>1. recvq # <<>> /\ Open /\ UNCHANGED sendq /\ at = "parse"
    BY <1>2 DEF ParsePiece, IInv, ThreadOK
  <2>2. CASE Head(buf).part = "end"
    BY <1>2, <2>1, <2>2, RecvDoneListens DEF ParsePiece
  <2>3. CASE Head(buf).part # "end"
    <3>1. /\ state' \in {"REPLY_DATA", "REPLY_HEADER"}
          /\ UNCHANGED <<recvq, interest, at>>
      <4>1. Head(buf).part \in {"head", "data"}
        <5>1. Head(buf) \in Piece
          BY <1>2 DEF ParsePiece, IInv, TypeOK
        <5> QED BY <2>3, <5>1 DEF Piece
      <4> QED BY <1>2, <4>1 DEF ParsePiece
    <3> QED BY <2>1, <3>1 DEF Listening, Open, OpenStates, Pending, Destroying
  <2> QED BY <2>2, <2>3
<1>3. CASE RecvReturns
  BY <1>3, ConnectionAssumption
     DEF RecvReturns, Listening, SetActive, Open, OpenStates, Pending, Destroying, IInv, ThreadOK
<1> QED BY <1>1, <1>2, <1>3

LEMMA StepListens == IInv /\ Listening /\ [Next]_vars => Listening'
<1> SUFFICES ASSUME IInv, Listening, [Next]_vars PROVE Listening'
  OBVIOUS
<1>1. CASE UNCHANGED <<state, sendq, recvq, interest>> /\ (at' \in {"destroy", "destroy_eof"} => at' = at)
  BY <1>1 DEF Listening, Open, Pending, Destroying
<1>2. CASE ConnectFails \/ ConnTimeout \/ SendFails \/ ReadFails \/ LastBurstDone
  <2>1. state' \in ClosedStates
    BY <1>2 DEF ConnectFails, ConnTimeout, SendFails, ReadFails, LastBurstDone, CoreClose,
                ClosedStates
  <2>2. at' \notin {"destroy", "destroy_eof"}
    BY <1>2 DEF ConnectFails, ConnTimeout, SendFails, ReadFails, LastBurstDone
  <2> QED BY <2>1, <2>2, ClosedListens
<1>3. CASE ConnectStarts
  BY <1>3, ConnectionAssumption
     DEF ConnectStarts, Listening, SetActive, Open, OpenStates, Pending, Destroying, IInv, ThreadOK
<1>4. CASE EventDone
  BY <1>4 DEF EventDone, Listening, Open, OpenStates, Pending, Destroying
<1>5. CASE BurstPending
  BY <1>5 DEF BurstPending, ResumeReceiving, Listening, Open, OpenStates, Pending, Destroying
<1>6. CASE Serving \/ Break \/ ServerCloses
  BY <1>1, <1>6 DEF Serving, Break, ServerCloses, Accept, ServerReads, ServerWrites, client, conn
<1>7. CASE Poll \/ SkipEvent \/ (\E dir \in {"R", "W"} : Handle(dir))
  BY <1>1, <1>7 DEF Poll, SkipEvent, Handle, conn
<1>8. CASE SendBlocks \/ ReadBlocks \/ (\E n \in 1..RxMax : ReadData(n)) \/ UNCHANGED vars
  BY <1>1, <1>8 DEF SendBlocks, ReadBlocks, ReadData, conn, vars
<1> QED BY <1>2, <1>3, <1>4, <1>5, <1>6, <1>7, <1>8, IssuingStepsListen, SendingStepsListen,
           ReceivingStepsListen
        DEF Next, Opening, Looping, Sending, Receiving, CallDestroyed, Finished

THEOREM ListensInductive == Spec => []Listening
<1>1. Init => Listening
  BY DEF Init, Listening, Open, OpenStates, Pending, Destroying
<1> QED BY <1>1, StepListens, Inductive, PTL DEF Spec

(* Whatever the event loop, and however the requests of a burst are cut    *)
(* into writes, a connection with calls to serve is polled for a reply     *)
(* that is due or for room to send the next request.                       *)
THEOREM NeverDeaf == Spec => []ListensForProgress
<1>1. IInv /\ Listening => ListensForProgress
  BY ConnectionAssumption DEF IInv, Listening, ListensForProgress, Pending
<1> QED BY <1>1, ListensInductive, Inductive, PTL

(* With select a descriptor is polled for exactly what there is to do, so  *)
(* that core_loop neither spins nor sleeps over it.                        *)
THEOREM PolledExactly == Spec => [](Backend = "select" => PolledForItsWork)
<1>1. Listening => (Backend = "select" => PolledForItsWork)
  BY DEF Listening, PolledForItsWork
<1> QED BY <1>1, ListensInductive, PTL
-----------------------------------------------------------------------------
(* The queues in numbers: what is in flight is the end of the burst that   *)
(* was issued last, in order, first the calls that are sent and then those *)
(* that are not.  What has completed of the burst makes up its size, so    *)
(* that the next burst is issued when nothing is in flight.                *)
BurstSize == IF num_calls = 0 THEN 0 ELSE MinOf(BurstLen, NumCalls - (num_calls - BurstLen))

Issued == MinOf(num_calls, NumCalls)

InBurst ==
  state \notin ClosedStates =>
    /\ num_calls = 0 \/ (BurstLen <= num_calls /\ num_calls < NumCalls + BurstLen)
    /\ state \in {"INITIAL", "CONNECTING"} => num_calls = 0
    /\ num_completed + Len(recvq) + Len(sendq) = BurstSize
    /\ \A k \in 1..Len(recvq) : recvq[k] = Issued - Len(sendq) - Len(recvq) + k
    /\ \A k \in 1..Len(sendq) : sendq[k] = Issued - Len(sendq) + k

\* issue_calls with nothing in flight and calls left
LEMMA IssuingInBurst ==
  ASSUME IInv, BurstStarts, sendq' = sendq \o Burst, UNCHANGED recvq, sendq = <<>>, recvq = <<>>,
         num_calls < NumCalls, state' \notin {"INITIAL", "CONNECTING"},
         num_calls = 0 \/ BurstLen <= num_calls
  PROVE  InBurst'
<1> DEFINE m == MinOf(BurstLen, NumCalls - num_calls)
<1>1. num_calls \in Nat /\ NumCalls \in Nat \ {0} /\ BurstLen \in Nat \ {0}
  BY ConnectionAssumption DEF IInv, TypeOK
<1>2. m \in Nat /\ m = MinOf(BurstLen, NumCalls - Issued) /\ Issued = num_calls
  BY <1>1 DEF MinOf, Issued
<1>3. Burst \in Seq(Calls) /\ Len(Burst) = m /\ \A k \in 1..m : Burst[k] = num_calls + k
  BY <1>2, BurstType DEF Burst, Issued, IInv
<1>4. sendq' = Burst
  <2>1. sendq' = <<>> \o Burst
    OBVIOUS
  <2> QED BY <1>3, <2>1, ConcatProperties
<1>5. num_calls' = num_calls + BurstLen /\ num_completed' = 0 /\ Len(recvq') = 0
  BY DEF BurstStarts
<1>6. BurstSize' = m /\ Issued' = num_calls + m
  BY <1>1, <1>5 DEF BurstSize, Issued, MinOf
<1>7. Len(sendq') = m /\ \A k \in 1..m : sendq'[k] = Issued' - m + k
  BY <1>1, <1>2, <1>3, <1>4, <1>6
<1>8. num_completed' + Len(recvq') + Len(sendq') = BurstSize'
  BY <1>2, <1>5, <1>6, <1>7
<1>9. \A k \in 1..Len(recvq') : recvq'[k] = Issued' - Len(sendq') - Len(recvq') + k
  BY <1>5
<1>10. BurstLen <= num_calls' /\ num_calls' < NumCalls + BurstLen
  BY <1>1, <1>5
<1> HIDE DEF m
<1> QED BY <1>7, <1>8, <1>9, <1>10 DEF InBurst

\* The steps that leave queues and counters alone
LEMMA UnchangedInBurst ==
  ASSUME InBurst, UNCHANGED <<sendq, recvq, num_calls, num_completed>>,
         state' \in ClosedStates \/ (state \notin ClosedStates /\
           (state' \in {"INITIAL", "CONNECTING"} => num_calls = 0))
  PROVE  InBurst'
BY DEF InBurst, BurstSize, Issued

\* A burst is followed by another when nothing of it is in flight.
LEMMA NextBurstAlone ==
  ASSUME IInv, InBurst, state \notin ClosedStates, num_completed >= Threshold
  PROVE  sendq = <<>> /\ recvq = <<>> /\ (num_calls = 0 \/ BurstLen <= num_calls)
<1>0. NumCalls \in Nat \ {0} /\ BurstLen \in Nat \ {0} /\ num_calls \in Nat
      /\ sendq \in Seq(Calls) /\ recvq \in Seq(Calls) /\ num_completed \in Nat
  BY ConnectionAssumption DEF IInv, TypeOK
<1>1. /\ num_completed + Len(recvq) + Len(sendq) = BurstSize
      /\ num_calls = 0 \/ BurstLen <= num_calls
  BY DEF InBurst
<1>2. BurstSize <= Threshold
  BY <1>0, <1>1 DEF BurstSize, Threshold, MinOf
<1>3. Len(recvq) = 0 /\ Len(sendq) = 0
  BY <1>0, <1>1, <1>2 DEF Threshold, BurstSize, MinOf
<1> QED BY <1>0, <1>1, <1>3, EmptySeq

LEMMA IssuingStepsInBurst ==
  ASSUME IInv, Listening, InBurst, ConnectSucceeds \/ TakeEvent \/ NextBurst
  PROVE  InBurst'
<1>0. NumCalls \in Nat \ {0} /\ BurstLen \in Nat \ {0} /\ num_calls \in Nat
      /\ sendq \in Seq(Calls) /\ recvq \in Seq(Calls) /\ num_completed \in Nat
  BY ConnectionAssumption DEF IInv, TypeOK
<1>1. CASE ConnectSucceeds
  <2>1. /\ state = "INITIAL" /\ state' = "CONNECTED" /\ UNCHANGED recvq
        /\ BurstStarts /\ sendq' = sendq \o Burst
    BY <1>1 DEF IInv, ThreadOK, ConnectSucceeds, IssueCalls
  <2>2. sendq = <<>> /\ recvq = <<>> /\ num_calls = 0
    BY <2>1 DEF Listening, InBurst, ClosedStates
  <2> QED BY <1>0, <2>1, <2>2, IssuingInBurst
<1>2. CASE TakeEvent
  <2>1. CASE state = "CONNECTING" /\ "W" \in StillReady
    <3>1. /\ state' = "CONNECTED" /\ UNCHANGED recvq
          /\ BurstStarts /\ sendq' = sendq \o Burst
      BY <1>2, <2>1 DEF TakeEvent, IssueCalls
    <3>2. sendq = <<>> /\ recvq = <<>> /\ num_calls = 0
      BY <2>1 DEF Listening, InBurst, ClosedStates
    <3> QED BY <1>0, <3>1, <3>2, IssuingInBurst
  <2>2. CASE ~(state = "CONNECTING" /\ "W" \in StillReady)
    <3>1. UNCHANGED <<state, sendq, recvq, num_calls, num_completed>>
      BY <1>2, <2>2 DEF TakeEvent, callseq
    <3> QED BY <3>1, UnchangedInBurst DEF InBurst
  <2> QED BY <2>1, <2>2
<1>3. CASE NextBurst
  <2>1. /\ state = "REPLY_DONE" /\ state' \in {"REPLY_DONE", "REPLY_STATUS"}
        /\ UNCHANGED recvq /\ BurstStarts /\ sendq' = sendq \o Burst
        /\ num_completed >= Threshold /\ num_calls < NumCalls
    BY <1>3 DEF NextBurst, ResumeReceiving, Listening, Destroying, GoesOn, IssueCalls
  <2>2. sendq = <<>> /\ recvq = <<>> /\ (num_calls = 0 \/ BurstLen <= num_calls)
    BY <2>1, NextBurstAlone DEF ClosedStates
  <2> QED BY <2>1, <2>2, IssuingInBurst
<1> QED BY <1>1, <1>2, <1>3

\* The first call of sendq becomes the last of recvq.
LEMMA SendingInBurst ==
  ASSUME IInv, InBurst, NEW n \in 1..ReqSize, SendPart(n) \/ SendAll(n)
  PROVE  InBurst'
<1>0. sendq \in Seq(Calls) /\ recvq \in Seq(Calls) /\ sendq # <<>> /\ Open
      /\ num_calls \in Nat /\ num_completed \in Nat /\ NumCalls \in Nat
  BY ConnectionAssumption DEF IInv, TypeOK, ThreadOK, SendPart, SendAll, Writes
<1>1. CASE SendPart(n)
  BY <1>0, <1>1, UnchangedInBurst DEF SendPart, callseq, InBurst, ClosedStates, Open, OpenStates
<1>2. CASE SendAll(n)
  <2>1. /\ sendq' = Tail(sendq) /\ recvq' = Append(recvq, Head(sendq))
        /\ state' \notin {"INITIAL", "CONNECTING"} /\ UNCHANGED <<num_calls, num_completed>>
    BY <1>0, <1>2 DEF SendAll, Awaiting, callseq, Open, OpenStates
  <2>2. /\ Len(sendq') = Len(sendq) - 1 /\ Len(recvq') = Len(recvq) + 1
        /\ \A k \in 1..Len(sendq') : sendq'[k] = sendq[k + 1]
        /\ \A k \in 1..Len(recvq) : recvq'[k] = recvq[k]
        /\ recvq'[Len(recvq) + 1] = sendq[1]
        /\ Len(sendq) \in Nat \ {0} /\ Len(recvq) \in Nat
    BY <1>0, <2>1, HeadTailProperties, AppendProperties
  <2>3. Issued' = Issued /\ BurstSize' = BurstSize /\ Issued \in Nat /\ state \notin ClosedStates
    BY <1>0, <2>1 DEF Issued, BurstSize, MinOf, ClosedStates, Open, OpenStates
  <2>4. \A k \in 1..Len(recvq') : recvq'[k] = Issued' - Len(sendq') - Len(recvq') + k
    <3> SUFFICES ASSUME NEW k \in 1..Len(recvq')
                 PROVE  recvq'[k] = Issued' - Len(sendq') - Len(recvq') + k
      OBVIOUS
    <3>1. CASE k <= Len(recvq)
      BY <2>2, <2>3, <3>1 DEF InBurst
    <3>2. CASE k = Len(recvq) + 1
      BY <2>2, <2>3, <3>2 DEF InBurst
    <3> QED BY <2>2, <3>1, <3>2
  <2>5. \A k \in 1..Len(sendq') : sendq'[k] = Issued' - Len(sendq') + k
    BY <2>2, <2>3 DEF InBurst
  <2> QED BY <1>0, <2>1, <2>2, <2>3, <2>4, <2>5 DEF InBurst
<1> QED BY <1>1, <1>2

\* The first call of recvq has completed.
LEMMA RecvDoneInBurst ==
  ASSUME IInv, InBurst, recvq # <<>>, Open, RecvDone, UNCHANGED <<sendq, num_calls>>
  PROVE  InBurst'
<1>0. sendq \in Seq(Calls) /\ recvq \in Seq(Calls) /\ num_completed \in Nat
      /\ num_calls \in Nat /\ NumCalls \in Nat
  BY ConnectionAssumption DEF IInv, TypeOK
<1>1. /\ recvq' = Tail(recvq) /\ num_completed' = num_completed + 1 /\ state' = "REPLY_DONE"
      /\ state \notin ClosedStates
  BY DEF RecvDone, ClosedStates, Open, OpenStates
<1>2. /\ Len(recvq') = Len(recvq) - 1 /\ \A k \in 1..Len(recvq') : recvq'[k] = recvq[k + 1]
      /\ Len(recvq) \in Nat \ {0} /\ Len(sendq) \in Nat
  BY <1>0, <1>1, HeadTailProperties
<1>3. Issued' = Issued /\ BurstSize' = BurstSize /\ Issued \in Nat
  BY <1>0 DEF Issued, BurstSize, MinOf
<1>4. \A k \in 1..Len(recvq') : recvq'[k] = Issued' - Len(sendq') - Len(recvq') + k
  BY <1>1, <1>2, <1>3 DEF InBurst
<1> QED BY <1>0, <1>1, <1>2, <1>3, <1>4 DEF InBurst

LEMMA StepInBurst == IInv /\ Listening /\ InBurst /\ [Next]_vars => InBurst'
<1> SUFFICES ASSUME IInv, Listening, InBurst, [Next]_vars PROVE InBurst'
  OBVIOUS
<1>1. CASE UNCHANGED <<state, sendq, recvq, num_calls, num_completed>>
  BY <1>1, UnchangedInBurst DEF InBurst
<1>2. CASE ConnectFails \/ ConnTimeout \/ SendFails \/ ReadFails \/ LastBurstDone
  <2>1. state' \in ClosedStates
    BY <1>2 DEF ConnectFails, ConnTimeout, SendFails, ReadFails, LastBurstDone, CoreClose,
                ClosedStates
  <2> QED BY <2>1 DEF InBurst
<1>3. CASE ConnectStarts
  <2>1. state = "INITIAL" /\ UNCHANGED <<sendq, recvq, num_calls, num_completed>>
        /\ state' = "CONNECTING"
    BY <1>3 DEF ConnectStarts, callseq, IInv, ThreadOK
  <2> QED BY <2>1, UnchangedInBurst DEF InBurst, ClosedStates
<1>4. CASE EventDone
  <2>1. UNCHANGED <<sendq, recvq, num_calls, num_completed>>
        /\ (UNCHANGED state \/ state' \in ClosedStates)
    BY <1>4 DEF EventDone, callseq, ClosedStates
  <2> QED BY <2>1, UnchangedInBurst DEF InBurst
<1>5. CASE BurstPending
  <2>1. /\ UNCHANGED <<sendq, recvq, num_calls, num_completed>>
        /\ state = "REPLY_DONE" /\ state' \in {"REPLY_DONE", "REPLY_STATUS"}
    BY <1>5 DEF BurstPending, ResumeReceiving, Listening, Destroying
  <2> QED BY <2>1, UnchangedInBurst DEF ClosedStates
<1>6. CASE Serving \/ Break \/ ServerCloses
  BY <1>1, <1>6 DEF Serving, Break, ServerCloses, Accept, ServerReads, ServerWrites, client,
                    conn, callseq
<1>7. CASE Poll \/ SkipEvent \/ (\E dir \in {"R", "W"} : Handle(dir))
  BY <1>1, <1>7 DEF Poll, SkipEvent, Handle, conn, callseq
<1>8. CASE SendBlocks \/ ReadBlocks \/ (\E n \in 1..RxMax : ReadData(n)) \/ UNCHANGED vars
  BY <1>1, <1>8 DEF SendBlocks, ReadBlocks, ReadData, conn, callseq, vars
<1>9. CASE RecvReturns
  BY <1>1, <1>9 DEF RecvReturns, callseq
<1>10. CASE ReadEnds
  BY <1>10, RecvDoneInBurst DEF ReadEnds, IInv, ThreadOK
<1>11. CASE ParsePiece
  <2>1. recvq # <<>> /\ Open /\ UNCHANGED <<sendq, num_calls>> /\ Head(buf) \in Piece
    BY <1>11 DEF ParsePiece, IInv, ThreadOK, TypeOK
  <2>2. CASE Head(buf).part = "end"
    BY <1>11, <2>1, <2>2, RecvDoneInBurst DEF ParsePiece
  <2>3. CASE Head(buf).part # "end"
    <3>1. Head(buf).part \in {"head", "data"}
      BY <2>1, <2>3 DEF Piece
    <3>2. state' \in {"REPLY_DATA", "REPLY_HEADER"} /\ UNCHANGED <<recvq, num_completed>>
      BY <1>11, <3>1 DEF ParsePiece
    <3> QED BY <2>1, <3>2, UnchangedInBurst DEF ClosedStates, Open, OpenStates
  <2> QED BY <2>2, <2>3
<1> QED BY <1>2, <1>3, <1>4, <1>5, <1>6, <1>7, <1>8, <1>9, <1>10, <1>11, IssuingStepsInBurst,
           SendingInBurst
        DEF Next, Opening, Looping, Sending, Receiving, CallDestroyed, Finished

\* The queues stay in step with the burst.
THEOREM BurstInductive == Spec => []InBurst
<1>1. Init => InBurst
  BY ConnectionAssumption DEF Init, InBurst, BurstSize
<1> QED BY <1>1, StepInBurst, Inductive, ListensInductive, PTL DEF Spec

(* A connection knows how much of a burst is left, however its requests    *)
(* and replies are cut and overlap: the calls in flight are the last ones  *)
(* issued, in order and never more than a burst.                           *)
THEOREM BurstsAreKept == Spec => []BurstAccounting
<1>1. IInv /\ InBurst => BurstAccounting
  <2> SUFFICES ASSUME IInv, InBurst, Open, ~Destroying
               PROVE  BurstAccounting
    BY DEF BurstAccounting
  <2>0. sendq \in Seq(Calls) /\ recvq \in Seq(Calls) /\ state \notin ClosedStates
        /\ num_calls \in Nat /\ num_completed \in Nat /\ NumCalls \in Nat /\ BurstLen \in Nat
    BY ConnectionAssumption DEF IInv, TypeOK, ClosedStates, Open, OpenStates
  <2> DEFINE inflight == recvq \o sendq
  <2>1. /\ Len(inflight) = Len(recvq) + Len(sendq)
        /\ \A k \in 1..Len(inflight) :
             inflight[k] = IF k <= Len(recvq) THEN recvq[k] ELSE sendq[k - Len(recvq)]
    BY <2>0, ConcatProperties
  <2>2. \A k \in 1..Len(inflight) : inflight[k] = Issued - Len(inflight) + k
    <3> SUFFICES ASSUME NEW k \in 1..Len(inflight)
                 PROVE  inflight[k] = Issued - Len(inflight) + k
      OBVIOUS
    <3>0. Issued \in Int /\ Len(recvq) \in Nat /\ Len(sendq) \in Nat
      BY <2>0 DEF Issued, MinOf
    <3>1. CASE k <= Len(recvq)
      BY <2>0, <2>1, <3>0, <3>1 DEF InBurst
    <3>2. CASE k > Len(recvq)
      <4>1. k - Len(recvq) \in 1..Len(sendq) /\ inflight[k] = sendq[k - Len(recvq)]
        BY <2>1, <3>0, <3>2
      <4>2. inflight[k] = Issued - Len(sendq) + (k - Len(recvq))
        BY <2>0, <4>1 DEF InBurst
      <4> QED BY <2>1, <3>0, <4>2
    <3> QED BY <3>0, <3>1, <3>2
  <2>3. num_completed = num_destroyed
    BY <2>0 DEF IInv, Counted, TypeOK
  <2>4. Len(inflight) <= BurstLen
    BY <2>0, <2>1 DEF InBurst, BurstSize, MinOf
  <2> QED BY <2>2, <2>3, <2>4 DEF BurstAccounting, Issued
<1> QED BY <1>1, BurstInductive, Inductive, PTL
=============================================================================
