------------------------ MODULE ConnectionLifeProofs ------------------------
(***************************************************************************)
(* The life of a call, and how long it may take.  Connection implements    *)
(* Pipeline: calls are issued, sent and answered in order and end once,    *)
(* for any number of calls, any bursts and any cutting of requests and     *)
(* replies.  And with epoll and --timeout no wait goes unwatched.          *)
(***************************************************************************)
EXTENDS ConnectionStreamProofs

\* The calls up to Base are answered, those up to SentTo sent, those up to
\* Issued issued.
Base == SentTo - Len(recvq)

Numbered == state \notin ClosedStates => completed = {c \in Calls : c <= Base}

\* The phase of a call of an open connection, by its number.
Stage(c) == IF c <= Base THEN "completed"
            ELSE IF c <= SentTo THEN "sent"
            ELSE IF c <= Issued THEN "queued"
            ELSE "new"

NumbersOK == /\ Base \in Nat /\ SentTo \in Nat /\ Issued \in Nat /\ NumCalls \in Nat
             /\ Base <= SentTo /\ SentTo <= Issued /\ Issued <= NumCalls
             /\ Len(recvq) = SentTo - Base /\ Len(sendq) = Issued - SentTo

LEMMA NumbersType == IInv /\ InBurst /\ state \notin ClosedStates => NumbersOK
<1> SUFFICES ASSUME IInv, InBurst, state \notin ClosedStates PROVE NumbersOK
  OBVIOUS
<1>1. /\ Len(sendq) \in Nat /\ Len(recvq) \in Nat /\ num_calls \in Nat /\ num_completed \in Nat
      /\ NumCalls \in Nat \ {0} /\ BurstLen \in Nat \ {0}
  BY ConnectionAssumption DEF IInv, TypeOK
<1>2. Issued \in Nat /\ Issued <= NumCalls
  BY <1>1 DEF Issued, MinOf
<1>3. BurstSize <= Issued
  BY <1>1 DEF InBurst, BurstSize, Issued, MinOf
<1>4. Len(sendq) + Len(recvq) <= Issued
  BY <1>1, <1>2, <1>3 DEF InBurst, BurstSize, MinOf
<1> QED BY <1>1, <1>2, <1>4 DEF NumbersOK, SentTo, Base

LEMMA NumbersTypeAfter == (IInv /\ InBurst /\ state \notin ClosedStates)' => NumbersOK'
BY NumbersType, PTL

\* What PhaseOf reads off the queues, in numbers.
PhasesAreStages == \A c \in Calls : PhaseOf(c) = Stage(c)

LEMMA PhaseByNumber ==
  IInv /\ InBurst /\ Numbered /\ state \notin ClosedStates => PhasesAreStages
<1> SUFFICES ASSUME IInv, InBurst, Numbered, state \notin ClosedStates, NEW c \in Calls
             PROVE  PhaseOf(c) = Stage(c)
  BY DEF PhasesAreStages
<1>1. /\ Base \in Nat /\ SentTo \in Nat /\ Issued \in Nat
      /\ Base <= SentTo /\ SentTo <= Issued
      /\ Len(recvq) = SentTo - Base /\ Len(sendq) = Issued - SentTo
  BY NumbersType DEF NumbersOK
<1>2. c \in Nat /\ c <= NumCalls /\ num_calls \in Nat /\ NumCalls \in Nat
  BY ConnectionAssumption DEF Calls, IInv, TypeOK
<1>3. Queued(c, sendq) <=> SentTo < c /\ c <= Issued
  <2>1. \A k \in 1..Len(sendq) : sendq[k] = SentTo + k
    BY <1>1 DEF InBurst
  <2>2. SentTo < c /\ c <= Issued => c - SentTo \in 1..Len(sendq) /\ sendq[c - SentTo] = c
    BY <1>1, <1>2, <2>1
  <2> QED BY <1>1, <1>2, <2>1, <2>2 DEF Queued
<1>4. Queued(c, recvq) <=> Base < c /\ c <= SentTo
  <2>1. \A k \in 1..Len(recvq) : recvq[k] = Base + k
    BY <1>1 DEF InBurst
  <2>2. Base < c /\ c <= SentTo => c - Base \in 1..Len(recvq) /\ recvq[c - Base] = c
    BY <1>1, <1>2, <2>1
  <2> QED BY <1>1, <1>2, <2>1, <2>2 DEF Queued
<1>5. c <= num_calls <=> c <= Issued
  BY <1>2 DEF Issued, MinOf
<1>6. c \in completed <=> c <= Base
  BY DEF Numbered
<1> QED BY <1>1, <1>2, <1>3, <1>4, <1>5, <1>6 DEF PhaseOf, Stage

LEMMA PhaseByNumberAfter ==
  (IInv /\ InBurst /\ Numbered /\ state \notin ClosedStates)' => PhasesAreStages'
BY PhaseByNumber, PTL

-----------------------------------------------------------------------------
(* What a step does to the queues: it leaves them alone, or it issues a     *)
(* burst, moves a call from one to the other or takes one off, or it closes *)
(* the connection.                                                          *)
Issues == /\ sendq = <<>> /\ recvq = <<>> /\ sendq' = sendq \o Burst /\ num_calls < NumCalls
          /\ num_calls' = num_calls + BurstLen
          /\ UNCHANGED <<recvq, completed>>

Sends == /\ sendq # <<>> /\ sendq' = Tail(sendq) /\ recvq' = Append(recvq, Head(sendq))
         /\ UNCHANGED <<num_calls, completed>>

Completes == /\ recvq # <<>> /\ recvq' = Tail(recvq)
             /\ completed' = completed \cup {Head(recvq)}
             /\ UNCHANGED <<sendq, num_calls>>

Closes == /\ state \notin ClosedStates /\ state' \in ClosedStates
          /\ sendq' = <<>> /\ recvq' = <<>>
          /\ UNCHANGED <<num_calls, completed>>

Keeps == /\ UNCHANGED <<sendq, recvq, num_calls, completed>>
         /\ (state \in ClosedStates) <=> (state' \in ClosedStates)

Moves == Issues \/ Sends \/ Completes

LEMMA IssuingMoves ==
  ASSUME IInv, Listening, InBurst, ConnectSucceeds \/ TakeEvent \/ NextBurst
  PROVE  Keeps \/ (state \notin ClosedStates /\ state' \notin ClosedStates /\ Issues)
<1>1. CASE ConnectSucceeds
  <2>1. /\ state = "INITIAL" /\ state' = "CONNECTED" /\ UNCHANGED <<recvq, completed>>
        /\ num_calls' = num_calls + BurstLen /\ sendq' = sendq \o Burst
    BY <1>1 DEF IInv, ThreadOK, ConnectSucceeds, IssueCalls, BurstStarts
  <2>2. sendq = <<>> /\ recvq = <<>> /\ num_calls = 0
    BY <2>1 DEF Listening, InBurst, ClosedStates
  <2> QED BY <2>1, <2>2, ConnectionAssumption DEF Issues, ClosedStates
<1>2. CASE TakeEvent
  <2>1. CASE state = "CONNECTING" /\ "W" \in StillReady
    <3>1. /\ state' = "CONNECTED" /\ UNCHANGED <<recvq, completed>>
          /\ num_calls' = num_calls + BurstLen /\ sendq' = sendq \o Burst
      BY <1>2, <2>1 DEF TakeEvent, IssueCalls, BurstStarts
    <3>2. sendq = <<>> /\ recvq = <<>> /\ num_calls = 0
      BY <2>1 DEF Listening, InBurst, ClosedStates
    <3> QED BY <2>1, <3>1, <3>2, ConnectionAssumption DEF Issues, ClosedStates
  <2>2. CASE ~(state = "CONNECTING" /\ "W" \in StillReady)
    BY <1>2, <2>2 DEF TakeEvent, callseq, Keeps
  <2> QED BY <2>1, <2>2
<1>3. CASE NextBurst
  <2>1. /\ state = "REPLY_DONE" /\ state' \in {"REPLY_DONE", "REPLY_STATUS"}
        /\ UNCHANGED <<recvq, completed>> /\ sendq' = sendq \o Burst
        /\ num_calls' = num_calls + BurstLen
        /\ num_completed >= Threshold /\ num_calls < NumCalls
    BY <1>3 DEF NextBurst, ResumeReceiving, Listening, Destroying, GoesOn, IssueCalls, BurstStarts
  <2>2. sendq = <<>> /\ recvq = <<>>
    BY <2>1, NextBurstAlone DEF ClosedStates
  <2> QED BY <2>1, <2>2 DEF Issues, ClosedStates
<1> QED BY <1>1, <1>2, <1>3

LEMMA StepMoves ==
  ASSUME IInv, Listening, InBurst, [Next]_vars
  PROVE  Keeps \/ Closes \/ (state \notin ClosedStates /\ state' \notin ClosedStates /\ Moves)
<1>1. CASE UNCHANGED <<state, sendq, recvq, num_calls, completed>>
  BY <1>1 DEF Keeps
<1>2. CASE ConnectFails \/ ConnTimeout \/ SendFails \/ ReadFails \/ LastBurstDone
  <2>1. /\ state' \in ClosedStates /\ sendq' = <<>> /\ recvq' = <<>>
        /\ UNCHANGED <<num_calls, completed>>
    BY <1>2 DEF ConnectFails, ConnTimeout, SendFails, ReadFails, LastBurstDone, CoreClose,
                ClosedStates
  <2>2. state \notin ClosedStates
    BY <1>2 DEF ConnectFails, ConnTimeout, SendFails, ReadFails, LastBurstDone, Destroying,
                IInv, ThreadOK, ClosedIsQuiet, ClosedStates, Open, OpenStates
  <2> QED BY <2>1, <2>2 DEF Closes
<1>3. CASE ConnectStarts \/ EventDone \/ BurstPending
  BY <1>3 DEF ConnectStarts, EventDone, BurstPending, ResumeReceiving, callseq, Keeps,
              ClosedStates, IInv, ThreadOK, Destroying, Open, OpenStates
<1>4. CASE Serving \/ Break \/ ServerCloses
  BY <1>1, <1>4 DEF Serving, Break, ServerCloses, Accept, ServerReads, ServerWrites, client,
                    conn, callseq
<1>5. CASE Poll \/ SkipEvent \/ (\E dir \in {"R", "W"} : Handle(dir))
  BY <1>1, <1>5 DEF Poll, SkipEvent, Handle, conn, callseq
<1>6. CASE SendBlocks \/ ReadBlocks \/ (\E n \in 1..RxMax : ReadData(n)) \/ UNCHANGED vars
  BY <1>1, <1>6 DEF SendBlocks, ReadBlocks, ReadData, conn, callseq, vars
<1>7. CASE RecvReturns \/ (\E n \in 1..ReqSize : SendPart(n))
  BY <1>1, <1>7 DEF RecvReturns, SendPart, callseq
<1>8. ASSUME NEW n \in 1..ReqSize, SendAll(n)
      PROVE  state \notin ClosedStates /\ state' \notin ClosedStates /\ Moves
  BY <1>8 DEF SendAll, Writes, Awaiting, callseq, IInv, ThreadOK, Open, OpenStates, ClosedStates,
              Moves, Sends
<1>9. CASE ReadEnds
  BY <1>9 DEF ReadEnds, RecvDone, IInv, ThreadOK, Open, OpenStates, ClosedStates, Moves, Completes
<1>10. CASE ParsePiece
  <2>1. recvq # <<>> /\ Open /\ UNCHANGED <<sendq, num_calls>> /\ Head(buf) \in Piece
    BY <1>10 DEF ParsePiece, IInv, ThreadOK, TypeOK
  <2>2. CASE Head(buf).part = "end"
    <3>1. RecvDone
      BY <1>10, <2>2 DEF ParsePiece
    <3> QED BY <2>1, <3>1 DEF RecvDone, Open, OpenStates, ClosedStates, Moves, Completes
  <2>3. CASE Head(buf).part # "end"
    <3>1. Head(buf).part \in {"head", "data"}
      BY <2>1, <2>3 DEF Piece
    <3>2. state' \in {"REPLY_DATA", "REPLY_HEADER"} /\ UNCHANGED <<recvq, completed>>
      BY <1>10, <3>1 DEF ParsePiece
    <3> QED BY <2>1, <3>2 DEF Keeps, ClosedStates, Open, OpenStates
  <2> QED BY <2>2, <2>3
<1> QED BY <1>2, <1>3, <1>4, <1>5, <1>6, <1>7, <1>8, <1>9, <1>10, IssuingMoves
        DEF Next, Opening, Looping, Sending, Receiving, CallDestroyed, Finished, Moves

-----------------------------------------------------------------------------
\* The numbers after each of these.

LEMMA IssuesByNumber ==
  ASSUME IInv, InBurst, state \notin ClosedStates, Issues
  PROVE  Base' = Base /\ SentTo' = SentTo /\ Issued' \in Nat /\ Issued' > Issued
<1>0. /\ num_calls \in Nat /\ NumCalls \in Nat \ {0} /\ BurstLen \in Nat \ {0}
      /\ num_calls < NumCalls /\ num_calls' = num_calls + BurstLen
      /\ Len(sendq) = 0 /\ Len(recvq) = 0 /\ Len(recvq') = 0
  BY ConnectionAssumption, EmptySeq DEF IInv, TypeOK, Issues
<1> DEFINE m == MinOf(BurstLen, NumCalls - num_calls)
<1>1. Burst \in Seq(Calls) /\ Len(Burst) = m /\ m \in Nat \ {0}
  BY <1>0, BurstType DEF Burst, MinOf, IInv
<1>2. Len(sendq') = m
  <2>1. sendq' = <<>> \o Burst
    BY DEF Issues
  <2> QED BY <1>1, <2>1, ConcatProperties
<1>3. Issued = num_calls /\ Issued' = num_calls + m
  BY <1>0 DEF Issued, MinOf
<1> HIDE DEF m
<1> QED BY <1>0, <1>1, <1>2, <1>3 DEF SentTo, Base

LEMMA SendsByNumber ==
  ASSUME IInv, InBurst, state \notin ClosedStates, Sends
  PROVE  Base' = Base /\ SentTo' = SentTo + 1 /\ Issued' = Issued
<1>0. sendq \in Seq(Calls) /\ recvq \in Seq(Calls) /\ NumbersOK
  BY NumbersType DEF IInv, TypeOK
<1>1. Len(sendq') = Len(sendq) - 1 /\ Len(recvq') = Len(recvq) + 1 /\ Issued' = Issued
  BY <1>0, HeadTailProperties, AppendProperties DEF Sends, Issued
<1> QED BY <1>0, <1>1 DEF SentTo, Base, NumbersOK

LEMMA CompletesByNumber ==
  ASSUME IInv, InBurst, state \notin ClosedStates, Completes
  PROVE  Base' = Base + 1 /\ SentTo' = SentTo /\ Issued' = Issued /\ Head(recvq) = Base + 1
<1>0. recvq \in Seq(Calls) /\ recvq # <<>> /\ NumbersOK
  BY NumbersType DEF IInv, TypeOK, Completes
<1>1. Len(recvq) \in Nat \ {0} /\ Len(recvq') = Len(recvq) - 1 /\ Issued' = Issued
  BY <1>0, HeadTailProperties DEF Completes, Issued
<1>2. SentTo' = SentTo
  BY DEF Completes, SentTo, Issued
<1>3. Head(recvq) = Base + 1
  BY <1>0, <1>1 DEF InBurst, NumbersOK, Base, SentTo
<1> QED BY <1>0, <1>1, <1>2, <1>3 DEF Base, NumbersOK

LEMMA StepNumbered == IInv /\ Listening /\ InBurst /\ Numbered /\ [Next]_vars => Numbered'
<1> SUFFICES ASSUME IInv, Listening, InBurst, Numbered, [Next]_vars, state' \notin ClosedStates
             PROVE  completed' = {c \in Calls : c <= Base'}
  BY DEF Numbered
<1>1. CASE Keeps
  BY <1>1 DEF Keeps, Numbered, Base, SentTo, Issued
<1>2. CASE state \notin ClosedStates /\ Issues
  BY <1>2, IssuesByNumber DEF Issues, Numbered
<1>3. CASE state \notin ClosedStates /\ Sends
  BY <1>3, SendsByNumber DEF Sends, Numbered
<1>4. CASE state \notin ClosedStates /\ Completes
  <2>0. recvq # <<>> /\ recvq \in Seq(Calls)
    BY <1>4 DEF Completes, IInv, TypeOK
  <2>1. Base \in Nat /\ Base' = Base + 1 /\ Head(recvq) = Base + 1 /\ Head(recvq) \in Calls
    BY <1>4, <2>0, CompletesByNumber, NumbersType DEF NumbersOK
  <2>2. completed' = {c \in Calls : c <= Base} \cup {Base + 1}
    BY <1>4, <2>1 DEF Completes, Numbered
  <2> QED BY <2>1, <2>2 DEF Calls
<1> QED BY <1>1, <1>2, <1>3, <1>4, StepMoves DEF Closes, Moves

\* What has completed are the calls up to the first in flight.
THEOREM NumberedInductive == Spec => []Numbered
<1>1. Init => Numbered
  BY ConnectionAssumption DEF Init, Numbered, Base, SentTo, Issued, MinOf, Calls
<1> QED BY <1>1, StepNumbered, Inductive, ListensInductive, BurstInductive, PTL DEF Spec

-----------------------------------------------------------------------------
\* The step of Pipeline that each of them is.

LEMMA IssuesRefines ==
  ASSUME IInv, InBurst, Numbered, IInv', InBurst', Numbered',
         state \notin ClosedStates, state' \notin ClosedStates, Issues
  PROVE  Life!Next
<1>1. /\ Base' = Base /\ SentTo' = SentTo /\ Issued' > Issued
      /\ NumbersOK /\ NumbersOK' /\ PhasesAreStages /\ PhasesAreStages'
  BY IssuesByNumber, NumbersType, NumbersTypeAfter, PhaseByNumber, PhaseByNumberAfter
<1> DEFINE C == {c \in Calls : Issued < c /\ c <= Issued'}
<1>2. \A c \in Calls : /\ PhaseOf(c) = "new" <=> c > Issued
                       /\ PhaseOf(c)' = IF c \in C THEN "queued" ELSE PhaseOf(c)
  BY <1>1 DEF PhasesAreStages, Stage, NumbersOK, Calls
<1>3. Issued + 1 \in C
  BY <1>1 DEF NumbersOK, Calls
<1>4. Life!Issue(C)
  BY SMTT(30), <1>1, <1>2, <1>3
     DEF Life!Issue, Life!In, Life!Move, Calls, NumbersOK, ClosedStates
<1> QED BY <1>4 DEF Life!Next

LEMMA SendsRefines ==
  ASSUME IInv, InBurst, Numbered, IInv', InBurst', Numbered',
         state \notin ClosedStates, state' \notin ClosedStates, Sends
  PROVE  Life!Next
<1>0. sendq # <<>> /\ sendq \in Seq(Calls)
  BY DEF Sends, IInv, TypeOK
<1>1. /\ Base' = Base /\ SentTo' = SentTo + 1 /\ Issued' = Issued
      /\ NumbersOK /\ PhasesAreStages /\ PhasesAreStages' /\ Len(sendq) > 0
  BY <1>0, SendsByNumber, NumbersType, PhaseByNumber, PhaseByNumberAfter
<1> DEFINE s == SentTo + 1
<1>2. s \in Calls /\ \A c \in Calls : c \in Nat
  BY <1>1 DEF NumbersOK, Calls
<1>3. \A c \in Calls : /\ PhaseOf(c) = "queued" <=> SentTo < c /\ c <= Issued
                       /\ PhaseOf(c) \in {"sent", "completed"} <=> c <= SentTo
                       /\ PhaseOf(c)' = IF c = s THEN "sent" ELSE PhaseOf(c)
  BY <1>1, <1>2 DEF PhasesAreStages, Stage, NumbersOK
<1>4. Life!Send(s)
  BY <1>1, <1>2, <1>3
     DEF Life!Send, Life!In, Life!AllBefore, Life!Move, NumbersOK, ClosedStates
<1> QED BY <1>2, <1>4 DEF Life!Next

LEMMA CompletesRefines ==
  ASSUME IInv, InBurst, Numbered, IInv', InBurst', Numbered',
         state \notin ClosedStates, state' \notin ClosedStates, Completes
  PROVE  Life!Next
<1>0. recvq # <<>> /\ recvq \in Seq(Calls)
  BY DEF Completes, IInv, TypeOK
<1>1. /\ Base' = Base + 1 /\ SentTo' = SentTo /\ Issued' = Issued
      /\ NumbersOK /\ PhasesAreStages /\ PhasesAreStages' /\ Len(recvq) > 0
  BY <1>0, CompletesByNumber, NumbersType, PhaseByNumber, PhaseByNumberAfter
<1> DEFINE b == Base + 1
<1>2. b \in Calls /\ \A c \in Calls : c \in Nat
  BY <1>1 DEF NumbersOK, Calls
<1>3. \A c \in Calls : /\ PhaseOf(c) = "sent" <=> Base < c /\ c <= SentTo
                       /\ PhaseOf(c) = "completed" <=> c <= Base
                       /\ PhaseOf(c)' = IF c = b THEN "completed" ELSE PhaseOf(c)
  BY <1>1, <1>2 DEF PhasesAreStages, Stage, NumbersOK
<1>4. Life!Complete(b)
  BY <1>1, <1>2, <1>3
     DEF Life!Complete, Life!In, Life!AllBefore, Life!Move, NumbersOK, ClosedStates
<1> QED BY <1>2, <1>4 DEF Life!Next

LEMMA ClosesRefines ==
  ASSUME IInv, InBurst, Numbered, Closes
  PROVE  Life!Next
<1>1. NumbersOK /\ PhasesAreStages /\ num_calls \in Nat
  BY NumbersType, PhaseByNumber DEF Closes, IInv, TypeOK
<1>2. \A c \in Calls : /\ c \in completed <=> c <= Base
                       /\ c <= num_calls <=> c <= Issued
  BY <1>1 DEF Closes, Numbered, Issued, MinOf, Calls, NumbersOK
<1>3. \A c \in Calls : ~Queued(c, sendq') /\ ~Queued(c, recvq')
  BY DEF Closes, Queued
<1>4. \A c \in Calls : PhaseOf(c)' = IF c \in completed THEN "completed"
                                     ELSE IF c <= num_calls THEN "lost" ELSE "new"
  BY <1>3 DEF Closes, PhaseOf
<1>5. \A c \in Calls : PhaseOf(c)' = IF PhaseOf(c) \in {"queued", "sent"} THEN "lost"
                                     ELSE PhaseOf(c)
  BY <1>1, <1>2, <1>4 DEF PhasesAreStages, Stage, NumbersOK, Calls
<1>6. Life!Close
  BY <1>5 DEF Closes, Life!Close, Life!In, ClosedStates
<1> QED BY <1>6 DEF Life!Next

LEMMA KeepsRefines == Keeps => UNCHANGED Life!vars
BY DEF Keeps, Life!vars, PhaseOf, Queued, ClosedStates

LEMMA StepRefines ==
  /\ IInv /\ Listening /\ InBurst /\ Numbered
  /\ (IInv /\ InBurst /\ Numbered)'
  /\ [Next]_vars
  => [Life!Next]_Life!vars
BY StepMoves, KeepsRefines, ClosesRefines, IssuesRefines, SendsRefines, CompletesRefines DEF Moves

(* The queues, the partial writes and reads, the bursts and core_close      *)
(* implement the life of a call: issued in order, sent in order, answered   *)
(* in order, ended once, and lost only when its connection is closed        *)
(* (core.c:496-751, 1314-1474).                                             *)
THEOREM CallsLiveOnce == Spec => ImplementsPipeline
<1>1. Init => Life!Init
  BY ConnectionAssumption DEF Init, Life!Init, PhaseOf, Queued, Calls
<1> QED BY <1>1, StepRefines, Inductive, ListensInductive, BurstInductive, NumberedInductive, PTL
        DEF Spec, ImplementsPipeline, Life!Spec

-----------------------------------------------------------------------------
\* The units of q are those of requests after call c.
After(q, c) == \A j \in 1..Len(q) : q[j] > c

(* A reply on its way answers a request that the server has read as a      *)
(* whole: what of the requests is still in flight belongs to later calls,  *)
(* and to none that is not being sent.                                     *)
TxBehind ==
  state \notin ClosedStates =>
    /\ \A k \in 1..Len(Pieces) : After(tx, Pieces[k].call)
    /\ state = "REPLY_DATA" => recvq # <<>> /\ After(tx, Head(recvq))
    /\ \A j \in 1..Len(tx) :
         tx[j] <= SentTo \/ (tx[j] = SentTo + 1 /\ left[SentTo + 1] < ReqSize)

\* The steps that move no call, no reply and at most the first unit in flight
LEMMA UnmovedBehind ==
  ASSUME IInv, TxBehind, state \notin ClosedStates, SentTo' = SentTo, Pieces' = Pieces,
         UNCHANGED left, state' = "REPLY_DATA" => UNCHANGED <<state, recvq>>,
         tx' \in {tx, <<>>} \/ (tx # <<>> /\ tx' = Tail(tx))
  PROVE  TxBehind'
<1>1. \A j \in 1..Len(tx') : \E i \in 1..Len(tx) : tx'[j] = tx[i]
  <2>0. tx \in Seq(Calls) /\ Len(tx) \in Nat /\ Len(<<>>) = 0
    BY StreamType, EmptySeq
  <2>1. CASE tx' \in {tx, <<>>}
    BY <2>0, <2>1
  <2>2. CASE tx # <<>> /\ tx' = Tail(tx)
    BY <2>0, <2>2, HeadTailProperties
  <2> QED BY <2>1, <2>2
<1> QED BY <1>1 DEF TxBehind, After

\* writev adds units of the request at the head of the send queue.
LEMMA WritesBehind ==
  ASSUME IInv, InBurst, Flow, TxBehind, state \notin ClosedStates,
         NEW n \in 1..ReqSize, Writes(n)
  PROVE  /\ Head(sendq) = SentTo + 1 /\ SentTo + 1 \in Calls
         /\ left'[SentTo + 1] < ReqSize
         /\ \A j \in 1..Len(tx') : tx'[j] = SentTo + 1 \/ \E i \in 1..Len(tx) : tx'[j] = tx[i]
         /\ \A k \in 1..Len(Pieces) : After(tx', Pieces[k].call)
         /\ recvq # <<>> /\ After(tx, Head(recvq)) => After(tx', Head(recvq))
<1> DEFINE c == Head(sendq)
           u == Units(c, n)
<1>0. /\ tx \in Seq(Calls) /\ Len(tx) \in Nat /\ SentTo \in Int /\ ReqSize \in Nat \ {0}
      /\ left \in [Calls -> 0..ReqSize] /\ n \in Nat \ {0}
      /\ recvq \in Seq(Calls) /\ Len(recvq) \in Nat
  BY StreamType
<1>1. c = SentTo + 1 /\ c \in Calls /\ n <= left[c] /\ tx' = tx \o u
      /\ left' = [left EXCEPT ![c] = @ - n]
  BY Unsent DEF Writes, IInv, ThreadOK
<1> HIDE DEF c
<1>2. left'[c] < ReqSize
  <2>1. left[c] \in 0..ReqSize /\ left'[c] = left[c] - n
    BY <1>0, <1>1
  <2> QED BY <1>0, <2>1
<1>3. u \in Seq(Calls) /\ Len(u) = n /\ \A k \in 1..n : u[k] = c
  BY <1>0, <1>1, UnitsType DEF Units
<1> HIDE DEF u
<1>4. \A j \in 1..Len(tx') : tx'[j] = c \/ \E i \in 1..Len(tx) : tx'[j] = tx[i]
  <2>1. /\ Len(tx') = Len(tx) + Len(u)
        /\ \A j \in 1..Len(tx) + Len(u) : tx'[j] = IF j <= Len(tx) THEN tx[j] ELSE u[j - Len(tx)]
    BY <1>0, <1>1, <1>3, ConcatProperties
  <2>2. \A j \in 1..Len(tx) + n : j > Len(tx) => j - Len(tx) \in 1..n
    BY <1>0
  <2>3. \A j \in 1..Len(tx) + n : tx'[j] = IF j <= Len(tx) THEN tx[j] ELSE c
    BY SMTT(30), <1>0, <1>3, <2>1, <2>2
  <2>4. Len(tx') = Len(tx) + n
    BY <1>3, <2>1
  <2>5. ASSUME NEW j \in 1..Len(tx') PROVE tx'[j] = c \/ \E i \in 1..Len(tx) : tx'[j] = tx[i]
    <3>1. CASE j <= Len(tx)
      <4>1. j \in 1..Len(tx) /\ tx'[j] = tx[j]
        BY <1>0, <2>3, <2>4, <3>1
      <4> QED BY <4>1
    <3>2. CASE j > Len(tx)
      BY <1>0, <2>3, <2>4, <3>2
    <3> QED BY SMTT(30), <1>0, <2>4, <3>1, <3>2
  <2> QED BY <2>5
<1>5. \A k \in 1..Len(Pieces) : After(tx', Pieces[k].call)
  <2>1. \A k \in 1..Len(Pieces) : Pieces[k].call <= SentTo /\ Pieces[k].call \in Int
    BY StreamType, PieceType DEF Flow, InOrder
  <2> SUFFICES ASSUME NEW k \in 1..Len(Pieces) PROVE After(tx', Pieces[k].call)
    OBVIOUS
  <2>2. After(tx, Pieces[k].call) /\ c > Pieces[k].call
    BY <1>0, <1>1, <2>1 DEF TxBehind
  <2> QED BY <1>4, <2>2 DEF After
<1>6. recvq # <<>> /\ After(tx, Head(recvq)) => After(tx', Head(recvq))
  <2>1. recvq # <<>> => Head(recvq) = SentTo - Len(recvq) + 1 /\ Len(recvq) \in Nat \ {0}
    BY <1>0, EmptySeq DEF InBurst, SentTo
  <2>2. recvq # <<>> => Head(recvq) < SentTo + 1
    BY <1>0, <2>1
  <2> QED BY <1>0, <1>1, <1>4, <2>2 DEF After
<1> QED BY <1>1, <1>2, <1>4, <1>5, <1>6 DEF c

LEMMA SendPartBehind ==
  ASSUME IInv, InBurst, Flow, TxBehind, state \notin ClosedStates,
         NEW n \in 1..ReqSize, SendPart(n)
  PROVE  TxBehind'
<1>1. Writes(n) /\ SentTo' = SentTo /\ Pieces' = Pieces /\ UNCHANGED <<state, recvq>>
  BY DEF SendPart, callseq, wire, SentTo, Issued, Pieces
<1> QED BY <1>1, WritesBehind DEF TxBehind

LEMMA SendAllBehind ==
  ASSUME IInv, InBurst, Flow, TxBehind, state \notin ClosedStates,
         NEW n \in 1..ReqSize, SendAll(n)
  PROVE  TxBehind'
<1>1. /\ Writes(n) /\ Pieces' = Pieces /\ UNCHANGED num_calls
      /\ sendq # <<>> /\ sendq' = Tail(sendq) /\ recvq' = Append(recvq, Head(sendq))
      /\ state' = "REPLY_DATA" => state = "REPLY_DATA"
  BY DEF SendAll, Writes, Awaiting, callseq, wire, Pieces, IInv, ThreadOK
<1>2. /\ sendq \in Seq(Calls) /\ recvq \in Seq(Calls) /\ Head(sendq) \in Calls /\ SentTo \in Int
      /\ Len(sendq) \in Nat /\ Issued \in Int /\ tx \in Seq(Calls)
  BY <1>1, StreamType, HeadTailProperties
<1>3. SentTo' = SentTo + 1
  <2>1. Issued' = Issued /\ Len(sendq') = Len(sendq) - 1
    BY <1>1, <1>2, HeadTailProperties DEF Issued
  <2> QED BY <1>2, <2>1 DEF SentTo
<1>4. recvq # <<>> => recvq' # <<>> /\ Head(recvq') = Head(recvq)
  BY <1>1, <1>2, AppendProperties, EmptySeq
<1>5. \A j \in 1..Len(tx') : tx'[j] <= SentTo'
  <2>1. \A j \in 1..Len(tx) : tx[j] <= SentTo + 1
    <3>1. \A j \in 1..Len(tx) : tx[j] \in Calls
      BY <1>2, ElementOfSeq
    <3> QED BY <1>2, <3>1 DEF TxBehind, Calls
  <2>2. \A j \in 1..Len(tx') : tx'[j] = SentTo + 1 \/ \E i \in 1..Len(tx) : tx'[j] = tx[i]
    BY <1>1, WritesBehind
  <2> QED BY <1>2, <1>3, <2>1, <2>2
<1> QED BY <1>1, <1>4, <1>5, WritesBehind DEF TxBehind

\* The parser takes the first piece, which belongs to the first call in flight.
LEMMA ParsePieceBehind ==
  ASSUME IInv, InBurst, Flow, TxBehind, state \notin ClosedStates, ParsePiece
  PROVE  /\ Head(recvq) = SentTo - Len(recvq) + 1 /\ After(tx, Head(recvq))
         /\ TxBehind'
<1>0. /\ recvq # <<>> /\ recvq \in Seq(Calls) /\ Len(recvq) \in Nat \ {0} /\ SentTo \in Int
      /\ Pieces # <<>> /\ Pieces \in Seq(Piece) /\ Pieces[1] = Head(buf) /\ Pieces' = Tail(Pieces)
      /\ UNCHANGED <<sendq, num_calls, left, tx>> /\ Head(buf) \in Piece
  BY StreamType, ParsePiecePieces, EmptySeq, HeadTailProperties DEF ParsePiece, net, wire
<1>1. Head(recvq) = SentTo - Len(recvq) + 1
  BY <1>0 DEF InBurst, SentTo
<1>2. After(tx, Head(recvq))
  <2>1. Pieces[1].call = SentTo - Len(recvq) + 1 /\ 1 \in 1..Len(Pieces)
    BY <1>0, EmptySeq DEF Flow, InOrder
  <2> QED BY <1>1, <2>1 DEF TxBehind
<1>3. SentTo' = SentTo
  BY <1>0 DEF SentTo, Issued
<1>4. \A k \in 1..Len(Pieces') : After(tx', Pieces'[k].call)
  BY <1>0, HeadTailProperties DEF TxBehind
<1>5. state' = "REPLY_DATA" => recvq' = recvq
  <2>1. Head(buf).part \in {"head", "data", "end"}
    BY <1>0 DEF Piece
  <2> QED BY <2>1 DEF ParsePiece, RecvDone
<1> QED BY <1>0, <1>1, <1>2, <1>3, <1>4, <1>5 DEF TxBehind

\* The server answers a request it has read as a whole.
LEMMA ServerWritesBehind ==
  ASSUME IInv, InBurst, Flow, TxBehind, state \notin ClosedStates,
         NEW p \in {"head", "data", "end"}, ServerWrites(p)
  PROVE  TxBehind'
<1> DEFINE q == [call |-> Head(serving), part |-> p]
<1>0. /\ UNCHANGED <<state, sendq, recvq, num_calls, left, tx>> /\ Len(serving) = ReqSize /\ Asked
      /\ tx \in Seq(Calls) /\ Len(tx) \in Nat /\ Serves \in Int /\ ReqSize \in Nat \ {0}
      /\ Pieces \in Seq(Piece) /\ q \in Piece /\ q.call = Serves /\ Pieces' = Append(Pieces, q)
  BY StreamType, ServerAnswers DEF ServerWrites, client, conn, callseq, Flow, Flowing
<1> HIDE DEF q
<1>1. After(tx, Serves)
  <2> SUFFICES ASSUME NEW j \in 1..Len(tx) PROVE tx[j] > Serves
    BY DEF After
  <2> DEFINE d == tx[j] - Serves
  <2>1. InRequest(d, ReqSize + j) /\ tx[j] \in Int /\ j \in Nat \ {0}
    <3>1. InRequest(d, ReqSize + j)
      BY <1>0 DEF Asked
    <3>2. tx[j] \in Calls
      BY <1>0, ElementOfSeq
    <3> QED BY <1>0, <3>1, <3>2 DEF Calls
  <2>2. d \in Int
    BY <1>0, <2>1
  <2> HIDE DEF d
  <2>3. CASE d <= 0
    <3> DEFINE all == ReqSize * d
    <3>1. all <= 0 /\ all \in Int
      BY <1>0, <2>2, <2>3
    <3>2. ReqSize * (d + 1) = all + ReqSize
      BY <2>2, NextRequest
    <3>3. ReqSize + j <= all + ReqSize
      BY <2>1, <3>2 DEF InRequest
    <3> HIDE DEF all
    <3> QED BY <1>0, <2>1, <3>1, <3>3
  <2>4. CASE d > 0
    BY <1>0, <2>1, <2>4 DEF d
  <2> QED BY <2>2, <2>3, <2>4
<1>2. SentTo' = SentTo
  BY <1>0 DEF SentTo, Issued
<1>3. \A k \in 1..Len(Pieces') : After(tx', Pieces'[k].call)
  BY <1>0, <1>1, AppendProperties DEF TxBehind
<1> QED BY <1>0, <1>2, <1>3 DEF TxBehind

LEMMA StepBehind ==
  IInv /\ Listening /\ InBurst /\ Stream /\ TxBehind /\ [Next]_vars => TxBehind'
<1> SUFFICES ASSUME IInv, Listening, InBurst, Stream, TxBehind, [Next]_vars,
                    state' \notin ClosedStates
             PROVE  TxBehind'
  BY DEF TxBehind
<1>0. state \notin ClosedStates /\ Flow
  BY StepMoves DEF Keeps, Closes, Stream
<1> DEFINE Still == /\ UNCHANGED <<sendq, num_calls, left, buf, rx>>
                    /\ state' = "REPLY_DATA" => UNCHANGED <<state, recvq>>
<1>1. ASSUME Still, tx' \in {tx, <<>>} \/ (tx # <<>> /\ tx' = Tail(tx)) PROVE TxBehind'
  <2>1. SentTo' = SentTo /\ Pieces' = Pieces
    BY <1>1 DEF SentTo, Issued, Pieces
  <2> QED BY <1>0, <1>1, <2>1, UnmovedBehind
<1>2. CASE Poll \/ SkipEvent \/ (\E dir \in {"R", "W"} : Handle(dir))
  BY <1>1, <1>2 DEF Poll, SkipEvent, Handle, conn, callseq, net, wire
<1>3. CASE SendBlocks \/ ReadBlocks \/ RecvReturns \/ UNCHANGED vars
  BY <1>1, <1>3 DEF SendBlocks, ReadBlocks, RecvReturns, conn, callseq, net, wire, vars
<1>4. CASE ConnectStarts \/ BurstPending
  BY <1>1, <1>4 DEF ConnectStarts, BurstPending, ResumeReceiving, callseq, net, wire
<1>5. CASE EventDone \/ ReadEnds
  BY <1>1, <1>5 DEF EventDone, ReadEnds, RecvDone, callseq, net, wire
<1>6. CASE Accept \/ ServerReads \/ Break \/ ServerCloses
  BY <1>1, <1>6 DEF Accept, ServerReads, Break, ServerCloses, client, conn, callseq, wire
<1>7. CASE ConnectFails \/ ConnTimeout \/ SendFails \/ ReadFails \/ LastBurstDone
  BY <1>7 DEF ConnectFails, ConnTimeout, SendFails, ReadFails, LastBurstDone, CoreClose, ClosedStates
<1>8. CASE ConnectSucceeds \/ TakeEvent \/ NextBurst
  <2>1. UNCHANGED <<left, buf, rx, tx>> /\ (state' = "REPLY_DATA" => UNCHANGED <<state, recvq>>)
    BY <1>8 DEF ConnectSucceeds, TakeEvent, NextBurst, ResumeReceiving, net, wire
  <2>2. Pieces' = Pieces
    BY <2>1 DEF Pieces
  <2>3. SentTo' = SentTo
    <3>1. CASE Keeps
      BY <3>1 DEF Keeps, SentTo, Issued
    <3>2. CASE Issues
      BY <1>0, <3>2, IssuesByNumber
    <3> QED BY <1>8, <3>1, <3>2, IssuingMoves
  <2> QED BY <1>0, <2>1, <2>2, <2>3, UnmovedBehind
<1>9. ASSUME NEW n \in 1..RxMax, ReadData(n) PROVE TxBehind'
  <2>1. Pieces' = Pieces /\ UNCHANGED <<state, sendq, recvq, num_calls, left, tx>>
    BY <1>9, ReadDataPieces DEF ReadData, conn, callseq
  <2>2. SentTo' = SentTo
    BY <2>1 DEF SentTo, Issued
  <2> QED BY <1>0, <2>1, <2>2, UnmovedBehind
<1> QED BY <1>0, <1>2, <1>3, <1>4, <1>5, <1>6, <1>7, <1>8, <1>9, SendPartBehind, SendAllBehind,
           ParsePieceBehind, ServerWritesBehind
        DEF Next, Opening, Looping, Sending, Receiving, CallDestroyed, Serving, Finished

(* The units in flight never belong to a request whose reply is on its way. *)
THEOREM BehindInductive == Spec => []TxBehind
<1>1. Init => TxBehind
  BY EmptySeq, ConcatEmptySeq DEF Init, TxBehind, Pieces
<1> QED BY <1>1, StepBehind, Inductive, ListensInductive, BurstInductive, StreamInductive, PTL
        DEF Spec
-----------------------------------------------------------------------------
(* The watchdog.  Where the thread waits, it is armed, or what the wait is  *)
(* for is there: a reply or the end of the stream, or room for a request.   *)
Hears == watchdog \/ (interest = {"R"} /\ fin) \/ (interest = {"W"} /\ tx = <<>>)

\* What the thread takes the connection to be ready for is still there.
Heard(dirs) ==
  /\ "R" \in dirs => interest = {"R"} /\ (rx # <<>> \/ fin)
  /\ "W" \in dirs => interest = {"W"} /\ Len(tx) < TxMax

Attends ==
  /\ at \in {"loop", "event", "again", "handle", "send", "read", "parse", "destroy", "destroy_eof"}
  /\ at = "loop" /\ Pending => Hears
  /\ at = "event" => ready # {} /\ Heard(ready)
  /\ at = "handle" => Heard(work) /\ (work = {} /\ Pending => Hears)
  /\ at \in {"send", "read", "parse", "destroy", "destroy_eof"} => work = {}
  /\ at = "send" => watchdog \/ Len(tx) < TxMax
  /\ at = "read" => interest = {"R"} /\ (rx # <<>> \/ fin)
  /\ at \in {"parse", "destroy"} /\ recvq = <<>> /\ sendq # <<>> =>
       watchdog \/ (interest = {"W"} /\ tx = <<>>)
  /\ at = "destroy_eof" => fin /\ (Pending => Hears)

\* With epoll one direction is polled, and the calls sent have a timeout.
Aimed ==
  /\ interest \in {{"R"}, {"W"}}
  /\ \A k \in 1..Len(recvq) : timed[recvq[k]]
  /\ sendq # <<>> /\ (interest = {"R"} \/ at \in {"parse", "destroy"}) =>
       left[Head(sendq)] = ReqSize

Connecting == /\ interest = {"W"} /\ watchdog /\ at \in {"loop", "event"}
              /\ at = "event" => ready = {"W"} /\ link = "up"

WatchedFor == /\ Aimed
              /\ IF state = "CONNECTING" THEN Connecting ELSE link = "up" /\ Attends

\* The connection is open, and its link is not known to be lost.
Unbroken == Open /\ link # "broken"

Watching == Unbroken => WatchedFor

Epoll == Backend = "epoll" /\ Timeout

-----------------------------------------------------------------------------
\* What the invariants say of an open connection, for the steps below
LEMMA WatchingType ==
  ASSUME IInv, Listening, InBurst, Stream, Watching, Epoll, Unbroken
  PROVE  /\ WatchedFor /\ Flow /\ state \notin ClosedStates
         /\ count = IF at = "event" THEN 1 ELSE 0
         /\ sendq \in Seq(Calls) /\ recvq \in Seq(Calls) /\ tx \in Seq(Calls)
         /\ timed \in [Calls -> BOOLEAN] /\ ready \subseteq {"R", "W"} /\ work \subseteq {"R", "W"}
         /\ state \in {"INITIAL", "CONNECTING"} => sendq = <<>> /\ recvq = <<>>
         /\ Pending /\ interest = {"R"} => recvq # <<>>
         /\ Pending /\ interest = {"W"} => sendq # <<>>
BY DEF IInv, TypeOK, ThreadOK, Listening, Stream, Watching, Epoll, Unbroken, Open, OpenStates,
       ClosedStates, Pending

\* core_connect under way
LEMMA ConnectStartsWatching ==
  ASSUME IInv, Listening, InBurst, Stream, Epoll, ConnectStarts
  PROVE  Watching'
<1>1. /\ state' = "CONNECTING" /\ watchdog' = Timeout /\ at' = "loop"
      /\ interest' = SetActive(interest, "W") /\ state = "INITIAL"
      /\ UNCHANGED <<sendq, recvq>>
  BY DEF ConnectStarts, IInv, ThreadOK
<1>2. sendq' = <<>> /\ recvq' = <<>> /\ Len(recvq') = 0
  BY <1>1 DEF Listening
<1>3. interest' = {"W"} /\ watchdog'
  BY <1>1 DEF SetActive, Epoll
<1> QED BY <1>1, <1>2, <1>3 DEF Watching, WatchedFor, Aimed, Connecting

\* issue_calls arms the watchdog for the first request of the burst.
LEMMA IssuingWatches ==
  ASSUME IInv, InBurst, Flow, Epoll, state \notin ClosedStates,
         sendq = <<>>, recvq = <<>>, num_calls < NumCalls,
         NEW i, NEW w \in BOOLEAN, IssueCalls(i, w), UNCHANGED <<recvq, left>>
  PROVE  Aimed' /\ interest' = {"W"} /\ watchdog'
<1>1. /\ Burst # <<>> /\ sendq' = Burst /\ Head(Burst) \in Calls /\ left'[Head(Burst)] = ReqSize
      /\ Len(recvq') = 0
  BY FreshBurst DEF IssueCalls, Flow
<1>2. /\ timed' = [timed EXCEPT ![Head(Burst)] = Timeout] /\ interest' = SetActive(i, "W")
      /\ watchdog' = Watch(w, Burst, recvq, timed')
  BY <1>1 DEF IssueCalls
<1>3. timed'[Head(Burst)]
  BY <1>1, <1>2 DEF IInv, TypeOK, Epoll
<1>4. watchdog'
  BY <1>1, <1>2, <1>3 DEF Watch
<1> QED BY <1>1, <1>2, <1>4 DEF Aimed, SetActive, Epoll

LEMMA ConnectSucceedsWatching ==
  ASSUME IInv, Listening, InBurst, Stream, Epoll, ConnectSucceeds
  PROVE  Watching'
<1>1. /\ state = "INITIAL" /\ state' = "CONNECTED" /\ at' = "loop" /\ link' = "up"
      /\ IssueCalls(interest, watchdog) /\ UNCHANGED <<recvq, left>>
  BY DEF ConnectSucceeds, IInv, ThreadOK
<1>2. sendq = <<>> /\ recvq = <<>> /\ num_calls < NumCalls /\ Flow /\ watchdog \in BOOLEAN
  BY <1>1, ConnectionAssumption DEF Listening, InBurst, Stream, ClosedStates, IInv, TypeOK
<1>3. Aimed' /\ interest' = {"W"} /\ watchdog'
  BY <1>1, <1>2, IssuingWatches DEF ClosedStates
<1> QED BY <1>1, <1>3 DEF Watching, WatchedFor, Attends, Hears

\* core_loop: what the poll has returned, and what the thread makes of it
LEMMA LoopingWatching ==
  ASSUME IInv, Listening, InBurst, Stream, Watching, Epoll, Unbroken,
         Poll \/ SkipEvent \/ (\E dir \in {"R", "W"} : Handle(dir)) \/ EventDone
  PROVE  Watching'
<1>0. /\ WatchedFor /\ count = (IF at = "event" THEN 1 ELSE 0)
      /\ ready \subseteq {"R", "W"} /\ work \subseteq {"R", "W"} /\ Backend = "epoll"
      /\ Pending /\ interest = {"R"} => recvq # <<>>
      /\ Pending /\ interest = {"W"} => sendq # <<>>
      /\ interest \in {{"R"}, {"W"}}
  BY WatchingType DEF Epoll, WatchedFor, Aimed
<1>1. CASE Poll
  <2>1. at = "loop" /\ at' = "event" /\ ready' = Events /\ Events # {}
        /\ UNCHANGED <<conn, held, work, buf, net>>
    BY <1>1 DEF Poll
  <2>2. Aimed'
    BY <1>0, <2>1 DEF WatchedFor, Aimed, conn
  <2>3. CASE state = "CONNECTING"
    <3>1. Events = {"W"} /\ link = "up"
      BY <1>0, <2>1, <2>3 DEF WatchedFor, Connecting, Events, Writable, Unbroken
    <3> QED BY <1>0, <2>1, <2>2, <2>3, <3>1
            DEF Watching, WatchedFor, Connecting, conn, net
  <2>4. CASE state # "CONNECTING"
    <3>1. link = "up" /\ Heard(Events)
      BY <1>0, <2>4 DEF WatchedFor, Events, Readable, Writable, Heard
    <3> QED BY <1>0, <2>1, <2>2, <2>4, <3>1 DEF Watching, WatchedFor, Attends, Heard, conn, net, wire
  <2> QED BY <2>3, <2>4
<1>2. CASE SkipEvent
  <2>1. at = "event" /\ ready = {}
    BY <1>0, <1>2 DEF SkipEvent, AtEvent, StillReady
  <2> QED BY <1>0, <2>1 DEF WatchedFor, Connecting, Attends
<1>3. ASSUME NEW dir \in {"R", "W"}, Handle(dir) PROVE Watching'
  <2>1. /\ at = "handle" /\ dir \in work /\ work' = work \ {dir}
        /\ UNCHANGED <<conn, held, ready, count, buf, net>>
        /\ at' = IF dir = "W" /\ sendq # <<>> THEN "send"
                 ELSE IF dir = "R" /\ recvq # <<>> THEN "read" ELSE "handle"
    BY <1>3 DEF Handle
  <2>2. state # "CONNECTING" /\ link = "up" /\ Heard(work)
    BY <1>0, <2>1 DEF WatchedFor, Connecting, Attends
  <2>3. work' = {}
    BY <1>0, <2>1, <2>2 DEF Heard
  <2>4. Aimed'
    BY <1>0, <2>1 DEF WatchedFor, Aimed, conn
  <2>5. at' = "handle" => ~Pending'
    BY <1>0, <2>1, <2>2 DEF Heard, Pending, conn
  <2> QED BY <2>1, <2>2, <2>3, <2>4, <2>5 DEF Watching, WatchedFor, Attends, Heard, conn, net, wire
<1>4. CASE EventDone
  <2>1. /\ at = "handle" /\ work = {} /\ at' = "loop" /\ UNCHANGED state
        /\ UNCHANGED <<sendq, recvq, watchdog, interest, left, timed, poll, buf, net>>
    BY <1>0, <1>4 DEF EventDone, Unbroken, Open, OpenStates
  <2> QED BY <1>0, <2>1 DEF Watching, WatchedFor, Connecting, Aimed, Attends, Hears, Pending, net, wire
<1> QED BY <1>1, <1>2, <1>3, <1>4

LEMMA TakeEventWatching ==
  ASSUME IInv, Listening, InBurst, Stream, Watching, Epoll, Unbroken, TakeEvent
  PROVE  Watching'
<1>0. /\ WatchedFor /\ count = (IF at = "event" THEN 1 ELSE 0) /\ Flow /\ state \notin ClosedStates
      /\ state = "CONNECTING" => sendq = <<>> /\ recvq = <<>>
  BY WatchingType
<1>1. /\ at = "event" /\ at' = "handle" /\ StillReady = ready /\ ready # {}
      /\ UNCHANGED <<recvq, left, net>>
  BY <1>0 DEF TakeEvent, AtEvent, StillReady, Epoll
<1>2. CASE state = "CONNECTING"
  <2>1. /\ "W" \in StillReady /\ link = "up"
    BY <1>0, <1>1, <1>2 DEF WatchedFor, Connecting
  <2>2. work' = {} /\ state' = "CONNECTED" /\ IssueCalls(ClearActive(interest, "W"), FALSE)
    BY <1>2, <2>1 DEF TakeEvent
  <2>3. num_calls < NumCalls
    BY <1>0, <1>2, ConnectionAssumption DEF InBurst
  <2>4. Aimed' /\ interest' = {"W"} /\ watchdog'
    BY <1>0, <1>1, <1>2, <2>2, <2>3, IssuingWatches
  <2> QED BY <1>1, <2>1, <2>2, <2>4 DEF Watching, WatchedFor, Attends, Heard, Hears, net
<1>3. CASE state # "CONNECTING"
  <2>1. work' = ready /\ UNCHANGED <<state, sendq, interest, timed>>
    BY <1>1, <1>3 DEF TakeEvent
  <2> QED BY <1>0, <1>1, <1>3, <2>1
          DEF Watching, WatchedFor, Aimed, Attends, Heard, net, wire
<1> QED BY <1>2, <1>3

\* do_send: what is not yet out, and the reply to what is, arm the watchdog.
LEMMA SendingWatching ==
  ASSUME IInv, Listening, InBurst, Stream, Watching, Epoll, Unbroken,
         SendBlocks \/ \E n \in 1..ReqSize : SendPart(n) \/ SendAll(n)
  PROVE  Watching'
<1>0. /\ WatchedFor /\ Flow /\ state \notin ClosedStates
      /\ at = "send" /\ sendq # <<>> /\ sendq \in Seq(Calls) /\ recvq \in Seq(Calls)
      /\ timed \in [Calls -> BOOLEAN]
  BY WatchingType DEF SendBlocks, SendPart, SendAll, Writes, IInv, ThreadOK
<1>1. state # "CONNECTING" /\ link = "up" /\ work = {} /\ Head(sendq) \in Calls
  BY <1>0, HeadTailProperties DEF WatchedFor, Connecting, Attends
<1>2. CASE SendBlocks
  <2>1. Len(tx) = TxMax /\ at' = "handle" /\ UNCHANGED <<conn, held, poll, buf, net>>
    BY <1>2 DEF SendBlocks
  <2>2. watchdog
    BY <1>0, <1>1, <2>1, ConnectionAssumption DEF WatchedFor, Attends
  <2> QED BY <1>0, <1>1, <2>1, <2>2
          DEF Watching, WatchedFor, Aimed, Attends, Heard, Hears, Pending, conn, poll, net
<1>3. ASSUME NEW n \in 1..ReqSize, SendPart(n) PROVE Watching'
  <2>1. /\ timed' = [timed EXCEPT ![Head(sendq)] = Timeout] /\ interest' = SetActive(interest, "W")
        /\ watchdog' = Watch(watchdog, sendq, recvq, timed') /\ at' = "handle"
        /\ UNCHANGED <<state, sendq, recvq, work, link>>
    BY <1>3 DEF SendPart, poll
  <2>2. timed'[Head(sendq)] /\ \A k \in 1..Len(recvq) : timed'[recvq[k]]
    <3>1. \A k \in 1..Len(recvq) : recvq[k] \in Calls
      BY <1>0, ElementOfSeq
    <3> QED BY <1>0, <1>1, <2>1, <3>1 DEF Epoll, WatchedFor, Aimed
  <2>3. interest' = {"W"} /\ watchdog'
    BY <1>0, <2>1, <2>2 DEF SetActive, Epoll, Watch
  <2> QED BY <1>1, <2>1, <2>2, <2>3 DEF Watching, WatchedFor, Aimed, Attends, Heard, Hears
<1>4. ASSUME NEW n \in 1..ReqSize, SendAll(n) PROVE Watching'
  <2>1. /\ timed' = [timed EXCEPT ![Head(sendq)] = Timeout \/ ThinkTimeout]
        /\ recvq' = Append(recvq, Head(sendq)) /\ at' \in {"handle", "send"}
        /\ watchdog' = Watch(watchdog, Tail(sendq), recvq', timed')
        /\ state' # "CONNECTING" /\ UNCHANGED <<work, link>>
    BY <1>1, <1>4 DEF SendAll, Awaiting, poll
  <2>2. interest' = {"R"}
    BY <1>4 DEF SendAll, SetActive, Epoll
  <2>3. /\ Len(recvq') = Len(recvq) + 1 /\ Len(recvq) \in Nat /\ recvq' \in Seq(Calls)
        /\ \A k \in 1..Len(recvq) : recvq'[k] = recvq[k] /\ recvq[k] \in Calls
        /\ recvq'[Len(recvq) + 1] = Head(sendq)
    <3>1. \A k \in 1..Len(recvq) : recvq[k] \in Calls
      BY <1>0, ElementOfSeq
    <3> QED BY <1>0, <1>1, <2>1, <3>1, AppendProperties
  <2>4. \A c \in Calls : timed[c] \/ c = Head(sendq) => timed'[c]
    BY <1>0, <1>1, <2>1 DEF Epoll
  <2>5. \A k \in 1..Len(recvq') : timed'[recvq'[k]]
    <3> SUFFICES ASSUME NEW k \in 1..Len(recvq') PROVE timed'[recvq'[k]]
      OBVIOUS
    <3>1. CASE k \in 1..Len(recvq)
      BY <1>0, <2>3, <2>4, <3>1 DEF WatchedFor, Aimed
    <3>2. CASE k = Len(recvq) + 1
      BY <1>1, <2>3, <2>4, <3>2
    <3> QED BY <2>3, <3>1, <3>2
  <2>6. watchdog'
    <3>1. recvq' # <<>> /\ Head(recvq') = recvq'[1] /\ 1 \in 1..Len(recvq')
      BY <2>3, EmptySeq
    <3> QED BY <2>1, <2>5, <3>1 DEF Watch
  <2>7. sendq' # <<>> => left'[Head(sendq')] = ReqSize
    BY <1>0, <1>4, NextUnwritten
  <2> QED BY <1>1, <2>1, <2>2, <2>5, <2>6, <2>7
          DEF Watching, WatchedFor, Aimed, Attends, Heard, Hears
<1> QED BY <1>2, <1>3, <1>4

\* The last call in flight has its reply: nothing is on its way to the server.
LEMMA NothingInFlight ==
  ASSUME IInv, InBurst, TxBehind, state \notin ClosedStates,
         recvq # <<>>, Tail(recvq) = <<>>, After(tx, Head(recvq)),
         sendq # <<>>, left[Head(sendq)] = ReqSize
  PROVE  tx = <<>>
<1>0. /\ recvq \in Seq(Calls) /\ sendq \in Seq(Calls) /\ tx \in Seq(Calls) /\ SentTo \in Int
      /\ Len(recvq) \in Nat \ {0} /\ Len(tx) \in Nat /\ ReqSize \in Nat
  BY StreamType, EmptySeq
<1>1. Len(recvq) = 1
  <2> DEFINE t == Tail(recvq)
  <2>1. Len(t) = Len(recvq) - 1 /\ Len(t) = 0
    BY <1>0, EmptySeq, HeadTailProperties
  <2> HIDE DEF t
  <2> QED BY <1>0, <2>1
<1>2. Head(recvq) = SentTo /\ Head(sendq) = SentTo + 1
  BY <1>0, <1>1, Unsent DEF InBurst, SentTo
<1>3. ASSUME NEW j \in 1..Len(tx) PROVE FALSE
  <2>1. tx[j] > SentTo /\ tx[j] \in Int
    <3>1. tx[j] \in Calls
      BY <1>0, ElementOfSeq
    <3> QED BY <1>2, <3>1 DEF After, Calls
  <2>2. tx[j] = SentTo + 1 /\ left[SentTo + 1] < ReqSize
    BY <1>0, <2>1 DEF TxBehind
  <2> QED BY <1>0, <1>2, <2>2
<1>4. Len(tx) = 0
  BY <1>0, <1>3
<1> QED BY <1>0, <1>4, EmptySeq

\* recv_done: the poll turns to the sending when the last reply is in.
LEMMA RecvDoneWatching ==
  ASSUME IInv, InBurst, TxBehind, Epoll, state \notin ClosedStates, WatchedFor, recvq # <<>>,
         RecvDone, UNCHANGED <<sendq, left, tx>>,
         After(tx, Head(recvq)),
         sendq # <<>> => left[Head(sendq)] = ReqSize
  PROVE  /\ recvq' \in Seq(Calls)
         /\ \A k \in 1..Len(recvq') : k + 1 \in 1..Len(recvq) /\ recvq'[k] = recvq[k + 1]
         /\ recvq' # <<>> => UNCHANGED interest
         /\ recvq' = <<>> => interest' = {"W"} /\ (sendq # <<>> => tx' = <<>>)
<1>1. /\ recvq \in Seq(Calls) /\ recvq' = Tail(recvq)
      /\ interest' = IF Tail(recvq) = <<>> THEN ClearActive(interest, "R") ELSE interest
  BY StreamType DEF RecvDone
<1>2. /\ recvq' \in Seq(Calls) /\ Len(recvq') = Len(recvq) - 1 /\ Len(recvq) \in Nat \ {0}
      /\ \A k \in 1..Len(recvq') : recvq'[k] = recvq[k + 1]
  BY <1>1, HeadTailProperties
<1> QED BY <1>1, <1>2, NothingInFlight DEF ClearActive, Other, Epoll

\* do_recv: the read, and the replies in what it has read
LEMMA ReceivingWatching ==
  ASSUME IInv, Listening, InBurst, Stream, TxBehind, Watching, Epoll, Unbroken,
         \/ ReadBlocks \/ ReadEnds \/ ParsePiece \/ RecvReturns
         \/ \E n \in 1..RxMax : ReadData(n)
  PROVE  Watching'
<1>0. /\ WatchedFor /\ Flow /\ state \notin ClosedStates /\ at \in {"read", "parse"}
      /\ timed \in [Calls -> BOOLEAN] /\ recvq \in Seq(Calls) /\ sendq \in Seq(Calls)
      /\ at = "read" => recvq # <<>>
  BY WatchingType DEF ReadBlocks, ReadEnds, ParsePiece, RecvReturns, ReadData, IInv, ThreadOK
<1>1. /\ state # "CONNECTING" /\ link = "up" /\ work = {}
      /\ at = "read" => interest = {"R"} /\ (rx # <<>> \/ fin)
      /\ sendq # <<>> => left[Head(sendq)] = ReqSize
  BY <1>0 DEF WatchedFor, Connecting, Attends, Aimed
<1>2. CASE ReadBlocks
  BY <1>0, <1>1, <1>2 DEF ReadBlocks
<1>3. ASSUME NEW n \in 1..RxMax, ReadData(n) PROVE Watching'
  <2>1. at = "read" /\ at' = "parse" /\ UNCHANGED <<conn, work, link>>
    BY <1>3 DEF ReadData, poll
  <2> QED BY <1>0, <1>1, <2>1 DEF Watching, WatchedFor, Aimed, Attends, conn
<1>4. CASE ReadEnds
  <2>1. /\ at = "read" /\ fin /\ state = "REPLY_DATA" /\ RecvDone /\ at' = "destroy_eof"
        /\ UNCHANGED <<sendq, left, timed, work, link, tx, fin>>
    BY <1>4 DEF ReadEnds, poll, net, wire
  <2>2. recvq # <<>> /\ After(tx, Head(recvq)) /\ state' = "REPLY_DONE"
    BY <1>0, <2>1 DEF TxBehind, RecvDone
  <2>3. /\ \A k \in 1..Len(recvq') : k + 1 \in 1..Len(recvq) /\ recvq'[k] = recvq[k + 1]
        /\ recvq' # <<>> => UNCHANGED interest
        /\ recvq' = <<>> => interest' = {"W"} /\ (sendq # <<>> => tx' = <<>>)
    BY <1>0, <1>1, <2>1, <2>2, RecvDoneWatching
  <2> QED BY <1>0, <1>1, <2>1, <2>2, <2>3
          DEF Watching, WatchedFor, Aimed, Attends, Hears, Pending
<1>5. CASE ParsePiece
  <2>1. /\ at = "parse" /\ recvq # <<>> /\ Head(buf).part \in {"head", "data", "end"}
        /\ timed' = IF state = "REPLY_STATUS"
                      THEN [timed EXCEPT ![Head(recvq)] = Timeout \/ ThinkTimeout] ELSE timed
        /\ UNCHANGED <<sendq, watchdog, left, work, link, tx>>
    <3>1. Head(buf) \in Piece
      BY <1>5, StreamType, HeadTailProperties DEF ParsePiece
    <3> QED BY <1>5, <3>1 DEF ParsePiece, poll, net, Piece
  <2>2. \A k \in 1..Len(recvq) : timed'[recvq[k]]
    <3>1. \A k \in 1..Len(recvq) : recvq[k] \in Calls /\ timed[recvq[k]]
      BY <1>0, ElementOfSeq DEF WatchedFor, Aimed
    <3> QED BY <1>0, <2>1, <3>1 DEF Epoll
  <2>3. CASE Head(buf).part = "end"
    <3>1. RecvDone /\ at' = "destroy" /\ state' = "REPLY_DONE"
      BY <1>5, <2>3 DEF ParsePiece, RecvDone
    <3>2. After(tx, Head(recvq))
      BY <1>0, <1>5, ParsePieceBehind
    <3>3. /\ \A k \in 1..Len(recvq') : k + 1 \in 1..Len(recvq) /\ recvq'[k] = recvq[k + 1]
          /\ recvq' # <<>> => UNCHANGED interest
          /\ recvq' = <<>> => interest' = {"W"} /\ (sendq # <<>> => tx' = <<>>)
      BY <1>0, <1>1, <2>1, <3>1, <3>2, RecvDoneWatching
    <3>4. \A k \in 1..Len(recvq') : timed'[recvq'[k]]
      BY <2>2, <3>3
    <3> QED BY <1>0, <1>1, <2>1, <3>1, <3>3, <3>4 DEF Watching, WatchedFor, Aimed, Attends
  <2>4. CASE Head(buf).part # "end"
    <3>1. state' \in {"REPLY_DATA", "REPLY_HEADER"} /\ UNCHANGED <<recvq, interest, at>>
      BY <1>5, <2>1, <2>4 DEF ParsePiece
    <3> QED BY <1>0, <1>1, <2>1, <2>2, <3>1 DEF Watching, WatchedFor, Aimed, Attends
  <2> QED BY <2>3, <2>4
<1>6. CASE RecvReturns
  <2>1. at = "parse" /\ at' = "handle" /\ UNCHANGED <<state, sendq, recvq, left, timed, work, link, tx>>
    BY <1>6 DEF RecvReturns, poll, net
  <2>2. CASE recvq # <<>>
    <3>1. interest' = {"R"} /\ watchdog' = Watch(watchdog, sendq, recvq, timed)
      BY <1>6, <2>2 DEF RecvReturns, SetActive, Epoll
    <3>2. timed[Head(recvq)]
      <4>1. Head(recvq) = recvq[1] /\ 1 \in 1..Len(recvq)
        BY <1>0, <2>2, EmptySeq
      <4> QED BY <1>0, <4>1 DEF WatchedFor, Aimed
    <3>3. watchdog'
      BY <2>2, <3>1, <3>2 DEF Watch
    <3> QED BY <1>0, <1>1, <2>1, <3>1, <3>3
            DEF Watching, WatchedFor, Aimed, Attends, Heard, Hears
  <2>3. CASE recvq = <<>>
    <3>1. UNCHANGED <<interest, watchdog>>
      BY <1>6, <2>3 DEF RecvReturns
    <3> QED BY <1>0, <1>1, <2>1, <2>3, <3>1
            DEF Watching, WatchedFor, Aimed, Attends, Heard, Hears, Pending
  <2> QED BY <2>2, <2>3
<1> QED BY <1>2, <1>3, <1>4, <1>5, <1>6

\* EV_CALL_DESTROYED: the burst goes on, or the next one starts.
LEMMA DestroyedWatching ==
  ASSUME IInv, Listening, InBurst, Stream, Watching, Epoll, Unbroken, BurstPending \/ NextBurst
  PROVE  Watching'
<1>0. /\ WatchedFor /\ Flow /\ state \notin ClosedStates
      /\ at \in {"destroy", "destroy_eof"} /\ at' = (IF at = "destroy" THEN "parse" ELSE "handle")
      /\ state = "REPLY_DONE" /\ state' \in {"REPLY_DONE", "REPLY_STATUS"}
      /\ UNCHANGED <<recvq, left, work, link, tx, fin>>
  BY WatchingType DEF BurstPending, NextBurst, ResumeReceiving, Destroying, Listening, poll, net, wire
<1>1. link = "up" /\ work = {}
  BY <1>0 DEF WatchedFor, Attends
<1>2. CASE BurstPending
  <2>1. UNCHANGED <<sendq, watchdog, interest, timed>>
    BY <1>2 DEF BurstPending
  <2> QED BY <1>0, <1>1, <2>1 DEF Watching, WatchedFor, Aimed, Attends, Heard, Hears, Pending
<1>3. CASE NextBurst
  <2>1. IssueCalls(interest, watchdog) /\ num_completed >= Threshold /\ num_calls < NumCalls
    BY <1>3, <1>0 DEF NextBurst, GoesOn
  <2>2. sendq = <<>> /\ recvq = <<>> /\ watchdog \in BOOLEAN
    BY <1>0, <2>1, NextBurstAlone DEF IInv, TypeOK
  <2>3. Aimed' /\ interest' = {"W"} /\ watchdog'
    BY <1>0, <2>1, <2>2, IssuingWatches
  <2> QED BY <1>0, <1>1, <2>3 DEF Watching, WatchedFor, Attends, Heard, Hears
<1> QED BY <1>2, <1>3

\* The kernel and the server only add to what there is to hear.
LEMMA ServerWatching ==
  ASSUME IInv, Listening, InBurst, Stream, Watching, Epoll, Unbroken, Serving \/ Break \/ ServerCloses
  PROVE  Watching'
<1>0. WatchedFor /\ UNCHANGED client /\ tx \in Seq(Calls)
  BY WatchingType DEF Serving, Accept, ServerReads, ServerWrites, Break, ServerCloses
<1>1. UNCHANGED <<state, sendq, recvq, watchdog, interest, left, timed, at, ready, work>>
  BY <1>0 DEF client, conn, poll
<1>2. CASE Accept
  BY <1>0, <1>1, <1>2 DEF Accept, Watching, WatchedFor, Connecting, Aimed
<1>3. CASE Break
  BY <1>3 DEF Break, Watching, Unbroken
<1>4. CASE ServerCloses
  BY <1>0, <1>1, <1>4
     DEF ServerCloses, Watching, WatchedFor, Connecting, Aimed, Attends, Heard, Hears, Pending
<1>5. CASE ServerReads
  <2>1. tx # <<>> /\ tx' = Tail(tx) /\ UNCHANGED <<link, rx, fin>>
    BY <1>5 DEF ServerReads
  <2>2. Len(tx') = Len(tx) - 1 /\ Len(tx) \in Nat
    BY <1>0, <2>1, HeadTailProperties
  <2> QED BY <1>0, <1>1, <2>1, <2>2, ConnectionAssumption
          DEF Watching, WatchedFor, Connecting, Aimed, Attends, Heard, Hears, Pending
<1>6. ASSUME NEW p \in {"head", "data", "end"}, ServerWrites(p) PROVE Watching'
  <2>1. rx' # <<>> /\ UNCHANGED <<link, tx, fin>>
    <3>1. rx \in Seq(Piece) /\ rx' = Append(rx, [call |-> Head(serving), part |-> p])
      BY <1>6, StreamType DEF ServerWrites
    <3>2. Len(rx') = Len(rx) + 1 /\ Len(rx) \in Nat
      BY <3>1
    <3>3. rx' # <<>>
      BY <3>2, EmptySeq
    <3> QED BY <1>6, <3>3 DEF ServerWrites
  <2> QED BY <1>0, <1>1, <2>1
          DEF Watching, WatchedFor, Connecting, Aimed, Attends, Heard, Hears, Pending
<1> QED BY <1>2, <1>3, <1>4, <1>5, <1>6 DEF Serving

LEMMA StepWatching ==
  Epoll /\ IInv /\ Listening /\ InBurst /\ Stream /\ TxBehind /\ Watching /\ [Next]_vars
  => Watching'
<1> SUFFICES ASSUME Epoll, IInv, Listening, InBurst, Stream, TxBehind, Watching, [Next]_vars
             PROVE  Watching'
  OBVIOUS
<1>1. CASE ConnectStarts \/ ConnectSucceeds
  BY <1>1, ConnectStartsWatching, ConnectSucceedsWatching
<1>2. CASE ConnectFails \/ ConnTimeout \/ SendFails \/ ReadFails \/ LastBurstDone
  BY <1>2 DEF ConnectFails, ConnTimeout, SendFails, ReadFails, LastBurstDone, CoreClose,
              Watching, Unbroken, Open, OpenStates
<1>3. CASE UNCHANGED vars
  BY <1>3 DEF vars, conn, poll, net, wire, Watching, Unbroken, Open, WatchedFor, Aimed, Connecting,
              Attends, Heard, Hears, Pending
<1>4. CASE Unbroken
  BY <1>1, <1>2, <1>3, <1>4, LoopingWatching, TakeEventWatching, SendingWatching,
     ReceivingWatching, DestroyedWatching, ServerWatching
     DEF Next, Opening, Looping, Sending, Receiving, CallDestroyed, Finished
<1>5. CASE ~Unbroken /\ ~(ConnectStarts \/ ConnectSucceeds) /\ Open'
  <2>1. CASE Poll \/ SkipEvent \/ TakeEvent \/ (\E dir \in {"R", "W"} : Handle(dir)) \/ EventDone
    BY <1>5, <2>1 DEF Poll, SkipEvent, TakeEvent, Handle, EventDone, conn, net, Watching, Unbroken,
                      Open, OpenStates
  <2>2. CASE SendBlocks \/ ReadBlocks \/ RecvReturns \/ (\E n \in 1..RxMax : ReadData(n))
    BY <1>5, <2>2 DEF SendBlocks, ReadBlocks, RecvReturns, ReadData, conn, net, Watching, Unbroken, Open
  <2>3. CASE (\E n \in 1..ReqSize : SendPart(n) \/ SendAll(n)) \/ ReadEnds
    BY <1>5, <2>3 DEF SendPart, SendAll, Writes, ReadEnds, Unbroken, IInv, ThreadOK
  <2>4. CASE ParsePiece \/ BurstPending \/ NextBurst
    BY <1>5, <2>4 DEF ParsePiece, BurstPending, NextBurst, ResumeReceiving, Destroying, net, Watching,
                      Unbroken, IInv, ThreadOK
  <2>5. CASE Serving \/ Break \/ ServerCloses
    BY <1>5, <2>5 DEF Serving, Accept, ServerReads, ServerWrites, Break, ServerCloses, client, conn,
                      Watching, Unbroken, Open
  <2> QED BY <1>2, <1>3, <1>5, <2>1, <2>2, <2>3, <2>4, <2>5
          DEF Next, Opening, Looping, Sending, Receiving, CallDestroyed, Finished
<1>6. CASE ~Open'
  BY <1>6 DEF Watching, Unbroken
<1> QED BY <1>1, <1>4, <1>5, <1>6

THEOREM WatchingInductive == Spec => [](Epoll => Watching)
<1>1. Init => (Epoll => Watching)
  BY DEF Init, Watching, Unbroken, Open, OpenStates
<1>2. /\ IInv /\ Listening /\ InBurst /\ Stream /\ TxBehind
      /\ (Epoll => Watching) /\ [Next]_vars
      => (Epoll => Watching)'
  BY StepWatching DEF Epoll
<1> QED BY <1>1, <1>2, Inductive, ListensInductive, BurstInductive, StreamInductive,
           BehindInductive, PTL DEF Spec

(* With epoll and --timeout, whatever a connection waits for and however   *)
(* the server falls silent, its watchdog is armed (core.c:479-492, 580-592, *)
(* 638-641, 1557-1560).  With select a request sent in parts can be left    *)
(* unwatched.                                                              *)
THEOREM EpollWatches == Spec => [](Backend = "epoll" => Watched)
<1>1. IInv /\ Listening /\ (Epoll => Watching) => (Backend = "epoll" => Watched)
  <2> SUFFICES ASSUME IInv, Listening, Epoll, Watching, Silence, Pending \/ state = "CONNECTING"
               PROVE  watchdog
    BY DEF Watched, WatchedWhileReceiving, WatchedWhileSending, Epoll, Pending
  <2>1. Backend = "epoll" /\ Timeout /\ at = "loop" /\ Events = {} /\ Len(<<>>) = 0
        /\ TxMax \in Nat \ {0}
    BY ConnectionAssumption, EmptySeq DEF Epoll, Silence
  <2>2. Unbroken
    <3>1. state \notin ClosedStates
      BY DEF IInv, ClosedIsQuiet, ClosedStates, Pending
    <3>2. Open
      BY <2>1, <3>1 DEF IInv, TypeOK, ThreadOK, States, ClosedStates, Open
    <3>3. link # "broken"
      BY <2>1 DEF Events
    <3> QED BY <3>2, <3>3 DEF Unbroken
  <2>3. CASE state = "CONNECTING"
    BY <2>2, <2>3 DEF Watching, WatchedFor, Connecting
  <2>4. CASE state # "CONNECTING"
    BY <2>1, <2>2, <2>4
       DEF Watching, WatchedFor, Aimed, Attends, Hears, Events, Readable, Writable
  <2> QED BY <2>3, <2>4
<1> QED BY <1>1, WatchingInductive, Inductive, ListensInductive, PTL
=============================================================================
