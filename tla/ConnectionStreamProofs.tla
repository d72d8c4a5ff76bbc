----------------------- MODULE ConnectionStreamProofs -----------------------
(***************************************************************************)
(* Replies carry no identity: httperf gives each to the call at the head   *)
(* of its receive queue.  For any number of calls, any bursts, any sizes   *)
(* and any cutting of requests and replies, it is the right one.           *)
(***************************************************************************)
EXTENDS ConnectionProofs

\* The last call whose request is written as a whole.
SentTo == Issued - Len(sendq)

\* What of the replies is on its way to the parser.
Pieces == buf \o rx

EndOf(piece) == IF piece.part = "end" THEN 1 ELSE 0

\* The pieces p follow the reply to call b, in the order of the calls up to s.
InOrder(p, b, s) ==
  /\ p # <<>> => p[1].call = b + 1
  /\ \A k \in 1..Len(p) - 1 : p[k + 1].call = p[k].call + EndOf(p[k])
  /\ \A k \in 1..Len(p) : p[k].call <= s

\* The call whose reply the pieces after p belong to.
NextReply(p, b) == IF p = <<>> THEN b + 1 ELSE p[Len(p)].call + EndOf(p[Len(p)])

Serves == NextReply(Pieces, SentTo - Len(recvq))

\* Only the head of the send queue may be written in part.
Unwritten ==
  \A c \in Calls : /\ c = SentTo + 1 => left[c] > 0
                   /\ c > SentTo + 1 \/ (c = SentTo + 1 /\ sendq = <<>>) => left[c] = ReqSize

Partly == IF sendq = <<>> THEN 0 ELSE ReqSize - left[Head(sendq)]

\* Unit j of a stream of requests belongs to the d-th after the first.
InRequest(d, j) == ReqSize * d < j /\ j <= ReqSize * (d + 1)

(* The units the server has read, those of them that make up the request   *)
(* it serves, and those in flight are the requests from Serves on.         *)
Asked ==
  /\ \A k \in 1..Len(serving) : serving[k] = Serves
  /\ \A j \in 1..Len(tx) : InRequest(tx[j] - Serves, Len(serving) + j)
  /\ Len(serving) + Len(tx) = ReqSize * (SentTo + 1 - Serves) + Partly

Flowing == link \in {"none", "syn", "up"} /\ ~fin

Flow == /\ InOrder(Pieces, SentTo - Len(recvq), SentTo)
        /\ Unwritten
        /\ Flowing => Asked

Stream ==
  /\ at \notin {"parse", "destroy"} => buf = <<>>
  /\ \A k \in 1..Len(serving) : serving[k] = serving[1]
  /\ Len(serving) <= ReqSize
  /\ state = "INITIAL" => link = "none"
  /\ state \notin ClosedStates => Flow

-----------------------------------------------------------------------------
\* Sequences of pieces, and the arithmetic of requests of ReqSize units

LEMMA PieceType ==
  ASSUME NEW p \in Seq(Piece)
  PROVE  \A k \in 1..Len(p) : p[k].call \in Int /\ EndOf(p[k]) \in {0, 1}
<1> SUFFICES ASSUME NEW k \in 1..Len(p) PROVE p[k].call \in Int /\ EndOf(p[k]) \in {0, 1}
  OBVIOUS
<1>1. p[k] \in Piece
  BY ElementOfSeq
<1>2. p[k].call \in Calls
  BY <1>1 DEF Piece
<1> QED BY <1>2 DEF Calls, EndOf

LEMMA TailInOrder ==
  ASSUME NEW p \in Seq(Piece), p # <<>>, NEW b \in Int, NEW s \in Int, InOrder(p, b, s)
  PROVE  /\ InOrder(Tail(p), b + EndOf(p[1]), s)
         /\ NextReply(Tail(p), b + EndOf(p[1])) = NextReply(p, b)
<1>0. /\ Len(p) \in Nat \ {0} /\ Tail(p) \in Seq(Piece) /\ Len(Tail(p)) = Len(p) - 1
      /\ \A k \in 1..Len(Tail(p)) : Tail(p)[k] = p[k + 1]
  BY HeadTailProperties
<1>1. /\ Len(p) \in Nat \ {0} /\ Tail(p) \in Seq(Piece) /\ Len(Tail(p)) = Len(p) - 1
      /\ \A k \in 1..Len(Tail(p)) : Tail(p)[k] = p[k + 1]
      /\ (Tail(p) = <<>>) <=> (Len(p) = 1)
  <2>1. (Tail(p) = <<>>) <=> (Len(Tail(p)) = 0)
    BY <1>0, EmptySeq
  <2> QED BY <1>0, <2>1
<1>2. \A k \in 1..Len(p) : p[k].call \in Int /\ EndOf(p[k]) \in {0, 1}
  BY PieceType
<1> DEFINE t == Tail(p)
<1>3. /\ Len(t) \in Nat /\ Len(p) = Len(t) + 1 /\ \A k \in 1..Len(t) : t[k] = p[k + 1]
      /\ t = <<>> <=> Len(t) = 0
  BY <1>1
<1> HIDE DEF t
<1>4. InOrder(t, b + EndOf(p[1]), s)
  <2>1. t # <<>> => t[1].call = b + EndOf(p[1]) + 1
    BY <1>2, <1>3 DEF InOrder
  <2>2. \A k \in 1..Len(t) - 1 : t[k + 1].call = t[k].call + EndOf(t[k])
    <3> SUFFICES ASSUME NEW k \in 1..Len(t) - 1 PROVE t[k + 1].call = t[k].call + EndOf(t[k])
      OBVIOUS
    <3>1. t[k] = p[k + 1] /\ t[k + 1] = p[(k + 1) + 1] /\ k + 1 \in 1..Len(p) - 1
      BY <1>3
    <3> QED BY <3>1 DEF InOrder
  <2>3. \A k \in 1..Len(t) : t[k].call <= s
    BY <1>3 DEF InOrder
  <2> QED BY <2>1, <2>2, <2>3 DEF InOrder
<1>5. NextReply(t, b + EndOf(p[1])) = NextReply(p, b)
  <2>1. CASE t = <<>>
    BY <1>2, <1>3, <2>1 DEF InOrder, NextReply
  <2>2. CASE t # <<>>
    <3>1. t[Len(t)] = p[Len(p)]
      BY <1>3, <2>2
    <3> QED BY <2>2, <3>1 DEF NextReply
  <2> QED BY <2>1, <2>2
<1> QED BY <1>4, <1>5 DEF t

LEMMA AppendInOrder ==
  ASSUME NEW p \in Seq(Piece), NEW b \in Int, NEW s \in Int, InOrder(p, b, s),
         NEW q \in Piece, q.call = NextReply(p, b), q.call <= s
  PROVE  /\ InOrder(Append(p, q), b, s)
         /\ NextReply(Append(p, q), b) = q.call + EndOf(q)
<1> DEFINE a == Append(p, q)
<1>1. /\ Len(p) \in Nat /\ Len(a) = Len(p) + 1 /\ a # <<>>
      /\ \A k \in 1..Len(p) : a[k] = p[k]
      /\ a[Len(p) + 1] = q
      /\ p = <<>> <=> Len(p) = 0
  BY AppendProperties, EmptySeq
<1> HIDE DEF a
<1>2. a[1].call = b + 1
  BY <1>1 DEF InOrder, NextReply
<1>3. \A k \in 1..Len(a) - 1 : a[k + 1].call = a[k].call + EndOf(a[k])
  <2> SUFFICES ASSUME NEW k \in 1..Len(a) - 1 PROVE a[k + 1].call = a[k].call + EndOf(a[k])
    OBVIOUS
  <2>1. CASE k < Len(p)
    <3>1. k \in 1..Len(p) - 1 /\ a[k] = p[k] /\ a[k + 1] = p[k + 1]
      BY <1>1, <2>1
    <3> QED BY <3>1 DEF InOrder
  <2>2. CASE k = Len(p)
    <3>1. p # <<>> /\ a[k] = p[k] /\ a[k + 1] = q
      BY <1>1, <2>2
    <3> QED BY <2>2, <3>1 DEF NextReply
  <2> QED BY <1>1, <2>1, <2>2
<1>4. \A k \in 1..Len(a) : a[k].call <= s
  BY <1>1 DEF InOrder
<1>5. NextReply(a, b) = q.call + EndOf(q)
  BY <1>1 DEF NextReply
<1> QED BY <1>2, <1>3, <1>4, <1>5 DEF InOrder, a

\* The first ReqSize units are those of the first request.
LEMMA FirstRequest ==
  ASSUME NEW d \in Int, NEW j \in 1..ReqSize, InRequest(d, j)
  PROVE  d = 0
<1>0. ReqSize \in Nat \ {0}
  BY ConnectionAssumption
<1>1. CASE d >= 1
  <2>1. ReqSize * d >= ReqSize
    BY <1>0, <1>1
  <2> QED BY <1>0, <2>1 DEF InRequest
<1>2. CASE d <= -1
  <2>1. ReqSize * (d + 1) <= 0
    BY <1>0, <1>2
  <2> QED BY <1>0, <2>1 DEF InRequest
<1> QED BY <1>1, <1>2

LEMMA NextRequest ==
  ASSUME NEW d \in Int
  PROVE  /\ ReqSize * d \in Int
         /\ ReqSize * (d + 1) = ReqSize * d + ReqSize
         /\ ReqSize * (d - 1) = ReqSize * d - ReqSize
BY ConnectionAssumption

-----------------------------------------------------------------------------
\* The types of what the invariant speaks about

LEMMA StreamType ==
  ASSUME IInv
  PROVE  /\ SentTo \in Int /\ Pieces \in Seq(Piece) /\ Serves \in Int /\ Partly \in Int
         /\ sendq \in Seq(Calls) /\ recvq \in Seq(Calls) /\ buf \in Seq(Piece) /\ rx \in Seq(Piece)
         /\ tx \in Seq(Calls) /\ serving \in Seq(Calls) /\ left \in [Calls -> 0..ReqSize]
         /\ Len(sendq) \in Nat /\ Len(recvq) \in Nat /\ Len(tx) \in Nat /\ Len(serving) \in Nat
         /\ ReqSize \in Nat \ {0} /\ Issued \in Int
<1>1. /\ sendq \in Seq(Calls) /\ recvq \in Seq(Calls) /\ buf \in Seq(Piece) /\ rx \in Seq(Piece)
      /\ tx \in Seq(Calls) /\ serving \in Seq(Calls) /\ left \in [Calls -> 0..ReqSize]
      /\ num_calls \in Nat /\ NumCalls \in Nat /\ ReqSize \in Nat \ {0}
  BY ConnectionAssumption DEF IInv, TypeOK
<1>2. Len(sendq) \in Nat /\ Len(recvq) \in Nat /\ Len(tx) \in Nat /\ Len(serving) \in Nat
  BY <1>1
<1>3. Issued \in Int /\ SentTo \in Int
  BY <1>1, <1>2 DEF Issued, MinOf, SentTo
<1>4. Pieces \in Seq(Piece)
  BY <1>1, ConcatProperties DEF Pieces
<1>5. Serves \in Int
  <2>1. \A k \in 1..Len(Pieces) : Pieces[k].call \in Int /\ EndOf(Pieces[k]) \in {0, 1}
    BY <1>4, PieceType
  <2>2. Pieces # <<>> => Len(Pieces) \in 1..Len(Pieces)
    BY <1>4, EmptySeq
  <2> QED BY <1>2, <1>3, <2>1, <2>2 DEF Serves, NextReply
<1>6. Partly \in Int
  <2>1. sendq # <<>> => Head(sendq) \in Calls
    BY <1>1, HeadTailProperties
  <2> QED BY <1>1, <2>1 DEF Partly
<1> QED BY <1>1, <1>2, <1>3, <1>4, <1>5, <1>6

\* The numbers of the calls that are not written or being written
LEMMA Unsent ==
  ASSUME IInv, InBurst, state \notin ClosedStates
  PROVE  /\ sendq # <<>> => Head(sendq) = SentTo + 1 /\ SentTo + 1 \in Calls
         /\ \A k \in 1..Len(sendq) : sendq[k] = SentTo + k /\ sendq[k] \in Calls
<1>1. /\ sendq \in Seq(Calls) /\ Len(sendq) \in Nat /\ Issued \in Int
      /\ \A k \in 1..Len(sendq) : sendq[k] = Issued - Len(sendq) + k
  BY StreamType DEF InBurst
<1>2. \A k \in 1..Len(sendq) : sendq[k] = SentTo + k /\ sendq[k] \in Calls
  BY <1>1, ElementOfSeq DEF SentTo
<1>3. sendq # <<>> => 1 \in 1..Len(sendq) /\ Head(sendq) = sendq[1]
  BY <1>1, EmptySeq
<1> QED BY <1>2, <1>3

\* What a request has left bounds what of it is written.
LEMMA PartlyWritten ==
  ASSUME IInv, InBurst, Unwritten, state \notin ClosedStates
  PROVE  /\ Partly \in 0..ReqSize - 1
         /\ sendq # <<>> => Partly = ReqSize - left[SentTo + 1]
<1>1. sendq # <<>> => /\ SentTo + 1 \in Calls /\ Head(sendq) = SentTo + 1
                      /\ left[SentTo + 1] \in 1..ReqSize
  BY Unsent, StreamType DEF Unwritten
<1> QED BY SMTT(30), <1>1, StreamType DEF Partly

-----------------------------------------------------------------------------
\* Flow, action by action

\* The steps that move no units and no calls
LEMMA UnmovedFlow ==
  ASSUME Flow, UNCHANGED <<sendq, recvq, num_calls, left, buf, rx>>,
         Flowing' => Flowing /\ UNCHANGED <<tx, serving>>
  PROVE  Flow'
<1>1. Pieces' = Pieces /\ SentTo' = SentTo /\ Serves' = Serves /\ Partly' = Partly
  BY DEF Pieces, SentTo, Issued, Serves, Partly
<1>2. InOrder(Pieces, SentTo - Len(recvq), SentTo)' /\ Unwritten'
  BY <1>1 DEF Flow, Unwritten
<1>3. Flowing' => Asked'
  BY <1>1 DEF Flow, Asked
<1> QED BY <1>2, <1>3 DEF Flow

\* issue_calls with nothing in flight: the burst is not empty, and nothing of
\* it is written.
LEMMA FreshBurst ==
  ASSUME IInv, InBurst, Unwritten, state \notin ClosedStates,
         sendq = <<>>, recvq = <<>>, num_calls < NumCalls
  PROVE  /\ Burst \in Seq(Calls) /\ Burst # <<>> /\ sendq \o Burst = Burst
         /\ Len(Burst) = MinOf(BurstLen, NumCalls - num_calls)
         /\ Head(Burst) = SentTo + 1 /\ SentTo + 1 \in Calls
         /\ left[Head(Burst)] = ReqSize
<1> DEFINE m == MinOf(BurstLen, NumCalls - num_calls)
<1>1. num_calls \in Nat /\ NumCalls \in Nat \ {0} /\ BurstLen \in Nat \ {0}
  BY ConnectionAssumption DEF IInv, TypeOK
<1>2. m \in Nat \ {0} /\ m = MinOf(BurstLen, NumCalls - Issued) /\ Issued = num_calls
  BY <1>1 DEF MinOf, Issued
<1>3. Burst \in Seq(Calls) /\ Len(Burst) = m /\ Burst[1] = num_calls + 1
  BY <1>2, BurstType DEF Burst, Issued, IInv
<1>4. SentTo = num_calls
  BY <1>1, <1>2 DEF SentTo
<1>5. Burst # <<>> /\ Head(Burst) = SentTo + 1 /\ SentTo + 1 \in Calls
  BY <1>2, <1>3, <1>4, EmptySeq, HeadTailProperties
<1>6. sendq \o Burst = Burst
  BY <1>3, ConcatEmptySeq
<1> QED BY <1>3, <1>5, <1>6 DEF Unwritten

\* issue_calls, when nothing is in flight
LEMMA IssuingFlow ==
  ASSUME IInv, InBurst, Flow, state \notin ClosedStates, BurstStarts,
         sendq' = sendq \o Burst, sendq = <<>>, recvq = <<>>, num_calls < NumCalls,
         num_calls = 0 \/ BurstLen <= num_calls,
         UNCHANGED <<recvq, left, buf, rx, tx, fin, serving>>, Flowing' => Flowing
  PROVE  Flow'
<1> DEFINE m == MinOf(BurstLen, NumCalls - num_calls)
<1>1. num_calls \in Nat /\ NumCalls \in Nat \ {0} /\ BurstLen \in Nat \ {0}
  BY ConnectionAssumption DEF IInv, TypeOK
<1>2. m \in Nat \ {0} /\ m = MinOf(BurstLen, NumCalls - Issued) /\ Issued = num_calls
  BY <1>1 DEF MinOf, Issued
<1>3. Burst \in Seq(Calls) /\ Len(Burst) = m /\ Burst # <<>> /\ Head(Burst) = SentTo + 1
      /\ SentTo + 1 \in Calls /\ left[SentTo + 1] = ReqSize
  BY <1>2, FreshBurst DEF Flow
<1>4. sendq' = Burst
  BY FreshBurst DEF Flow
<1>5. Issued' = num_calls + m
  BY <1>1 DEF BurstStarts, Issued, MinOf
<1> HIDE DEF m
<1>6. SentTo' = SentTo /\ sendq' # <<>>
  BY <1>1, <1>2, <1>3, <1>4, <1>5, EmptySeq DEF SentTo
<1>7. Pieces' = Pieces /\ Serves' = Serves
  BY <1>6 DEF Pieces, Serves
<1>8. InOrder(Pieces, SentTo - Len(recvq), SentTo)'
  BY <1>6, <1>7 DEF Flow
<1>9. Unwritten'
  BY <1>6, StreamType DEF Flow, Unwritten
<1>10. Partly' = Partly
  BY <1>3, <1>4, StreamType DEF Partly
<1>11. Flowing' => Asked'
  BY <1>6, <1>7, <1>10 DEF Flow, Asked
<1> QED BY <1>8, <1>9, <1>11 DEF Flow

\* writev's n units go to the request that is written.
LEMMA UnitsSent ==
  ASSUME IInv, InBurst, Unwritten, Asked, state \notin ClosedStates,
         NEW n \in 1..ReqSize, Writes(n), UNCHANGED serving, Serves' = Serves
  PROVE  /\ \A k \in 1..Len(serving') : serving'[k] = Serves'
         /\ \A j \in 1..Len(tx') : InRequest(tx'[j] - Serves', Len(serving') + j)
         /\ Len(serving') + Len(tx') = ReqSize * (SentTo + 1 - Serves) + Partly + n
<1> DEFINE c == Head(sendq)
           u == Units(c, n)
           d == SentTo + 1 - Serves
<1>0. /\ Len(tx) \in Nat /\ Len(serving) \in Nat /\ tx \in Seq(Calls)
      /\ SentTo \in Int /\ Serves \in Int /\ ReqSize \in Nat \ {0}
      /\ left \in [Calls -> 0..ReqSize] /\ Partly \in 0..ReqSize - 1 /\ n \in Nat \ {0}
  BY StreamType, PartlyWritten
<1>1. c = SentTo + 1 /\ c \in Calls /\ n <= left[c] /\ tx' = tx \o u /\ Partly = ReqSize - left[c]
  BY Unsent, PartlyWritten DEF Writes, IInv, ThreadOK
<1> HIDE DEF c
<1>2. Partly + n <= ReqSize /\ Partly >= 0
  <2>1. left[c] \in 0..ReqSize
    BY <1>0, <1>1
  <2> QED BY <1>0, <1>1, <2>1
<1>3. u \in Seq(Calls) /\ Len(u) = n /\ \A k \in 1..n : u[k] = c
  BY <1>0, <1>1, UnitsType DEF Units
<1> HIDE DEF u
<1>4. /\ Len(tx') = Len(tx) + n
      /\ \A j \in 1..Len(tx) + n : tx'[j] = IF j <= Len(tx) THEN tx[j] ELSE c
  <2>1. /\ Len(tx') = Len(tx) + Len(u)
        /\ \A j \in 1..Len(tx) + Len(u) : tx'[j] = IF j <= Len(tx) THEN tx[j] ELSE u[j - Len(tx)]
    BY <1>0, <1>1, <1>3, ConcatProperties
  <2>2. \A j \in 1..Len(tx) + n : j > Len(tx) => j - Len(tx) \in 1..n
    BY <1>0
  <2> QED BY <1>0, <1>3, <2>1, <2>2
<1>5. d \in Int /\ c - Serves = d
  BY <1>0, <1>1
<1>6. Len(serving) + Len(tx) = ReqSize * d + Partly
  BY DEF Asked
<1> HIDE DEF d
<1>7. ReqSize * d \in Int /\ ReqSize * (d + 1) = ReqSize * d + ReqSize
  BY <1>5, NextRequest
<1>8. ASSUME NEW j \in 1..Len(tx) + n
      PROVE  InRequest(tx'[j] - Serves, Len(serving) + j)
  <2>1. CASE j <= Len(tx)
    <3>1. j \in 1..Len(tx) /\ tx'[j] = tx[j]
      BY <1>0, <1>4, <2>1
    <3> QED BY <3>1 DEF Asked
  <2>2. CASE j > Len(tx)
    <3>1. tx'[j] - Serves = d
      BY <1>0, <1>4, <1>5, <2>2
    <3>2. ReqSize * d < Len(serving) + j /\ Len(serving) + j <= ReqSize * (d + 1)
      BY <1>0, <1>2, <1>6, <1>7, <2>2
    <3> QED BY <3>1, <3>2 DEF InRequest
  <2> QED BY <1>0, <2>1, <2>2
<1>9. Len(serving') + Len(tx') = ReqSize * d + Partly + n
  BY <1>0, <1>4, <1>6, <1>7
<1> QED BY <1>4, <1>8, <1>9 DEF Asked, d

LEMMA SendPartFlow ==
  ASSUME IInv, InBurst, Flow, state \notin ClosedStates, NEW n \in 1..ReqSize, SendPart(n)
  PROVE  Flow'
<1>1. /\ UNCHANGED <<sendq, recvq, num_calls, buf, rx, link, fin, serving>> /\ Writes(n)
      /\ n < left[Head(sendq)] /\ left' = [left EXCEPT ![Head(sendq)] = @ - n]
      /\ sendq # <<>>
  BY DEF SendPart, Writes, callseq, wire, IInv, ThreadOK
<1>2. Pieces' = Pieces /\ SentTo' = SentTo /\ Serves' = Serves /\ (Flowing' <=> Flowing)
  BY <1>1 DEF Pieces, SentTo, Issued, Serves, Flowing
<1>3. InOrder(Pieces, SentTo - Len(recvq), SentTo)'
  BY <1>1, <1>2 DEF Flow
<1>4. Head(sendq) = SentTo + 1 /\ SentTo + 1 \in Calls /\ left[SentTo + 1] \in 0..ReqSize
      /\ SentTo \in Int /\ n \in Nat
  BY <1>1, Unsent, StreamType
<1>5. Unwritten'
  <2>1. \A c \in Calls : left'[c] = IF c = SentTo + 1 THEN left[c] - n ELSE left[c]
    BY <1>1, <1>4, StreamType
  <2> QED BY <1>1, <1>2, <1>4, <2>1 DEF Flow, Unwritten, Calls
<1>6. Partly' = Partly + n
  BY <1>1, <1>2, <1>4, StreamType DEF Partly
<1>7. Flowing' => Asked'
  <2> SUFFICES ASSUME Flowing PROVE Asked'
    BY <1>2
  <2>1. Len(serving') + Len(tx') = ReqSize * (SentTo' + 1 - Serves') + Partly'
    <3>1. Len(serving') + Len(tx') = ReqSize * (SentTo + 1 - Serves) + Partly + n
      BY <1>1, <1>2, UnitsSent DEF Flow
    <3>2. SentTo' + 1 - Serves' = SentTo + 1 - Serves
      BY <1>2
    <3> DEFINE all == ReqSize * (SentTo + 1 - Serves)
    <3>3. all \in Int /\ Partly \in Int
      <4> DEFINE d == SentTo + 1 - Serves
      <4>1. d \in Int
        BY StreamType
      <4> HIDE DEF d
      <4>2. ReqSize * d \in Int
        BY <4>1, NextRequest
      <4> QED BY <4>2, StreamType DEF d
    <3>4. Len(serving') + Len(tx') = all + Partly + n
      BY <3>1
    <3> HIDE DEF all
    <3>5. Len(serving') + Len(tx') = all + Partly'
      BY <1>4, <1>6, <3>3, <3>4
    <3> QED BY <3>2, <3>5 DEF all
  <2> QED BY <1>1, <1>2, <2>1, UnitsSent DEF Flow, Asked
<1> QED BY <1>3, <1>5, <1>7 DEF Flow

\* What follows the request that is out has not been begun.
LEMMA NextUnwritten ==
  ASSUME IInv, InBurst, Flow, state \notin ClosedStates, NEW n \in 1..ReqSize, SendAll(n)
  PROVE  sendq' # <<>> => Head(sendq') \in Calls /\ left'[Head(sendq')] = ReqSize
<1> SUFFICES ASSUME sendq' # <<>> PROVE Head(sendq') \in Calls /\ left'[Head(sendq')] = ReqSize
  OBVIOUS
<1>1. /\ sendq # <<>> /\ sendq \in Seq(Calls) /\ sendq' = Tail(sendq)
      /\ left' = [left EXCEPT ![Head(sendq)] = @ - n]
  BY StreamType DEF SendAll, Writes, IInv, ThreadOK
<1>2. /\ sendq' \in Seq(Calls) /\ Len(sendq') = Len(sendq) - 1 /\ Len(sendq) \in Nat
      /\ \A k \in 1..Len(sendq') : sendq'[k] = sendq[k + 1]
  BY <1>1, HeadTailProperties
<1>3. 1 \in 1..Len(sendq') /\ 2 \in 1..Len(sendq) /\ Head(sendq') = sendq'[1]
  BY <1>2, EmptySeq
<1>4. Head(sendq') = SentTo + 2 /\ SentTo + 2 \in Calls /\ Head(sendq) = SentTo + 1
  BY <1>1, <1>2, <1>3, Unsent
<1>5. SentTo \in Int /\ left[SentTo + 2] = ReqSize
  BY <1>4, StreamType DEF Flow, Unwritten
<1>6. left'[SentTo + 2] = left[SentTo + 2]
  BY <1>1, <1>4, <1>5
<1> QED BY <1>4, <1>5, <1>6

LEMMA SendAllFlow ==
  ASSUME IInv, InBurst, Flow, state \notin ClosedStates, NEW n \in 1..ReqSize, SendAll(n)
  PROVE  Flow'
<1>1. /\ UNCHANGED <<num_calls, buf, rx, link, fin, serving>> /\ Writes(n)
      /\ sendq # <<>> /\ sendq' = Tail(sendq) /\ recvq' = Append(recvq, Head(sendq))
      /\ n = left[Head(sendq)] /\ left' = [left EXCEPT ![Head(sendq)] = @ - n]
  BY DEF SendAll, Writes, Awaiting, callseq, wire, IInv, ThreadOK
<1>2. Head(sendq) = SentTo + 1 /\ SentTo + 1 \in Calls
  BY <1>1, Unsent
<1>3. /\ Len(sendq') = Len(sendq) - 1 /\ Len(recvq') = Len(recvq) + 1 /\ sendq' \in Seq(Calls)
      /\ \A k \in 1..Len(sendq') : sendq'[k] = sendq[k + 1]
  <2>1. sendq \in Seq(Calls) /\ recvq \in Seq(Calls) /\ Head(sendq) \in Calls
    BY <1>2, StreamType
  <2>2. /\ Len(sendq') = Len(sendq) - 1 /\ sendq' \in Seq(Calls)
        /\ \A k \in 1..Len(sendq') : sendq'[k] = sendq[k + 1]
    BY <1>1, <2>1, HeadTailProperties
  <2>3. Len(recvq') = Len(recvq) + 1
    BY <1>1, <2>1, AppendProperties
  <2> QED BY <2>2, <2>3
<1>4. SentTo' = SentTo + 1 /\ (SentTo - Len(recvq))' = SentTo - Len(recvq)
  <2>1. Issued' = Issued
    BY <1>1 DEF Issued
  <2>2. SentTo' = SentTo + 1
    BY SMTT(30), <1>3, <2>1, StreamType DEF SentTo
  <2> QED BY SMTT(30), <1>3, <2>2, StreamType
<1>5. Pieces' = Pieces /\ Serves' = Serves /\ (Flowing' <=> Flowing)
  BY <1>1, <1>4 DEF Pieces, Serves, Flowing
<1>6. InOrder(Pieces, SentTo - Len(recvq), SentTo)'
  <2>1. \A k \in 1..Len(Pieces) : Pieces[k].call <= SentTo /\ Pieces[k].call \in Int
    BY StreamType, PieceType DEF Flow, InOrder
  <2>2. \A k \in 1..Len(Pieces) : Pieces[k].call <= SentTo + 1
    BY SMTT(30), <2>1, StreamType
  <2> QED BY <1>4, <1>5, <2>2 DEF Flow, InOrder
<1>7. \A c \in Calls : c > SentTo + 1 => left'[c] = ReqSize
  BY SMTT(30), <1>1, <1>2, StreamType DEF Flow, Unwritten
<1>8. Unwritten'
  <2>1. ReqSize \in Nat \ {0} /\ SentTo \in Int
    BY StreamType
  <2>2. \A c \in Calls : c >= SentTo' + 1 => left'[c] = ReqSize
    BY <1>4, <1>7, <2>1 DEF Calls
  <2> QED BY <1>4, <2>1, <2>2 DEF Unwritten, Calls
<1>9. Partly' = 0
  <2>1. sendq' # <<>> => left'[Head(sendq')] = ReqSize
    BY NextUnwritten
  <2> QED BY <2>1, StreamType DEF Partly
<1>10. Flowing' => Asked'
  <2> SUFFICES ASSUME Flowing PROVE Asked'
    BY <1>5
  <2> DEFINE d == SentTo + 1 - Serves
  <2>1. Len(serving') + Len(tx') = ReqSize * d + Partly + n
    BY <1>1, <1>5, UnitsSent DEF Flow
  <2>2. Partly + n = ReqSize
    <3>1. Partly = ReqSize - left[SentTo + 1] /\ n = left[SentTo + 1]
      BY <1>1, <1>2, PartlyWritten DEF Flow
    <3> QED BY SMTT(30), <3>1, StreamType
  <2>3. d \in Int /\ SentTo' + 1 - Serves' = d + 1
    <3>1. SentTo \in Int /\ Serves \in Int
      BY StreamType
    <3>2. SentTo' = SentTo + 1 /\ Serves' = Serves
      BY <1>4, <1>5
    <3> QED BY <3>1, <3>2
  <2> HIDE DEF d
  <2>4. ReqSize * d \in Int /\ ReqSize * (d + 1) = ReqSize * d + ReqSize
    BY <2>3, NextRequest
  <2>5. Len(serving') + Len(tx') = ReqSize * (SentTo' + 1 - Serves') + Partly'
    BY SMTT(30), <1>9, <2>1, <2>2, <2>3, <2>4, StreamType
  <2> QED BY <1>1, <1>5, <2>5, UnitsSent DEF Flow, Asked
<1> QED BY <1>6, <1>8, <1>10 DEF Flow

\* A read takes pieces from the kernel and leaves their order alone.
LEMMA ReadDataPieces ==
  ASSUME IInv, Stream, NEW n \in 1..RxMax, ReadData(n)
  PROVE  Pieces' = Pieces
<1>0. n \in Nat /\ n <= Len(rx) /\ rx \in Seq(Piece) /\ Len(rx) \in Nat
  BY ConnectionAssumption, StreamType DEF ReadData
<1>1. buf = <<>> /\ buf' = SubSeq(rx, 1, n) /\ rx' = SubSeq(rx, n + 1, Len(rx))
  BY DEF ReadData, Stream
<1>2. Pieces' = rx
  <2>1. SubSeq(rx, 1, n) \o SubSeq(rx, n + 1, Len(rx)) = SubSeq(rx, 1, Len(rx))
    BY <1>0, ConcatAdjacentSubSeq
  <2>2. SubSeq(rx, 1, Len(rx)) = rx
    BY <1>0, SubSeqFull
  <2> QED BY <1>1, <2>1, <2>2 DEF Pieces
<1>3. Pieces = rx
  <2>1. Pieces = <<>> \o rx
    BY <1>1 DEF Pieces
  <2> QED BY <1>0, <2>1, ConcatEmptySeq
<1> QED BY <1>2, <1>3

LEMMA ReadDataFlow ==
  ASSUME IInv, Stream, Flow, NEW n \in 1..RxMax, ReadData(n)
  PROVE  Flow'
<1>1. UNCHANGED <<sendq, recvq, num_calls, left, link, tx, fin, serving>>
  BY DEF ReadData, conn, callseq
<1>2. /\ Pieces' = Pieces /\ SentTo' = SentTo /\ Serves' = Serves /\ Partly' = Partly
      /\ (Flowing' <=> Flowing)
  BY <1>1, ReadDataPieces DEF SentTo, Issued, Serves, Partly, Flowing
<1>3. InOrder(Pieces, SentTo - Len(recvq), SentTo)' /\ Unwritten'
  BY <1>1, <1>2 DEF Flow, Unwritten
<1>4. Flowing' => Asked'
  BY <1>1, <1>2 DEF Flow, Asked
<1> QED BY <1>3, <1>4 DEF Flow

\* A reply that ends with the connection: nothing follows it.
LEMMA ReadEndsFlow ==
  ASSUME IInv, Stream, Flow, ReadEnds
  PROVE  Flow'
<1>1. /\ buf = <<>> /\ rx = <<>> /\ fin /\ recvq # <<>> /\ recvq' = Tail(recvq)
      /\ UNCHANGED <<sendq, num_calls, left, buf, link, tx, rx, fin, serving>>
  BY DEF ReadEnds, RecvDone, Stream, net, wire, IInv, ThreadOK
<1>2. Pieces' = <<>>
  <2>1. Pieces' = <<>> \o <<>>
    BY <1>1 DEF Pieces
  <2> QED BY <2>1, EmptySeq, ConcatEmptySeq
<1>3. SentTo' = SentTo /\ ~Flowing'
  BY <1>1 DEF SentTo, Issued, Flowing
<1>4. Unwritten'
  BY <1>1, <1>3 DEF Flow, Unwritten
<1>5. InOrder(Pieces, SentTo - Len(recvq), SentTo)'
  <2>1. Len(Pieces') = 0
    BY <1>2, EmptySeq
  <2> QED BY <1>2, <2>1 DEF InOrder
<1> QED BY <1>3, <1>4, <1>5 DEF Flow

\* http_process_reply_bytes takes the first piece.
LEMMA ParsePiecePieces ==
  ASSUME IInv, ParsePiece
  PROVE  Pieces # <<>> /\ Pieces[1] = Head(buf) /\ Pieces' = Tail(Pieces)
<1>0. /\ buf # <<>> /\ buf' = Tail(buf) /\ rx' = rx
      /\ buf \in Seq(Piece) /\ rx \in Seq(Piece) /\ Pieces \in Seq(Piece)
  BY StreamType DEF ParsePiece, net, wire
<1>1. /\ Len(buf) \in Nat \ {0} /\ Len(rx) \in Nat /\ Len(Pieces) = Len(buf) + Len(rx)
      /\ \A k \in 1..Len(buf) + Len(rx) : Pieces[k] = IF k <= Len(buf) THEN buf[k] ELSE rx[k - Len(buf)]
  BY <1>0, EmptySeq, ConcatProperties DEF Pieces
<1>2. Pieces # <<>> /\ Pieces[1] = Head(buf)
  BY <1>1, EmptySeq, <1>0
<1>3. /\ Tail(Pieces) \in Seq(Piece) /\ Len(Tail(Pieces)) = Len(Pieces) - 1
      /\ \A k \in 1..Len(Pieces) - 1 : Tail(Pieces)[k] = Pieces[k + 1]
  BY <1>0, <1>2, HeadTailProperties
<1>4. /\ buf' \in Seq(Piece) /\ Len(buf') = Len(buf) - 1
      /\ \A k \in 1..Len(buf) - 1 : buf'[k] = buf[k + 1]
  BY <1>0, HeadTailProperties
<1>5. /\ Pieces' \in Seq(Piece) /\ Len(Pieces') = Len(Pieces) - 1
      /\ \A k \in 1..Len(Pieces) - 1 :
           Pieces'[k] = IF k <= Len(buf) - 1 THEN buf'[k] ELSE rx[k - (Len(buf) - 1)]
  BY <1>0, <1>1, <1>4, ConcatProperties DEF Pieces
<1>6. \A k \in 1..Len(Pieces) - 1 : Pieces'[k] = Tail(Pieces)[k]
  <2> SUFFICES ASSUME NEW k \in 1..Len(Pieces) - 1 PROVE Pieces'[k] = Pieces[k + 1]
    BY <1>3
  <2>1. k + 1 \in 1..Len(buf) + Len(rx) /\ (k + 1) - Len(buf) = k - (Len(buf) - 1)
    BY <1>1
  <2> QED BY <1>1, <1>4, <1>5, <2>1
<1>7. Pieces' = Tail(Pieces)
  BY <1>1, <1>3, <1>5, <1>6, SeqEqual
<1> QED BY <1>2, <1>7

\* The last piece of a reply takes the call it belongs to with it.
LEMMA ParsePieceFlow ==
  ASSUME IInv, Flow, ParsePiece
  PROVE  Flow'
<1> DEFINE e == EndOf(Head(buf))
           b == SentTo - Len(recvq)
<1>0. /\ recvq # <<>> /\ buf # <<>> /\ buf' = Tail(buf)
      /\ UNCHANGED <<sendq, num_calls, left, link, tx, rx, fin, serving>>
      /\ recvq \in Seq(Calls) /\ Len(recvq) \in Nat /\ SentTo \in Int /\ b \in Int
      /\ buf \in Seq(Piece) /\ rx \in Seq(Piece) /\ Pieces \in Seq(Piece)
  BY StreamType DEF ParsePiece, net, wire
<1>1. /\ SentTo' = SentTo /\ Partly' = Partly /\ (Flowing' <=> Flowing) /\ Unwritten'
  BY <1>0 DEF SentTo, Issued, Partly, Flowing, Flow, Unwritten
<1>2. Len(recvq') = Len(recvq) - e
  <2>1. CASE Head(buf).part = "end"
    <3>1. recvq' = Tail(recvq) /\ e = 1
      BY <2>1 DEF ParsePiece, RecvDone, EndOf
    <3> QED BY <1>0, <3>1, HeadTailProperties
  <2>2. CASE Head(buf).part # "end"
    <3>1. Head(buf).part \in {"head", "data"}
      <4>1. Head(buf) \in Piece
        BY <1>0, HeadTailProperties
      <4> QED BY <2>2, <4>1 DEF Piece
    <3>2. recvq' = recvq /\ e = 0
      BY <2>2, <3>1 DEF ParsePiece, EndOf
    <3> QED BY <1>0, <3>2
  <2> QED BY <2>1, <2>2
<1>3. e \in {0, 1}
  BY DEF EndOf
<1> HIDE DEF e
<1>4. SentTo' - Len(recvq') = b + e
  BY <1>0, <1>1, <1>2, <1>3
<1>5. Pieces # <<>> /\ Pieces[1] = Head(buf) /\ Pieces' = Tail(Pieces)
  BY ParsePiecePieces
<1>6. /\ InOrder(Tail(Pieces), b + e, SentTo)
      /\ NextReply(Tail(Pieces), b + e) = NextReply(Pieces, b)
  BY <1>0, <1>5, TailInOrder DEF Flow, e
<1>7. InOrder(Pieces, SentTo - Len(recvq), SentTo)' /\ Serves' = Serves
  BY <1>1, <1>4, <1>5, <1>6 DEF Serves
<1>8. Flowing' => Asked'
  BY <1>0, <1>1, <1>7 DEF Flow, Asked
<1> QED BY <1>1, <1>7, <1>8 DEF Flow

\* The server reads a unit of the request it has begun, and of no other.
LEMMA ServerReadsFlow ==
  ASSUME IInv, Stream, Flow, ServerReads
  PROVE  /\ Flow'
         /\ \A k \in 1..Len(serving') : serving'[k] = serving'[1]
         /\ Len(serving') <= ReqSize
<1>0. /\ tx \in Seq(Calls) /\ serving \in Seq(Calls) /\ Len(tx) \in Nat /\ Len(serving) \in Nat
      /\ Serves \in Int /\ ReqSize \in Nat \ {0}
  BY StreamType
<1>1. /\ link = "up" /\ ~fin /\ tx # <<>> /\ Len(serving) < ReqSize
      /\ serving' = Append(serving, Head(tx)) /\ tx' = Tail(tx)
      /\ UNCHANGED <<sendq, recvq, num_calls, left, buf, rx, link, fin>>
  BY DEF ServerReads, client, conn, callseq
<1>2. Asked
  BY <1>1 DEF Flow, Flowing
<1>3. /\ Head(tx) = tx[1] /\ Head(tx) \in Calls /\ 1 \in 1..Len(tx)
      /\ Len(tx') = Len(tx) - 1 /\ \A j \in 1..Len(tx') : tx'[j] = tx[j + 1]
  BY <1>0, <1>1, EmptySeq, HeadTailProperties
<1>4. Head(tx) = Serves
  <2>1. InRequest(tx[1] - Serves, Len(serving) + 1)
    BY <1>2, <1>3 DEF Asked
  <2>2. tx[1] \in Int
    BY <1>3 DEF Calls
  <2>3. tx[1] - Serves = 0
    BY <1>0, <1>1, <2>1, <2>2, FirstRequest
  <2> QED BY <1>0, <1>3, <2>2, <2>3
<1>5. /\ Len(serving') = Len(serving) + 1
      /\ \A k \in 1..Len(serving') : serving'[k] = Serves
  <2>1. /\ Len(serving') = Len(serving) + 1
        /\ \A k \in 1..Len(serving) : serving'[k] = serving[k]
        /\ serving'[Len(serving) + 1] = Serves
    BY <1>0, <1>1, <1>3, <1>4, AppendProperties
  <2> QED BY <1>0, <1>2, <2>1 DEF Asked
<1>6. /\ Pieces' = Pieces /\ SentTo' = SentTo /\ Serves' = Serves /\ Partly' = Partly
  BY <1>1 DEF Pieces, SentTo, Issued, Serves, Partly
<1>7. InOrder(Pieces, SentTo - Len(recvq), SentTo)' /\ Unwritten'
  BY <1>1, <1>6 DEF Flow, Unwritten
<1>8. Asked'
  <2>1. \A j \in 1..Len(tx') : InRequest(tx'[j] - Serves, Len(serving') + j)
    <3> SUFFICES ASSUME NEW j \in 1..Len(tx') PROVE InRequest(tx'[j] - Serves, Len(serving') + j)
      OBVIOUS
    <3>1. j + 1 \in 1..Len(tx) /\ tx'[j] = tx[j + 1] /\ Len(serving') + j = Len(serving) + (j + 1)
      BY <1>0, <1>3, <1>5
    <3> QED BY <1>2, <3>1 DEF Asked
  <2>2. Len(serving') + Len(tx') = Len(serving) + Len(tx)
    BY <1>0, <1>3, <1>5
  <2> QED BY <1>2, <1>5, <1>6, <2>1, <2>2 DEF Asked
<1>9. \A k \in 1..Len(serving') : serving'[k] = serving'[1]
  BY <1>0, <1>5
<1> QED BY <1>0, <1>1, <1>5, <1>7, <1>8, <1>9 DEF Flow

\* The server answers the request it has read, which is the next in order.
LEMMA ServerAnswers ==
  ASSUME IInv, Flow, NEW p \in {"head", "data", "end"}, ServerWrites(p)
  PROVE  LET q == [call |-> Head(serving), part |-> p]
         IN  q \in Piece /\ q.call = Serves /\ Pieces' = Append(Pieces, q)
<1> DEFINE q == [call |-> Head(serving), part |-> p]
<1>0. /\ serving \in Seq(Calls) /\ buf \in Seq(Piece) /\ rx \in Seq(Piece)
      /\ Len(serving) = ReqSize /\ ReqSize \in Nat \ {0} /\ rx' = Append(rx, q) /\ buf' = buf
      /\ Asked
  BY StreamType DEF ServerWrites, client, Flow, Flowing
<1>1. Head(serving) = Serves /\ q \in Piece /\ q.call = Serves
  <2>1. serving # <<>> /\ 1 \in 1..Len(serving) /\ Head(serving) = serving[1] /\ Head(serving) \in Calls
    BY <1>0, EmptySeq, HeadTailProperties
  <2> QED BY <1>0, <2>1 DEF Asked, Piece
<1>2. Pieces' = Append(Pieces, q)
  <2> HIDE DEF q
  <2>1. rx' = rx \o <<q>>
    BY <1>0, <1>1, AppendIsConcat
  <2>2. <<q>> \in Seq(Piece)
    BY <1>1
  <2>3. buf \o (rx \o <<q>>) = (buf \o rx) \o <<q>>
    BY <1>0, <2>2, ConcatAssociative
  <2>4. Pieces \in Seq(Piece) /\ Append(Pieces, q) = Pieces \o <<q>>
    BY <1>1, StreamType, AppendIsConcat
  <2> QED BY <1>0, <2>1, <2>3, <2>4 DEF Pieces
<1> QED BY <1>1, <1>2

LEMMA ServerWritesFlow ==
  ASSUME IInv, InBurst, Stream, Flow, state \notin ClosedStates,
         NEW p \in {"head", "data", "end"}, ServerWrites(p)
  PROVE  Flow'
<1> DEFINE q == [call |-> Head(serving), part |-> p]
           b == SentTo - Len(recvq)
           d == SentTo + 1 - Serves
<1>0. /\ tx \in Seq(Calls) /\ serving \in Seq(Calls) /\ Len(tx) \in Nat /\ Len(serving) \in Nat
      /\ Serves \in Int /\ SentTo \in Int /\ Len(recvq) \in Nat /\ ReqSize \in Nat \ {0}
      /\ Partly \in 0..ReqSize - 1 /\ Pieces \in Seq(Piece) /\ buf \in Seq(Piece) /\ rx \in Seq(Piece)
      /\ b \in Int /\ d \in Int
  BY SMTT(30), StreamType, PartlyWritten DEF Flow
<1>1. /\ Len(serving) = ReqSize /\ rx' = Append(rx, q)
      /\ UNCHANGED <<sendq, recvq, num_calls, left, buf, link, tx, fin>>
      /\ serving' = IF p = "end" THEN <<>> ELSE serving
  BY DEF ServerWrites, client, conn, callseq
<1>2. Asked /\ InOrder(Pieces, b, SentTo) /\ Unwritten
  BY DEF Flow, Flowing, ServerWrites
<1>3. q \in Piece /\ q.call = Serves /\ Pieces' = Append(Pieces, q)
  BY ServerAnswers
<1>4. Serves <= SentTo
  <2>1. ReqSize + Len(tx) = ReqSize * d + Partly
    BY <1>1, <1>2 DEF Asked
  <2> HIDE DEF d
  <2>2. CASE d <= 0
    <3> DEFINE all == ReqSize * d
    <3>1. all <= 0
      BY <1>0, <2>2
    <3>2. all \in Int /\ ReqSize + Len(tx) = all + Partly
      BY <1>0, <2>1, NextRequest
    <3> HIDE DEF all
    <3> QED BY <1>0, <3>1, <3>2
  <2>3. CASE d >= 1
    BY <1>0, <2>3 DEF d
  <2> QED BY <1>0, <2>2, <2>3
<1>5. SentTo' = SentTo /\ Partly' = Partly /\ Unwritten' /\ (SentTo - Len(recvq))' = b
  BY <1>1, <1>2 DEF SentTo, Issued, Partly, Unwritten
<1>6. /\ InOrder(Append(Pieces, q), b, SentTo)
      /\ NextReply(Append(Pieces, q), b) = Serves + EndOf(q)
  <2>1. q.call = NextReply(Pieces, b)
    BY <1>3 DEF Serves
  <2> HIDE DEF q, b
  <2> QED BY <1>0, <1>2, <1>3, <1>4, <2>1, AppendInOrder
<1>7. InOrder(Pieces, SentTo - Len(recvq), SentTo)' /\ Serves' = Serves + EndOf(q)
  BY <1>3, <1>5, <1>6 DEF Serves
<1>8. Asked'
  <2>1. CASE p # "end"
    <3>1. Serves' = Serves /\ serving' = serving
      BY <1>0, <1>1, <1>7, <2>1 DEF EndOf
    <3> QED BY <1>1, <1>2, <1>5, <3>1 DEF Asked
  <2>2. CASE p = "end"
    <3>1. Serves' = Serves + 1 /\ serving' = <<>> /\ Len(serving') = 0
      BY <1>1, <1>7, <2>2, EmptySeq DEF EndOf
    <3>2. \A j \in 1..Len(tx) : InRequest(tx[j] - Serves', 0 + j)
      <4> SUFFICES ASSUME NEW j \in 1..Len(tx) PROVE InRequest(tx[j] - (Serves + 1), j)
        BY <1>0, <3>1
      <4> DEFINE f == tx[j] - Serves
      <4>1. f \in Int /\ tx[j] - (Serves + 1) = f - 1 /\ (f - 1) + 1 = f
        <5>1. tx[j] \in Calls
          BY <1>0, ElementOfSeq
        <5> QED BY <1>0, <5>1 DEF Calls
      <4>2. InRequest(f, ReqSize + j)
        BY <1>1, <1>2 DEF Asked
      <4> HIDE DEF f
      <4>3. /\ ReqSize * f \in Int /\ ReqSize * (f + 1) = ReqSize * f + ReqSize
            /\ ReqSize * (f - 1) = ReqSize * f - ReqSize
        BY <4>1, NextRequest
      <4>4. ReqSize * (f - 1) < j /\ j <= ReqSize * f
        BY <1>0, <4>2, <4>3 DEF InRequest
      <4> QED BY <4>1, <4>4 DEF InRequest
    <3>3. 0 + Len(tx) = ReqSize * (SentTo + 1 - Serves') + Partly
      <4>1. SentTo + 1 - Serves' = d - 1
        BY <1>0, <3>1
      <4>2. ReqSize + Len(tx) = ReqSize * d + Partly
        BY <1>1, <1>2 DEF Asked
      <4> HIDE DEF d
      <4>3. ReqSize * d \in Int /\ ReqSize * (d - 1) = ReqSize * d - ReqSize
        BY <1>0, NextRequest
      <4>4. ReqSize * (SentTo + 1 - Serves') = ReqSize * (d - 1)
        BY <4>1
      <4> DEFINE all == ReqSize * d
                 rest == ReqSize * (d - 1)
      <4>5. all \in Int /\ rest = all - ReqSize /\ ReqSize + Len(tx) = all + Partly
        BY <4>2, <4>3
      <4> HIDE DEF all, rest
      <4>6. 0 + Len(tx) = rest + Partly
        BY <1>0, <4>5
      <4> QED BY <4>4, <4>6 DEF rest
    <3> QED BY <1>1, <1>5, <3>1, <3>2, <3>3 DEF Asked
  <2> QED BY <2>1, <2>2
<1> QED BY <1>5, <1>7, <1>8 DEF Flow

\* core_close: nothing of the stream is left.
LEMMA ClosingStream ==
  ASSUME Stream, ConnectFails \/ ConnTimeout \/ SendFails \/ ReadFails \/ LastBurstDone
  PROVE  Stream'
<1>1. state' \in ClosedStates /\ serving' = <<>>
  BY DEF ConnectFails, ConnTimeout, SendFails, ReadFails, LastBurstDone, CoreClose, ClosedStates
<1>2. buf' = <<>>
  BY DEF ConnectFails, ConnTimeout, SendFails, ReadFails, LastBurstDone, Stream
<1>3. Len(serving') = 0 /\ ReqSize \in Nat
  BY <1>1, EmptySeq, ConnectionAssumption
<1> QED BY <1>1, <1>2, <1>3 DEF Stream, ClosedStates

\* httperf's own steps leave alone what the server has read.
LEMMA ClientStream ==
  ASSUME Stream, UNCHANGED serving, state' # "INITIAL", state' \in ClosedStates \/ Flow',
         at' \notin {"parse", "destroy"} => buf' = <<>>
  PROVE  Stream'
BY DEF Stream

\* The steps that issue calls
LEMMA IssuingStream ==
  ASSUME IInv, Listening, InBurst, Stream, ConnectSucceeds \/ TakeEvent \/ NextBurst
  PROVE  Stream'
<1>1. CASE ConnectSucceeds
  <2>1. /\ state = "INITIAL" /\ state' = "CONNECTED" /\ link' = "up" /\ at = "connect" /\ at' = "loop"
        /\ BurstStarts /\ sendq' = sendq \o Burst
        /\ UNCHANGED <<recvq, left, buf, rx, tx, fin, serving>>
    BY <1>1 DEF ConnectSucceeds, IssueCalls, wire, IInv, ThreadOK
  <2>2. sendq = <<>> /\ recvq = <<>> /\ num_calls = 0 /\ link = "none" /\ Flow /\ buf = <<>>
    BY <2>1 DEF Listening, InBurst, ClosedStates, Stream
  <2>3. num_calls < NumCalls
    BY <2>2, ConnectionAssumption
  <2>4. Flow'
    BY <2>1, <2>2, <2>3, IssuingFlow DEF Flowing, ClosedStates
  <2> QED BY <2>1, <2>2, <2>4, ClientStream
<1>2. CASE TakeEvent
  <2>0. /\ at \in {"event", "again"} /\ at' = "handle"
        /\ UNCHANGED <<recvq, left, buf, rx, link, tx, fin, serving>>
    BY <1>2 DEF TakeEvent, AtEvent, net, wire
  <2>1. CASE state = "CONNECTING" /\ "W" \in StillReady
    <3>1. /\ state' = "CONNECTED" /\ BurstStarts /\ sendq' = sendq \o Burst
      BY <1>2, <2>1 DEF TakeEvent, IssueCalls
    <3>2. sendq = <<>> /\ recvq = <<>> /\ num_calls = 0 /\ Flow /\ buf = <<>>
      BY <2>0, <2>1 DEF Listening, InBurst, ClosedStates, Stream
    <3>3. num_calls < NumCalls
      BY <3>2, ConnectionAssumption
    <3>4. Flow'
      BY <2>0, <2>1, <3>1, <3>2, <3>3, IssuingFlow DEF Flowing, ClosedStates
    <3> QED BY <2>0, <3>1, <3>2, <3>4, ClientStream
  <2>2. CASE ~(state = "CONNECTING" /\ "W" \in StillReady)
    <3>1. UNCHANGED <<state, sendq, num_calls>>
      BY <1>2, <2>2 DEF TakeEvent, callseq
    <3>2. state # "INITIAL" /\ buf = <<>>
      BY <2>0 DEF IInv, ThreadOK, Stream
    <3>3. state \in ClosedStates \/ Flow'
      BY <2>0, <3>1, UnmovedFlow DEF Stream, Flowing
    <3> QED BY <2>0, <3>1, <3>2, <3>3, ClientStream
  <2> QED BY <2>1, <2>2
<1>3. CASE NextBurst
  <2>1. /\ state = "REPLY_DONE" /\ state' \in {"REPLY_DONE", "REPLY_STATUS"}
        /\ BurstStarts /\ sendq' = sendq \o Burst
        /\ num_completed >= Threshold /\ num_calls < NumCalls
        /\ UNCHANGED <<recvq, left, buf, rx, link, tx, fin, serving>>
        /\ at \in {"destroy", "destroy_eof"} /\ at' = IF at = "destroy" THEN "parse" ELSE "handle"
    BY <1>3 DEF NextBurst, ResumeReceiving, Listening, Destroying, GoesOn, IssueCalls, net, wire
  <2>2. sendq = <<>> /\ recvq = <<>> /\ (num_calls = 0 \/ BurstLen <= num_calls)
    BY <2>1, NextBurstAlone DEF ClosedStates
  <2>3. Flow'
    BY <2>1, <2>2, IssuingFlow DEF Flowing, ClosedStates, Stream
  <2> QED BY <2>1, <2>3, ClientStream DEF Stream
<1> QED BY <1>1, <1>2, <1>3

\* The steps of do_send and do_recv that move units or calls
LEMMA MovingStream ==
  ASSUME IInv, InBurst, Stream,
         \/ \E n \in 1..ReqSize : SendPart(n) \/ SendAll(n)
         \/ \E n \in 1..RxMax : ReadData(n)
         \/ ReadEnds \/ ParsePiece
  PROVE  Stream'
<1>0. state \notin ClosedStates /\ state # "INITIAL" /\ Flow
  BY DEF SendPart, SendAll, Writes, ReadData, ReadEnds, ParsePiece, IInv, ThreadOK, Open, OpenStates,
         ClosedStates, Stream
<1>1. ASSUME NEW n \in 1..ReqSize, SendPart(n) \/ SendAll(n) PROVE Stream'
  <2>1. /\ at = "send" /\ at' \in {"send", "handle"} /\ UNCHANGED <<buf, serving>>
        /\ state' \in {state, "REPLY_STATUS"}
    BY <1>1 DEF SendPart, SendAll, Writes, wire
  <2>2. Flow'
    BY <1>0, <1>1, SendPartFlow, SendAllFlow
  <2> QED BY <1>0, <2>1, <2>2, ClientStream DEF Stream
<1>2. ASSUME NEW n \in 1..RxMax, ReadData(n) PROVE Stream'
  <2>1. at' = "parse" /\ UNCHANGED <<state, serving>>
    BY <1>2 DEF ReadData, conn
  <2> QED BY <1>0, <1>2, <2>1, ReadDataFlow, ClientStream
<1>3. CASE ReadEnds
  <2>1. /\ at = "read" /\ at' = "destroy_eof" /\ state' = "REPLY_DONE"
        /\ UNCHANGED <<buf, serving>>
    BY <1>3 DEF ReadEnds, RecvDone, net, wire
  <2> QED BY <1>0, <1>3, <2>1, ReadEndsFlow, ClientStream DEF Stream
<1>4. CASE ParsePiece
  <2>1. Head(buf).part \in {"head", "data", "end"}
    <3>1. Head(buf) \in Piece
      BY <1>4, StreamType, HeadTailProperties DEF ParsePiece
    <3> QED BY <3>1 DEF Piece
  <2>2. at' \in {"parse", "destroy"} /\ state' # "INITIAL" /\ UNCHANGED serving
    <3>1. CASE Head(buf).part = "end"
      BY <1>4, <3>1 DEF ParsePiece, RecvDone, net, wire
    <3>2. CASE Head(buf).part # "end"
      BY <1>4, <2>1, <3>2 DEF ParsePiece, net, wire
    <3> QED BY <3>1, <3>2
  <2> QED BY <1>0, <1>4, <2>2, ParsePieceFlow, ClientStream
<1> QED BY <1>1, <1>2, <1>3, <1>4

\* The kernel and the server
LEMMA ServerStream ==
  ASSUME IInv, InBurst, Stream, Serving \/ Break \/ ServerCloses
  PROVE  Stream'
<1>0. /\ UNCHANGED <<state, at, buf, sendq, recvq, num_calls, left>>
      /\ link # "none" /\ link # "closed" /\ state # "INITIAL" /\ state \notin ClosedStates /\ Flow
  <2>1. UNCHANGED client /\ link \in {"syn", "up"}
    BY DEF Serving, Accept, Break, ServerCloses, ServerReads, ServerWrites
  <2> QED BY <2>1 DEF client, conn, callseq, Stream, IInv, ThreadOK
<1>1. CASE Accept \/ Break \/ ServerCloses
  <2>1. UNCHANGED <<rx, serving>> /\ (Flowing' => Flowing /\ UNCHANGED tx)
    BY <1>1 DEF Accept, Break, ServerCloses, Flowing, wire
  <2> QED BY <1>0, <2>1, UnmovedFlow DEF Stream
<1>2. CASE ServerReads
  BY <1>0, <1>2, ServerReadsFlow DEF Stream
<1>3. ASSUME NEW p \in {"head", "data", "end"}, ServerWrites(p) PROVE Stream'
  <2>1. Flow'
    BY <1>0, <1>3, ServerWritesFlow
  <2>2. serving' \in {<<>>, serving}
    BY <1>3 DEF ServerWrites
  <2>3. (\A k \in 1..Len(serving') : serving'[k] = serving'[1]) /\ Len(serving') <= ReqSize
    BY <2>2, EmptySeq, ConnectionAssumption DEF Stream
  <2> QED BY <1>0, <2>1, <2>3 DEF Stream
<1> QED BY <1>1, <1>2, <1>3 DEF Serving

LEMMA StepStreams == IInv /\ Listening /\ InBurst /\ Stream /\ [Next]_vars => Stream'
<1> SUFFICES ASSUME IInv, Listening, InBurst, Stream, [Next]_vars PROVE Stream'
  OBVIOUS
<1> DEFINE Moves == UNCHANGED <<sendq, recvq, num_calls, left, buf, rx, tx, fin, serving>>
<1>1. ASSUME Moves, UNCHANGED <<state, link>>, at' \notin {"parse", "destroy"} => buf = <<>>
      PROVE  Stream'
  BY <1>1, UnmovedFlow DEF Stream, Flowing
<1>2. CASE Poll \/ SkipEvent \/ (\E dir \in {"R", "W"} : Handle(dir))
  BY <1>1, <1>2 DEF Poll, SkipEvent, Handle, AtEvent, conn, callseq, net, wire, Stream
<1>3. CASE SendBlocks \/ ReadBlocks \/ RecvReturns
  BY <1>1, <1>3 DEF SendBlocks, ReadBlocks, RecvReturns, conn, callseq, net, wire, Stream
<1>4. CASE UNCHANGED vars
  BY <1>1, <1>4 DEF vars, conn, callseq, net, wire, Stream
<1>5. CASE ConnectStarts
  <2>1. /\ Moves /\ state = "INITIAL" /\ state' = "CONNECTING" /\ link' = "syn"
        /\ at = "connect" /\ link = "none"
    BY <1>5 DEF ConnectStarts, callseq, wire, IInv, ThreadOK, Stream
  <2>2. Flow'
    BY <2>1, UnmovedFlow DEF Stream, Flowing, ClosedStates
  <2> QED BY <2>1, <2>2, ClientStream DEF Stream
<1>6. CASE EventDone
  <2>1. /\ Moves /\ UNCHANGED link /\ at = "handle" /\ state # "INITIAL"
        /\ state' \in ClosedStates \/ UNCHANGED state
    BY <1>6 DEF EventDone, callseq, net, wire, IInv, ThreadOK, ClosedStates
  <2>2. state' # "INITIAL" /\ (state' \in ClosedStates \/ Flow')
    BY <1>6, <2>1, UnmovedFlow DEF EventDone, Stream, Flowing, ClosedStates
  <2> QED BY <2>1, <2>2, ClientStream DEF Stream
<1>7. CASE BurstPending
  <2>1. /\ Moves /\ UNCHANGED link /\ state = "REPLY_DONE" /\ state' # "INITIAL"
        /\ at \in {"destroy", "destroy_eof"} /\ at' = IF at = "destroy" THEN "parse" ELSE "handle"
    BY <1>7 DEF BurstPending, ResumeReceiving, Listening, Destroying, net, wire
  <2>2. Flow'
    BY <2>1, UnmovedFlow DEF Stream, Flowing, ClosedStates
  <2> QED BY <2>1, <2>2, ClientStream DEF Stream
<1> QED BY <1>2, <1>3, <1>4, <1>5, <1>6, <1>7, ClosingStream, IssuingStream, MovingStream, ServerStream
        DEF Next, Opening, Looping, Sending, Receiving, CallDestroyed, Finished

LEMMA InitStreams == Init => Stream
<1> SUFFICES ASSUME Init PROVE Stream
  OBVIOUS
<1>1. /\ sendq = <<>> /\ recvq = <<>> /\ tx = <<>> /\ serving = <<>> /\ buf = <<>> /\ rx = <<>>
      /\ num_calls = 0 /\ left = [c \in Calls |-> ReqSize] /\ link = "none"
      /\ NumCalls \in Nat \ {0} /\ ReqSize \in Nat \ {0} /\ Len(<<>>) = 0
  BY ConnectionAssumption, EmptySeq DEF Init
<1>2. SentTo = 0 /\ SentTo - Len(recvq) = 0 /\ Partly = 0
  BY <1>1 DEF SentTo, Issued, MinOf, Partly
<1>3. Pieces = <<>> /\ Len(Pieces) = 0
  <2>1. Pieces = <<>> \o <<>>
    BY <1>1 DEF Pieces
  <2> QED BY <1>1, <2>1, EmptySeq, ConcatEmptySeq
<1>4. Serves = 1
  BY <1>2, <1>3 DEF Serves, NextReply
<1>5. InOrder(Pieces, SentTo - Len(recvq), SentTo)
  BY <1>3 DEF InOrder
<1>6. Unwritten
  BY <1>1, <1>2 DEF Unwritten
<1>7. Asked
  BY <1>1, <1>2, <1>4 DEF Asked
<1> QED BY <1>1, <1>5, <1>6, <1>7 DEF Stream, Flow

-----------------------------------------------------------------------------
THEOREM StreamInductive == Spec => []Stream
BY InitStreams, StepStreams, Inductive, ListensInductive, BurstInductive, PTL DEF Spec

(* However requests and replies are cut, pipelined and interleaved, every  *)
(* piece of a reply comes to the call at the head of the receive queue,    *)
(* and none comes when no call awaits a reply (core.c:606-612, 637, 727).  *)
THEOREM RepliesReachTheirCalls == Spec => [](RepliesMatchCalls /\ HandlersHaveCalls)
<1> SUFFICES IInv /\ InBurst /\ Stream => RepliesMatchCalls /\ HandlersHaveCalls
  BY StreamInductive, BurstInductive, Inductive, PTL
<1> SUFFICES ASSUME IInv, InBurst, Stream PROVE RepliesMatchCalls /\ HandlersHaveCalls
  OBVIOUS
<1>0. /\ Pieces \in Seq(Piece) /\ recvq \in Seq(Calls) /\ Len(recvq) \in Nat /\ SentTo \in Int
  BY StreamType
<1>1. ASSUME Open, Pieces # <<>>
      PROVE  recvq # <<>> /\ Head(Pieces).call = Head(recvq)
  <2>1. /\ Head(Pieces) = Pieces[1] /\ Pieces[1].call = SentTo - Len(recvq) + 1
        /\ Pieces[1].call <= SentTo
    BY <1>0, <1>1, EmptySeq DEF Stream, Flow, InOrder, Open, OpenStates, ClosedStates
  <2>2. Len(recvq) # 0 /\ 1 \in 1..Len(recvq) /\ recvq # <<>>
    BY <1>0, <2>1, EmptySeq
  <2>3. Head(recvq) = SentTo - Len(recvq) + 1
    BY <1>0, <1>1, <2>2 DEF InBurst, SentTo, Open, OpenStates, ClosedStates
  <2> QED BY <2>1, <2>2, <2>3
<1>2. RepliesMatchCalls
  BY <1>1 DEF RepliesMatchCalls, Stream, Flow, InOrder, Pieces, EndOf, Open, OpenStates, ClosedStates
<1>3. HandlersHaveCalls
  <2>1. buf # <<>> => Pieces # <<>>
    BY StreamType, ConcatProperties, EmptySeq DEF Pieces
  <2> QED BY <1>1, <2>1 DEF HandlersHaveCalls, IInv, ThreadOK
<1> QED BY <1>2, <1>3

(* What core.c relies on, over any number of calls, bursts and buffers,    *)
(* with either event loop: assert(call), assert(c), the matching of        *)
(* replies, the counters of call_seq.c and an orderly end.                 *)
THEOREM EngineSafe == Spec => []ConnectionSafety
BY RepliesReachTheirCalls, BurstsAreKept, ClosedQuietly, ClosingIssuesNothing, PTL DEF ConnectionSafety
=============================================================================
