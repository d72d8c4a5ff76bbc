----------------------------- MODULE Connection -----------------------------
(***************************************************************************)
(* One connection of httperf under a request-oriented workload: the        *)
(* connection engine of src/core.c (core_connect, core_send, do_send,      *)
(* do_recv, core_close, the event loop and the watchdog) driven by         *)
(* src/gen/call_seq.c, against the kernel's socket buffers and a server.   *)
(*                                                                         *)
(* httperf has one thread.  at says where it is: in core_loop ("loop",     *)
(* "again"), at an event of this connection ("event", "handle"), in an     *)
(* iteration of do_send ("send") or do_recv ("read", "parse"), or at the   *)
(* EV_CALL_DESTROYED of a call ("destroy", "destroy_eof").  The kernel and *)
(* the server move between any two of these steps.                         *)
(*                                                                         *)
(* Time is abstract: an armed watchdog may expire whenever the thread is   *)
(* in timer_tick.  Bytes are abstract: a request is ReqSize units, a reply *)
(* some pieces the last of which is "end".                                 *)
(***************************************************************************)
EXTENDS Integers, Sequences

CONSTANTS NumCalls,      \* --num-calls
          BurstLen,      \* --burst-length
          Timeout,       \* --timeout is given
          ThinkTimeout,  \* --think-timeout is given
          Backend,       \* "epoll" (HAVE_EPOLL) or "select"
          ReqSize,       \* units of a request
          TxMax, RxMax,  \* what the kernel buffers in each direction
          ServerFails    \* the server may refuse, reset or close

ASSUME ConnectionAssumption ==
  /\ NumCalls \in Nat \ {0}
  /\ BurstLen \in Nat \ {0}
  /\ Timeout \in BOOLEAN
  /\ ThinkTimeout \in BOOLEAN
  /\ Backend \in {"epoll", "select"}
  /\ ReqSize \in Nat \ {0}
  /\ TxMax \in Nat \ {0}
  /\ RxMax \in Nat \ {0}
  /\ ServerFails \in BOOLEAN

Calls == 1..NumCalls

VARIABLES state,     \* conn->state
          sendq,     \* conn->sendq
          recvq,     \* conn->recvq
          watchdog,  \* conn->watchdog # 0
          interest,  \* rdfds and wrfds, or the epoll mask
          held,      \* core_loop holds a reference to the connection
          left,      \* units of each request still to be written (req.iov)
          timed,     \* call->timeout # 0.0
          num_calls, num_completed, num_destroyed,  \* call_seq's Conn_Private_Data
          stray,     \* a call was issued on a connection being closed
          completed, \* calls whose EV_CALL_RECV_STOP was signalled
          at,        \* where the thread is
          ready,     \* the readiness the last poll returned
          count,     \* events of that poll still to be processed
          work,      \* directions of this event still to be handled
          buf,       \* the bytes do_recv has read and not processed
          link,      \* the TCP connection
          tx,        \* request units in flight, by call
          rx,        \* reply pieces the kernel holds, as [call, part]
          fin,       \* the server has closed its side
          serving,   \* units the server has of the request it reads, by call
          part       \* how far its reply is

callseq == <<num_calls, num_completed, num_destroyed>>
conn == <<state, sendq, recvq, watchdog, interest, left, timed, callseq, stray, completed>>
poll == <<ready, count, work>>
wire == <<rx, fin, serving, part>>
net == <<link, tx, wire>>
vars == <<conn, held, at, poll, buf, net>>

-----------------------------------------------------------------------------
OpenStates == {"CONNECTING", "CONNECTED",
               "REPLY_STATUS",  \* before the status line of a reply
               "REPLY_HEADER",  \* in a reply whose end is still announced: headers, chunks
               "REPLY_DATA",    \* in a body that may end with the connection
               "REPLY_DONE"}
States == OpenStates \cup {"INITIAL", "CLOSING", "FREE"}

Open == state \in OpenStates

Piece == [call : Calls, part : {"head", "data", "end"}]

TypeOK ==
  /\ state \in States
  /\ sendq \in Seq(Calls) /\ recvq \in Seq(Calls)
  /\ watchdog \in BOOLEAN /\ held \in BOOLEAN
  /\ interest \subseteq {"R", "W"}
  /\ left \in [Calls -> 0..ReqSize]
  /\ timed \in [Calls -> BOOLEAN]
  /\ num_calls \in Nat /\ num_completed \in Nat /\ num_destroyed \in Nat
  /\ stray \in BOOLEAN
  /\ completed \subseteq Calls
  /\ at \in {"connect", "loop", "event", "again", "handle", "send", "read", "parse",
             "destroy", "destroy_eof"}
  /\ ready \subseteq {"R", "W"} /\ work \subseteq {"R", "W"}
  /\ count \in 0..2
  /\ buf \in Seq(Piece) /\ rx \in Seq(Piece)
  /\ link \in {"none", "syn", "up", "broken", "closed"}
  /\ tx \in Seq(Calls)
  /\ fin \in BOOLEAN
  /\ serving \in Seq(Calls)
  /\ part \in {"none", "head", "data"}

Init ==
  /\ state = "INITIAL"
  /\ sendq = <<>> /\ recvq = <<>>
  /\ watchdog = FALSE /\ held = FALSE
  /\ interest = {}
  /\ left = [c \in Calls |-> ReqSize]
  /\ timed = [c \in Calls |-> FALSE]
  /\ num_calls = 0 /\ num_completed = 0 /\ num_destroyed = 0
  /\ stray = FALSE
  /\ completed = {}
  /\ at = "connect"
  /\ ready = {} /\ work = {} /\ count = 0
  /\ buf = <<>> /\ rx = <<>> /\ tx = <<>>
  /\ link = "none"
  /\ fin = FALSE
  /\ serving = <<>>
  /\ part = "none"

-----------------------------------------------------------------------------
\* core.c's helpers, as the values the connection has after them.

Other(dir) == IF dir = "R" THEN "W" ELSE "R"

\* Mutant of SetActive: a descriptor that is registered is left as it is.
SetActiveOnce(i, dir) == IF i = {} THEN {dir} ELSE i

\* epoll_ctl(MOD) replaces the mask; FD_SET adds to the set.
SetActive(i, dir) == IF Backend = "epoll" THEN {dir} ELSE i \cup {dir}

\* Mutant of ClearActive: the directions are confused.
ClearActiveOther(i, dir) == i \ {Other(dir)}

ClearActive(i, dir) == IF Backend = "epoll" THEN {Other(dir)} ELSE i \ {dir}

\* Mutant of Watch: a reply that is due does not arm the watchdog.
WatchSending(w, sq, rq, tm) == w \/ (sq # <<>> /\ tm[Head(sq)])

(* The tail of set_active: the head of either queue may arm the watchdog   *)
(* w.  sq, rq and tm are the queues and the calls' timeouts at that time.  *)
Watch(w, sq, rq, tm) == \/ w
                        \/ sq # <<>> /\ tm[Head(sq)]
                        \/ rq # <<>> /\ tm[Head(rq)]

MinOf(a, b) == IF a < b THEN a ELSE b

\* The calls issue_calls creates: at most a burst of those not yet issued.
Burst == [k \in 1..MinOf(BurstLen, NumCalls - MinOf(num_calls, NumCalls)) |-> num_calls + k]

\* Mutant of BurstStarts: num_destroyed still counts the last burst.
BurstStartsLate == /\ num_calls' = num_calls + BurstLen
                   /\ num_completed' = 0
                   /\ UNCHANGED num_destroyed

BurstStarts == /\ num_calls' = num_calls + BurstLen
               /\ num_completed' = 0
               /\ num_destroyed' = 0

(* call_seq.issue_calls, every call through core_send: the first of an     *)
(* empty send queue starts the sending, the others wait behind it.  i and  *)
(* w are the interest and the watchdog when it is called.                  *)
IssueCalls(i, w) ==
  /\ BurstStarts
  /\ sendq' = sendq \o Burst
  /\ IF sendq = <<>> /\ Burst # <<>>
       THEN /\ timed' = [timed EXCEPT ![Head(Burst)] = Timeout]
            /\ interest' = SetActive(i, "W")
            /\ watchdog' = Watch(w, Burst, recvq, timed')
       ELSE /\ interest' = i
            /\ watchdog' = w
            /\ UNCHANGED timed

\* call_destroyed acts when this many calls of a burst are gone.
Threshold == MinOf(BurstLen, NumCalls)

\* Mutant of GoesOn: call_destroyed does not look at num_completed.
GoesOnRegardless(n, m) == n >= Threshold /\ num_calls < NumCalls

\* Of n destroyed calls, m completed: call_destroyed goes on with a new burst.
GoesOn(n, m) == n >= Threshold /\ m = n /\ num_calls < NumCalls

\* Mutant of Unregister: core_close leaves the watchdog armed.
UnregisterKeepsTimer == interest' = {} /\ UNCHANGED watchdog

\* core_close cancels the watchdog and takes the descriptor out of the poll.
Unregister == watchdog' = FALSE /\ interest' = {}

(* core_close: the connection is unregistered, every queued call destroyed *)
(* (and call_destroyed told), the socket closed, the creator's reference   *)
(* dropped, which frees the connection unless core_loop holds one too.     *)
CoreClose(destroyed) ==
  LET last == destroyed + Len(sendq) + Len(recvq)
  IN  /\ state' = IF held THEN "CLOSING" ELSE "FREE"
      /\ Unregister
      /\ sendq' = <<>> /\ recvq' = <<>>
      /\ num_destroyed' = last
      /\ stray' = (stray \/ \E n \in destroyed + 1 .. last : GoesOn(n, num_completed))
      /\ link' = "closed"
      /\ tx' = <<>> /\ rx' = <<>> /\ fin' = FALSE
      /\ serving' = <<>> /\ part' = "none"
      /\ UNCHANGED <<held, left, timed, num_calls, num_completed, completed>>

-----------------------------------------------------------------------------
\* Opening: the rate generator has created the connection and connects it.

ConnectStarts ==  \* EINPROGRESS
  /\ at = "connect"
  /\ state' = "CONNECTING"
  /\ interest' = SetActive(interest, "W")
  /\ watchdog' = Timeout
  /\ link' = "syn"
  /\ at' = "loop"
  /\ UNCHANGED <<sendq, recvq, held, left, timed, callseq, stray, completed, poll, buf, tx, wire>>

ConnectSucceeds ==  \* connect() returns 0
  /\ at = "connect"
  /\ state' = "CONNECTED"
  /\ link' = "up"
  /\ at' = "loop"
  /\ IssueCalls(interest, watchdog)
  /\ UNCHANGED <<recvq, held, left, stray, completed, poll, buf, tx, wire>>

ConnectFails ==
  /\ at = "connect"
  /\ CoreClose(num_destroyed)
  /\ at' = "loop"
  /\ UNCHANGED <<poll, buf>>

-----------------------------------------------------------------------------
\* core_loop

Readable == rx # <<>> \/ fin \/ link = "broken"
Writable == link = "broken" \/ (link = "up" /\ Len(tx) < TxMax)

\* EPOLLHUP is reported whatever the mask, and handled like EPOLLIN.
Events == {dir \in interest : IF dir = "R" THEN Readable ELSE Writable}
            \cup (IF Backend = "epoll" /\ link = "broken" THEN {"R"} ELSE {})

\* select counts a descriptor once per direction, epoll_wait once.
Poll ==
  /\ at = "loop"
  /\ Events # {}
  /\ ready' = Events
  /\ count' = IF Backend = "select" /\ Events = {"R", "W"} THEN 2 ELSE 1
  /\ at' = "event"
  /\ UNCHANGED <<conn, held, work, buf, net>>

\* conn_timeout, from the timer_tick before a poll or between two events.
ConnTimeout ==
  /\ at \in {"loop", "again"}
  /\ watchdog
  /\ CoreClose(num_destroyed)
  /\ UNCHANGED <<at, poll, buf>>

\* What the thread takes the connection to be ready for: select checks anew.
StillReady == IF Backend = "select" THEN ready \cap interest ELSE ready

AtEvent == at \in {"event", "again"} /\ count > 0

SkipEvent ==
  /\ AtEvent
  /\ StillReady = {}
  /\ count' = count - 1
  /\ at' = IF count > 1 THEN "again" ELSE "loop"
  /\ UNCHANGED <<conn, held, ready, work, buf, net>>

\* Every event cancels the watchdog; writability ends the connecting.
TakeEvent ==
  /\ AtEvent
  /\ StillReady # {}
  /\ count' = count - 1
  /\ held' = TRUE
  /\ at' = "handle"
  /\ IF state = "CONNECTING"
       THEN /\ work' = {}
            /\ IF "W" \in StillReady
                 THEN /\ state' = "CONNECTED"
                      /\ IssueCalls(ClearActive(interest, "W"), FALSE)
                 ELSE /\ watchdog' = FALSE
                      /\ UNCHANGED <<state, sendq, interest, timed, callseq>>
       ELSE /\ work' = StillReady
            /\ watchdog' = FALSE
            /\ UNCHANGED <<state, sendq, interest, timed, callseq>>
  /\ UNCHANGED <<recvq, left, stray, completed, ready, buf, net>>

\* select sends before it receives, epoll the other way round.
First == IF Backend = "select" THEN "W" ELSE "R"

\* One direction of the event: do_send or do_recv, if there is a call for it.
Handle(dir) ==
  /\ at = "handle"
  /\ dir \in work
  /\ dir = First \/ First \notin work
  /\ work' = work \ {dir}
  /\ at' = CASE dir = "W" /\ sendq # <<>> -> "send"
            [] dir = "R" /\ recvq # <<>> -> "read"
            [] OTHER -> "handle"
  /\ UNCHANGED <<conn, held, ready, count, buf, net>>

\* conn_dec_ref, which frees a connection that was closed meanwhile.
EventDone ==
  /\ at = "handle"
  /\ work = {}
  /\ held' = FALSE
  /\ state' = IF state = "CLOSING" THEN "FREE" ELSE state
  /\ at' = IF count > 0 THEN "again" ELSE "loop"
  /\ UNCHANGED <<sendq, recvq, watchdog, interest, left, timed, callseq, stray, completed, poll, buf, net>>

-----------------------------------------------------------------------------
\* do_send: one iteration of its loop.

Units(c, n) == [k \in 1..n |-> c]

\* Mutant of SendBlocks: do_send tries again until the write succeeds.
SendSpins ==
  /\ at = "send"
  /\ link = "up" /\ Len(tx) = TxMax
  /\ UNCHANGED vars

SendBlocks ==  \* EAGAIN
  /\ at = "send"
  /\ link = "up" /\ Len(tx) = TxMax
  /\ at' = "handle"
  /\ UNCHANGED <<conn, held, poll, buf, net>>

SendFails ==
  /\ at = "send"
  /\ link = "broken"
  /\ CoreClose(num_destroyed)
  /\ at' = "handle"
  /\ UNCHANGED <<poll, buf>>

\* Mutant of Writes: what was written is taken off the request twice.
WritesTwice(n) ==
  /\ at = "send"
  /\ link = "up"
  /\ n <= left[Head(sendq)]
  /\ Len(tx) + n <= TxMax
  /\ tx' = tx \o Units(Head(sendq), n)
  /\ left' = [left EXCEPT ![Head(sendq)] = @ - 2 * n]

\* writev takes n units of the request at the head of the send queue.
Writes(n) ==
  /\ at = "send"
  /\ link = "up"
  /\ n <= left[Head(sendq)]
  /\ Len(tx) + n <= TxMax
  /\ tx' = tx \o Units(Head(sendq), n)
  /\ left' = [left EXCEPT ![Head(sendq)] = @ - n]

SendPart(n) ==
  /\ Writes(n)
  /\ n < left[Head(sendq)]
  /\ timed' = [timed EXCEPT ![Head(sendq)] = Timeout]
  /\ interest' = SetActive(interest, "W")
  /\ watchdog' = Watch(watchdog, sendq, recvq, timed')
  /\ at' = "handle"
  /\ UNCHANGED <<state, sendq, recvq, held, callseq, stray, completed, poll, buf, link, wire>>

\* Mutant of Awaiting: the call is queued for its reply before the others.
AwaitingFirst(c) == <<c>> \o recvq

\* The receive queue with the call whose request has just been sent.
Awaiting(c) == Append(recvq, c)

\* The request is out: its call moves to the receive queue.
SendAll(n) ==
  LET c == Head(sendq)
      sq == Tail(sendq)
      i == IF sq = <<>> THEN ClearActive(interest, "W") ELSE interest
  IN  /\ Writes(n)
      /\ n = left[c]
      /\ sendq' = sq
      /\ recvq' = Awaiting(c)
      /\ timed' = [timed EXCEPT ![c] = Timeout \/ ThinkTimeout]
      /\ interest' = SetActive(i, "R")
      /\ watchdog' = Watch(watchdog, sq, recvq', timed')
      /\ state' = IF state \in {"CONNECTING", "CONNECTED"} THEN "REPLY_STATUS" ELSE state
      /\ at' = IF sq = <<>> THEN "handle" ELSE "send"
      /\ UNCHANGED <<held, callseq, stray, completed, poll, buf, link, wire>>

-----------------------------------------------------------------------------
\* do_recv: the read, then one reply (or the rest of the buffer) at a time.

ReadBlocks ==  \* EAGAIN
  /\ at = "read"
  /\ rx = <<>> /\ ~fin /\ link = "up"
  /\ at' = "handle"
  /\ UNCHANGED <<conn, held, poll, buf, net>>

\* An error, or the end of the stream where a reply cannot end.
ReadFails ==
  /\ at = "read"
  /\ rx = <<>>
  /\ link = "broken" \/ (fin /\ state # "REPLY_DATA")
  /\ CoreClose(num_destroyed)
  /\ at' = "handle"
  /\ UNCHANGED <<poll, buf>>

ReadData(n) ==
  /\ at = "read"
  /\ n <= Len(rx)
  /\ buf' = SubSeq(rx, 1, n)
  /\ rx' = SubSeq(rx, n + 1, Len(rx))
  /\ at' = "parse"
  /\ UNCHANGED <<conn, held, poll, link, tx, fin, serving, part>>

(* recv_done up to EV_CALL_RECV_STOP: the call leaves the receive queue.   *)
RecvDone ==
  /\ state' = "REPLY_DONE"
  /\ recvq' = Tail(recvq)
  /\ interest' = IF Tail(recvq) = <<>> THEN ClearActive(interest, "R") ELSE interest
  /\ num_completed' = num_completed + 1
  /\ completed' = completed \cup {Head(recvq)}

\* The end of the stream is the end of a body without a length.
ReadEnds ==
  /\ at = "read"
  /\ rx = <<>> /\ fin /\ link = "up"
  /\ state = "REPLY_DATA"
  /\ RecvDone
  /\ at' = "destroy_eof"
  /\ UNCHANGED <<sendq, watchdog, held, left, timed, num_calls, num_destroyed, stray, poll, buf, net>>

\* http_process_reply_bytes stops at the end of a reply or of the buffer.
ParsePiece ==
  /\ at = "parse"
  /\ buf # <<>>
  /\ recvq # <<>>  \* assert(c), see HandlersHaveCalls
  /\ buf' = Tail(buf)
  /\ CASE Head(buf).part = "end" ->
            /\ RecvDone
            /\ at' = "destroy"
       [] Head(buf).part = "data" ->
            /\ state' = "REPLY_DATA"
            /\ UNCHANGED <<recvq, interest, num_completed, completed, at>>
       [] Head(buf).part = "head" ->
            /\ state' = "REPLY_HEADER"
            /\ UNCHANGED <<recvq, interest, num_completed, completed, at>>
  /\ timed' = IF state = "REPLY_STATUS"
                THEN [timed EXCEPT ![Head(recvq)] = Timeout \/ ThinkTimeout] ELSE timed
  /\ UNCHANGED <<sendq, watchdog, held, left, num_calls, num_destroyed, stray, poll, net>>

\* Mutant of RecvReturns: do_recv leaves the watchdog cancelled.
RecvReturnsUnwatched ==
  /\ at = "parse"
  /\ buf = <<>>
  /\ interest' = IF recvq # <<>> THEN SetActive(interest, "R") ELSE interest
  /\ at' = "handle"
  /\ UNCHANGED <<state, sendq, recvq, watchdog, held, left, timed, callseq, stray, completed,
                 poll, buf, net>>

\* The buffer is used up: do_recv waits for more if a reply is outstanding.
RecvReturns ==
  /\ at = "parse"
  /\ buf = <<>>
  /\ IF recvq # <<>>
       THEN /\ interest' = SetActive(interest, "R")
            /\ watchdog' = Watch(watchdog, sendq, recvq, timed)
       ELSE UNCHANGED <<interest, watchdog>>
  /\ at' = "handle"
  /\ UNCHANGED <<state, sendq, recvq, held, left, timed, callseq, stray, completed, poll, buf, net>>

-----------------------------------------------------------------------------
(* EV_CALL_DESTROYED of a call that completed: call_seq.call_destroyed,    *)
(* then the rest of do_recv's loop body, or its return at end of stream.   *)

Destroying == at \in {"destroy", "destroy_eof"}

ResumeReceiving ==
  /\ state' = IF at = "destroy" THEN "REPLY_STATUS" ELSE state
  /\ at' = IF at = "destroy" THEN "parse" ELSE "handle"
  /\ UNCHANGED <<recvq, held, left, stray, completed, poll, buf, net>>

BurstPending ==
  /\ Destroying
  /\ num_destroyed + 1 < Threshold
  /\ num_destroyed' = num_destroyed + 1
  /\ ResumeReceiving
  /\ UNCHANGED <<sendq, watchdog, interest, timed, num_calls, num_completed>>

NextBurst ==
  /\ Destroying
  /\ GoesOn(num_destroyed + 1, num_completed)
  /\ IssueCalls(interest, watchdog)
  /\ ResumeReceiving

LastBurstDone ==
  /\ Destroying
  /\ num_destroyed + 1 >= Threshold
  /\ ~GoesOn(num_destroyed + 1, num_completed)
  /\ CoreClose(num_destroyed + 1)
  /\ buf' = <<>>
  /\ at' = "handle"
  /\ UNCHANGED <<poll>>

-----------------------------------------------------------------------------
(* The kernel and the server: not part of httperf, modelled as what core.c *)
(* and http.c rely on.  The server answers the requests one by one and     *)
(* reads the next one when it has written the reply to the last.           *)

client == <<conn, held, at, poll, buf>>

Accept == /\ link = "syn"
          /\ link' = "up"
          /\ UNCHANGED <<client, tx, wire>>

Break == /\ ServerFails
         /\ link \in {"syn", "up"}
         /\ link' = "broken"
         /\ tx' = <<>>
         /\ UNCHANGED <<client, rx, fin, serving, part>>

ServerCloses == /\ ServerFails
                /\ link = "up"
                /\ fin' = TRUE
                /\ UNCHANGED <<client, link, tx, rx, serving, part>>

ServerReads == /\ link = "up" /\ ~fin
               /\ tx # <<>>
               /\ Len(serving) < ReqSize
               /\ serving' = Append(serving, Head(tx))
               /\ tx' = Tail(tx)
               /\ UNCHANGED <<client, link, rx, fin, part>>

ServerWrites(p) == /\ link = "up" /\ ~fin
                   /\ Len(serving) = ReqSize
                   /\ Len(rx) < RxMax
                   /\ CASE part = "none" -> TRUE
                        [] part = "head" -> p # "head"
                        [] part = "data" -> p = "end"
                   /\ rx' = Append(rx, [call |-> Head(serving), part |-> p])
                   /\ IF p = "end" THEN serving' = <<>> /\ part' = "none"
                                   ELSE part' = p /\ UNCHANGED serving
                   /\ UNCHANGED <<client, link, tx, fin>>

-----------------------------------------------------------------------------
Opening == ConnectStarts \/ ConnectSucceeds \/ ConnectFails
Looping == Poll \/ SkipEvent \/ TakeEvent \/ (\E dir \in {"R", "W"} : Handle(dir)) \/ EventDone
Sending == SendBlocks \/ SendFails \/ \E n \in 1..ReqSize : SendPart(n) \/ SendAll(n)
Receiving == \/ ReadBlocks \/ ReadFails \/ ReadEnds \/ ParsePiece \/ RecvReturns
             \/ \E n \in 1..RxMax : ReadData(n)
CallDestroyed == BurstPending \/ NextBurst \/ LastBurstDone

\* The connection is gone and the thread is back in its loop.
Finished == /\ state = "FREE"
            /\ at = "loop"
            /\ UNCHANGED vars

Serving == Accept \/ ServerReads \/ \E p \in {"head", "data", "end"} : ServerWrites(p)

Next == \/ Opening \/ Looping \/ ConnTimeout \/ Sending \/ Receiving \/ CallDestroyed
        \/ Serving \/ Break \/ ServerCloses
        \/ Finished

Spec == Init /\ [][Next]_vars

\* The thread never rests, and an armed watchdog expires in the end.
ThreadFairness == /\ WF_vars(Opening \/ Looping \/ Sending \/ Receiving \/ CallDestroyed)
                  /\ WF_vars(ConnTimeout)

\* A server that accepts, reads and answers.
ServerFairness == WF_vars(Accept) /\ WF_vars(ServerReads) /\
                  WF_vars(\E p \in {"head", "data", "end"} : ServerWrites(p))

\* The client alone is fair: the server may fall silent at any point.
ClientSpec == Spec /\ ThreadFairness

ServedSpec == ClientSpec /\ ServerFairness

-----------------------------------------------------------------------------
(* What a connection leaves behind when it is closed: no call, no socket   *)
(* registered and, above all, no timer that would run conn_timeout on      *)
(* memory that is free or belongs to the next connection (the assertions   *)
(* of conn.c:146-149, the trailing set_active of core.c:616 and 750).      *)
ClosedIsQuiet ==
  state \in {"CLOSING", "FREE"} => /\ sendq = <<>> /\ recvq = <<>>
                                   /\ ~watchdog
                                   /\ interest = {}

(* No handler is entered without the call it works on: assert(call) of     *)
(* core.c:508, assert(c) of core.c:660 and 728.  The last holds only       *)
(* because the server sends nothing it was not asked for.                  *)
HandlersHaveCalls ==
  /\ at = "send" => sendq # <<>>
  /\ at = "read" => recvq # <<>>
  /\ at = "parse" /\ buf # <<>> => recvq # <<>>

(* Replies carry no identity: they are matched with calls by their order   *)
(* alone.  The pieces do_recv processes, those the kernel still holds and  *)
(* the request being served belong to the head of the receive queue and    *)
(* its successors (core.c:606-612, 637, 727).                              *)
RepliesMatchCalls ==
  LET pieces == buf \o rx
  IN  Open => /\ pieces # <<>> => recvq # <<>> /\ Head(pieces).call = Head(recvq)
              /\ \A k \in 1..Len(pieces) - 1 :
                   pieces[k + 1].call = pieces[k].call + (IF pieces[k].part = "end" THEN 1 ELSE 0)
              /\ \A k \in 1..Len(serving) : serving[k] = serving[1]

(* A connection in a burst knows how much of it is left: the calls that    *)
(* are destroyed and those that are queued make up the burst, and no call  *)
(* outside the burst is queued (call_seq.c:77-86, 120-127).                *)
BurstAccounting ==
  LET inflight == recvq \o sendq
      issued == MinOf(num_calls, NumCalls)
  IN  Open /\ ~Destroying =>
        /\ \A k \in 1..Len(inflight) : inflight[k] = issued - Len(inflight) + k
        /\ num_completed = num_destroyed
        /\ Len(inflight) <= BurstLen

(* call_destroyed never mistakes a call lost with its connection for the   *)
(* last one of a burst: no call is created for a connection that is being  *)
(* closed (call_seq.c:122-124 against core.c:1418-1428).                   *)
NoCallOnClosing == ~stray

(* The five above, which hold whatever the poll.                           *)
ConnectionSafety == /\ ClosedIsQuiet /\ HandlersHaveCalls /\ RepliesMatchCalls
                    /\ BurstAccounting /\ NoCallOnClosing

Pending == sendq # <<>> \/ recvq # <<>>

(* The poll waits for something that can come: with work pending, the      *)
(* thread listens for a reply that is due or for room to send the next     *)
(* request (core.c:390-405, 439-459).                                      *)
ListensForProgress ==
  at = "loop" /\ Open /\ Pending => \/ ("R" \in interest /\ recvq # <<>>)
                                   \/ ("W" \in interest /\ sendq # <<>>)

(* With select, a descriptor is polled exactly for what its connection     *)
(* has to do (core.c:407-413, 461-467, 589-592, 638-641).                  *)
PolledForItsWork ==
  at = "loop" /\ Open => /\ ("R" \in interest) <=> (recvq # <<>>)
                        /\ ("W" \in interest) <=> (sendq # <<>> \/ state = "CONNECTING")

\* The thread is about to poll and there is nothing to hear.
Silence == at = "loop" /\ Events = {}

(* --timeout covers the establishing of the connection and, once every     *)
(* request is out, the wait for the replies (core.c:479-492, 1286-1291).   *)
WatchedWhileReceiving ==
  /\ Timeout /\ Silence
  /\ state = "CONNECTING" \/ (recvq # <<>> /\ sendq = <<>>)
  => watchdog

\* --timeout covers the sending of requests (core.c:580-582, 1386-1388).
WatchedWhileSending == Timeout /\ Silence /\ sendq # <<>> => watchdog

(* Whatever a connection waits for, and however the server falls silent,   *)
(* its watchdog is armed (core.c:479-492, 1557-1560).                      *)
Watched == WatchedWhileReceiving /\ WatchedWhileSending

(* The connection comes to its end.                                        *)
EventuallyClosed == <>(state = "FREE")

\* What became of a call, read off the queues.
Queued(c, q) == \E k \in 1..Len(q) : q[k] = c

PhaseOf(c) == IF c \in completed THEN "completed"
              ELSE IF Queued(c, sendq) THEN "queued"
              ELSE IF Queued(c, recvq) THEN "sent"
              ELSE IF c <= num_calls THEN "lost"
              ELSE "new"

Life == INSTANCE Pipeline WITH phase <- [c \in Calls |-> PhaseOf(c)],
                                 open <- state \notin {"CLOSING", "FREE"}

(* The queues, the partial writes and reads and the bursts implement the   *)
(* life of a call: issued, sent, answered in order, ended once, and lost   *)
(* only with its connection (core.c:496-751, 1314-1474).                   *)
ImplementsPipeline == Life!Spec
=============================================================================
