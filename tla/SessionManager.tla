--------------------------- MODULE SessionManager ---------------------------
(***************************************************************************)
(* gen/session.c, with the parts of core.c, sess.c, conn.c and of the      *)
(* collectors in stat/ that it drives: a session keeps up to max_conns     *)
(* connections, each with a ring of pending calls; a connection that fails *)
(* after a reply is replaced and its pending calls are sent again, one     *)
(* that fails before fails its session.                                    *)
(*                                                                         *)
(* One action per C function.  How a connection is buffered and timed is   *)
(* the subject of module Connection; here a request is written in at most  *)
(* two parts and a reply read whole.                                       *)
(***************************************************************************)
EXTENDS Objects, FiniteSets, Bags

CONSTANT NumSessions      \* --wsess=N1, --wsesslog=N, --wsesspage=N1

ASSUME SessionsAssumption == NumSessions \in Nat \ {0}

VARIABLES opt,      \* the command line, fixed for a run
          faults,   \* how often the network may still fail
          batch,    \* the events of one epoll_wait still to be handled
          stat,     \* the counters of basic.c and sess_stat.c
          visit     \* history: what became of the session created k-th

envVars == <<opt, faults, batch>>

Open == {"INITIAL", "CONNECTING", "CONNECTED"}   \* conn->state < S_CLOSING
ConnStates == Open \union {"CLOSING", "FREE"}

\* struct Conn_Info; pending is the ring from rd on, num_pending its length
ConnInfo == [conn |-> NULL, connected |-> FALSE, successful |-> FALSE,
             sent |-> 0, pending |-> <<>>]

StatInit == [active |-> 0, completed |-> 0, failed |-> 0, hist |-> EmptyBag]

Count(n) == SetToBag({n})

ManagerInit ==
  /\ ObjectsInit
  /\ faults = opt.faults
  /\ batch = <<>>
  /\ stat = StatInit
  /\ visit = [k \in 1..NumSessions |->
                [phase |-> "new", issued |-> 0, answered |-> 0, replies |-> 0]]

SetSess(s, f, v) == [mem EXCEPT !.sess[s][f] = v]
Ci(s, i) == mem.sess[s].ci[i]
Num(s) == mem.sess[s].num

-----------------------------------------------------------------------------
(* sess.c, and the destruction of sessions *)

sess_failure ==
  /\ Top("sess_failure")
  /\ LET s == Arg(1)
     IN IF mem.sess[s].failed
        THEN Return /\ UNCHANGED mem
        ELSE /\ mem' = SetSess(s, "failed", TRUE)
             /\ Run(<<DecRef("sess", s)>>)
  /\ UNCHANGED <<verdict, envVars, stat, visit>>

\* The handlers of EV_SESS_DESTROYED in the order of their registration: in
\* wsesslog the generator registers before the session manager; the rate
\* generator of sequential sessions comes last.
SessHandlers(s) ==
  LET manager   == <<<<"sess_destroyed", s, 1>>>>
      generator == <<<<"gen_sess_destroyed", s>>>>
  IN  (IF opt.gen = "wsesslog" THEN generator \o manager ELSE manager \o generator)
      \o (IF opt.timed THEN <<>> ELSE <<<<"done">>>>)

\* Mutant of DestroySess: counts a failed session among the completed ones too.
CountsFailedToo ==
  /\ Top("object_destroy") /\ Arg(1) = "sess"
  /\ LET s == Arg(2)  o == mem.sess[s]
     IN /\ stat' = [stat EXCEPT !.failed = IF o.failed THEN @ + 1 ELSE @,
                                !.completed = @ + 1,
                                !.hist = @ (+) Count(o.completed)]
        /\ visit' = [visit EXCEPT ![o.num].phase =
                       IF o.failed THEN "failed" ELSE "completed"]
        /\ Run(SessHandlers(s) \o <<<<"free", "sess", s>>>>)
  /\ UNCHANGED <<mem, verdict, envVars>>

\* object_destroy of a session, with the handler of sess_stat.c
DestroySess ==
  /\ Top("object_destroy") /\ Arg(1) = "sess"
  /\ LET s == Arg(2)  o == mem.sess[s]
     IN /\ stat' = [stat EXCEPT !.failed = IF o.failed THEN @ + 1 ELSE @,
                                !.completed = IF o.failed THEN @ ELSE @ + 1,
                                !.hist = @ (+) Count(o.completed)]
        /\ visit' = [visit EXCEPT ![o.num].phase =
                       IF o.failed THEN "failed" ELSE "completed"]
        /\ Run(SessHandlers(s) \o <<<<"free", "sess", s>>>>)
  /\ UNCHANGED <<mem, verdict, envVars>>

\* The loop of session.c's sess_destroyed over the connections from i on: close
\* the connection, then give up the references of the ring, reading its length
\* anew after each call.
sess_destroyed ==
  /\ Top("sess_destroyed")
  /\ LET s == Arg(1)  i == Arg(2)
     IN Run(IF i > opt.conns THEN <<>>
            ELSE <<<<"close_conn_of", s, i>>, <<"drop_ring", s, i, 1>>,
                   <<"sess_destroyed", s, i + 1>>>>)
  /\ UNCHANGED <<mem, verdict, envVars, stat, visit>>

close_conn_of ==
  /\ Top("close_conn_of")
  /\ LET k == Ci(Arg(1), Arg(2)).conn
     IN Run(IF k = NULL THEN <<>> ELSE <<<<"core_close", k>>>>)
  /\ UNCHANGED <<mem, verdict, envVars, stat, visit>>

drop_ring ==
  /\ Top("drop_ring")
  /\ LET ring == Ci(Arg(1), Arg(2)).pending  j == Arg(3)
     IN Run(IF j > Len(ring) THEN <<>>
            ELSE <<DecRef("call", ring[j]), <<"drop_ring", Arg(1), Arg(2), j + 1>>>>)
  /\ UNCHANGED <<mem, verdict, envVars, stat, visit>>

-----------------------------------------------------------------------------
(* Issuing calls *)

\* The ring takes the call c on the first connection that has room.
session_issue_call ==
  /\ Top("session_issue_call")
  /\ LET s == Arg(1)  c == Arg(2)
         room == {i \in 1..opt.conns : Len(Ci(s, i).pending) < opt.piped}
         i == CHOOSE i \in room : \A j \in room : i <= j
     IN IF room = {}
        THEN /\ verdict' = "exit"      \* too many calls pending!
             /\ Return /\ UNCHANGED mem
        ELSE /\ mem' = [mem EXCEPT !.call[c].sess = s, !.call[c].ref = @ + 1,
                                   !.sess[s].ci[i].pending = Append(@, c)]
             /\ Run(<<<<"send_calls", s, i>>>>)
             /\ UNCHANGED verdict
  /\ UNCHANGED <<envVars, stat, visit>>

\* The call o when it joins the send queue of the connection k: its writing starts
\* again with the first fragment of the request, but a fragment that a partial
\* write has cut stays cut (iov_saved is overwritten).
Queued(o, k) ==
  [o EXCEPT !.conn = k, !.ref = @ + 1, !.whole = @ /\ ~o.cut, !.cut = FALSE]

\* core_send of the calls q on the connection k, in order: a send queue that was
\* empty makes the connection listen for room to write, and stop listening for
\* replies.
CoreSend(m, k, q) ==
  [m EXCEPT !.conn[k].sendq = @ \o q,
            !.conn[k].mask = IF q # <<>> /\ m.conn[k].sendq = <<>> THEN "out" ELSE @,
            !.call = [c \in DOMAIN @ |-> IF Contains(q, c) THEN Queued(@[c], k) ELSE @[c]]]

\* Mutant of send_calls: does not count the calls it has sent.
SendsAgain ==
  /\ Top("send_calls")
  /\ LET s == Arg(1)  i == Arg(2)  ci == Ci(s, i)
         unsent == SubSeq(ci.pending, ci.sent + 1, Len(ci.pending))
     IN /\ mem' = IF ci.conn # NULL /\ ci.connected
                  THEN CoreSend(mem, ci.conn, unsent) ELSE mem
        /\ Run(IF ci.conn = NULL THEN <<<<"create_conn", s, i>>>> ELSE <<>>)
  /\ UNCHANGED <<verdict, envVars, stat, visit>>

send_calls ==
  /\ Top("send_calls")
  /\ LET s == Arg(1)  i == Arg(2)  ci == Ci(s, i)
         unsent == SubSeq(ci.pending, ci.sent + 1, Len(ci.pending))
     IN /\ mem' = IF ci.conn # NULL /\ ci.connected
                  THEN [CoreSend(mem, ci.conn, unsent)
                          EXCEPT !.sess[s].ci[i].sent = Len(ci.pending)]
                  ELSE mem
        /\ Run(IF ci.conn = NULL THEN <<<<"create_conn", s, i>>>> ELSE <<>>)
  /\ UNCHANGED <<verdict, envVars, stat, visit>>

\* Mutant of create_conn: keeps num_sent of the connection it replaces.
ResendForgotten ==
  /\ Top("create_conn")
  /\ LET s == Arg(1)  i == Arg(2)  k == New("conn")
         new == [ref |-> 1, state |-> "INITIAL", sess |-> s, ci |-> i,
                 sendq |-> <<>>, recvq |-> <<>>, mask |-> "out"]
     IN /\ mem' = [object_new(mem, "conn", new) EXCEPT
                     !.sess[s].ci[i] = [@ EXCEPT !.conn = k, !.connected = FALSE,
                                                 !.successful = FALSE]]
        /\ Run(<<<<"core_connect", k>>>>)
  /\ stat' = [stat EXCEPT !.active = @ + 1]
  /\ UNCHANGED <<verdict, envVars, visit>>

create_conn ==
  /\ Top("create_conn")
  /\ LET s == Arg(1)  i == Arg(2)  k == New("conn")
         new == [ref |-> 1, state |-> "INITIAL", sess |-> s, ci |-> i,
                 sendq |-> <<>>, recvq |-> <<>>, mask |-> "out"]
     IN /\ mem' = [object_new(mem, "conn", new) EXCEPT
                     !.sess[s].ci[i] = [@ EXCEPT !.conn = k, !.connected = FALSE,
                                                 !.successful = FALSE, !.sent = 0]]
        /\ Run(<<<<"core_connect", k>>>>)
  /\ stat' = [stat EXCEPT !.active = @ + 1]
  /\ UNCHANGED <<verdict, envVars, visit>>

-----------------------------------------------------------------------------
(* Connections *)

\* The network does f, which the run's options allow.
MayHappen(f) == f \in opt.net /\ faults > 0

ConnectInProgress ==
  /\ Top("core_connect")
  /\ mem' = [mem EXCEPT !.conn[Arg(1)].state = "CONNECTING"]
  /\ Return
  /\ UNCHANGED <<verdict, envVars, stat, visit>>

ConnectAtOnce ==
  /\ Top("core_connect") /\ "instant" \in opt.net
  /\ mem' = [mem EXCEPT !.conn[Arg(1)].state = "CONNECTED"]
  /\ Run(<<<<"conn_connected", Arg(1)>>>>)
  /\ UNCHANGED <<verdict, envVars, stat, visit>>

\* core_connect returns -1 after conn_failure, and create_conn fails the session.
ConnectRefused ==
  /\ Top("core_connect") /\ MayHappen("refused")
  /\ faults' = faults - 1
  /\ Run(<<<<"conn_failed", Arg(1)>>, <<"core_close", Arg(1)>>,
           <<"sess_failure", mem.conn[Arg(1)].sess>>>>)
  /\ UNCHANGED <<mem, verdict, opt, batch, stat, visit>>

conn_connected ==
  /\ Top("conn_connected")
  /\ LET k == mem.conn[Arg(1)]
     IN /\ mem' = [mem EXCEPT !.sess[k.sess].ci[k.ci].connected = TRUE]
        /\ Run(<<<<"send_calls", k.sess, k.ci>>>>)
  /\ UNCHANGED <<verdict, envVars, stat, visit>>

\* A connection that got a reply, or any with --retry-on-failure, is replaced.
conn_failed ==
  /\ Top("conn_failed")
  /\ LET k == mem.conn[Arg(1)]  ci == Ci(k.sess, k.ci)
     IN Run(IF ci.successful \/ opt.retry
            THEN <<<<"create_conn", k.sess, k.ci>>>>
            ELSE <<<<"sess_failure", k.sess>>>>)
  /\ UNCHANGED <<mem, verdict, envVars, stat, visit>>

conn_timeout ==
  /\ Top("conn_timeout")
  /\ Run(<<<<"sess_failure", mem.conn[Arg(1)].sess>>>>)
  /\ UNCHANGED <<mem, verdict, envVars, stat, visit>>

\* Mutant of core_close: no guard against recursive calls.
ClosesAgain ==
  /\ Top("core_close")
  /\ LET k == Arg(1)
     IN /\ mem' = [mem EXCEPT !.conn[k].state = "CLOSING"]
        /\ Run(DecRefAll(mem.conn[k].sendq) \o <<<<"close_recvq", k>>>>)
  /\ UNCHANGED <<verdict, envVars, stat, visit>>

\* core_close: the guard against recursive calls, then the calls of the send
\* queue, those of the receive queue, the socket, and the connection's reference.
core_close ==
  /\ Top("core_close")
  /\ LET k == Arg(1)
     IN IF mem.conn[k].state \notin Open
        THEN Return /\ UNCHANGED mem
        ELSE /\ mem' = [mem EXCEPT !.conn[k].state = "CLOSING"]
             /\ Run(DecRefAll(mem.conn[k].sendq) \o <<<<"close_recvq", k>>>>)
  /\ UNCHANGED <<verdict, envVars, stat, visit>>

\* Mutant of close_recvq: forgets the references of the receive queue.
KeepsRecvq ==
  /\ Top("close_recvq")
  /\ LET k == Arg(1)
     IN /\ mem' = [mem EXCEPT !.conn[k].sendq = <<>>]
        /\ Run(<<<<"close_sd", k>>>>)
  /\ UNCHANGED <<verdict, envVars, stat, visit>>

close_recvq ==
  /\ Top("close_recvq")
  /\ LET k == Arg(1)
     IN /\ mem' = [mem EXCEPT !.conn[k].sendq = <<>>]
        /\ Run(DecRefAll(mem.conn[k].recvq) \o <<<<"close_sd", k>>>>)
  /\ UNCHANGED <<verdict, envVars, stat, visit>>

close_sd ==
  /\ Top("close_sd")
  /\ LET k == Arg(1)
     IN /\ mem' = [mem EXCEPT !.conn[k].recvq = <<>>]
        /\ Run(<<DecRef("conn", k)>>)
  /\ UNCHANGED <<verdict, envVars, stat, visit>>

\* conn_deinit and the handler of basic.c
DestroyConn ==
  /\ Top("object_destroy") /\ Arg(1) = "conn"
  /\ LET k == Arg(2)  o == mem.conn[k]
     IN /\ Check(/\ o.state = "CLOSING"            \* the socket is closed
                  /\ o.sendq = <<>> /\ o.recvq = <<>>
                  /\ stat.active > 0)
        /\ mem' = [mem EXCEPT !.conn[k].state = "FREE"]
        /\ Run(<<<<"free", "conn", k>>>>)
  /\ stat' = [stat EXCEPT !.active = @ - 1]
  /\ UNCHANGED <<envVars, visit>>

-----------------------------------------------------------------------------
(* Replies *)

\* recv_done: the call leaves the receive queue, EV_CALL_RECV_STOP, the
\* reference of the queue is given up.  bad: its status is the failure status.
\* The code follows call->conn and call->recvq_next unchecked; the run stops here
\* when they do not lead through the queue that the call heads.
recv_done ==
  /\ Top("recv_done")
  /\ LET c == Arg(1)  k == mem.call[c].conn
     IN /\ Check(/\ k # NULL
                  /\ mem.conn[k].recvq # <<>> /\ Head(mem.conn[k].recvq) = c)
        /\ mem' = [mem EXCEPT !.conn[k].recvq = Tail(@),
                              !.conn[k].mask = IF Len(mem.conn[k].recvq) = 1 THEN "out" ELSE @]
        /\ Run(<<<<"call_done", c, Arg(2)>>, DecRef("call", c)>>)
  /\ UNCHANGED <<envVars, stat, visit>>

\* Mutant of call_done: the replies of failed calls are not counted.
CountsGoodOnly ==
  /\ Top("call_done")
  /\ LET c == Arg(1)  bad == Arg(2)  k == mem.call[c].conn
         s == mem.conn[k].sess  i == mem.conn[k].ci  ci == Ci(s, i)
     IN /\ Check(ci.pending # <<>> /\ Head(ci.pending) = c /\ ci.sent > 0)
        /\ mem' = [mem EXCEPT
                     !.sess[s].ci[i] = [ci EXCEPT !.successful = TRUE,
                                                  !.pending = Tail(ci.pending),
                                                  !.sent = ci.sent - 1],
                     !.sess[mem.call[c].sess].completed = IF bad THEN @ ELSE @ + 1]
        /\ visit' = [visit EXCEPT ![Num(s)].replies = @ + 1,
                                  ![Num(s)].answered = IF bad /\ opt.retry THEN @ ELSE @ + 1]
        /\ Run((IF bad THEN (IF opt.retry THEN <<<<"session_issue_call", s, c>>>>
                                          ELSE <<<<"sess_failure", s>>>>)
                       ELSE <<>>)
               \o <<DecRef("call", c)>>
               \o (IF opt.http11 THEN <<>>
                   ELSE <<<<"close_conn_of", s, i>>, <<"forget_conn", s, i>>>>))
  /\ UNCHANGED <<envVars, stat>>

\* EV_CALL_RECV_STOP: replies complete in the order of the ring.
call_done ==
  /\ Top("call_done")
  /\ LET c == Arg(1)  bad == Arg(2)  k == mem.call[c].conn
         s == mem.conn[k].sess  i == mem.conn[k].ci  ci == Ci(s, i)
     IN /\ Check(ci.pending # <<>> /\ Head(ci.pending) = c /\ ci.sent > 0)
        /\ mem' = [mem EXCEPT
                     !.sess[s].ci[i] = [ci EXCEPT !.successful = TRUE,
                                                  !.pending = Tail(ci.pending),
                                                  !.sent = ci.sent - 1],
                     !.sess[mem.call[c].sess].completed = @ + 1]
        /\ visit' = [visit EXCEPT ![Num(s)].replies = @ + 1,
                                  ![Num(s)].answered = IF bad /\ opt.retry THEN @ ELSE @ + 1]
        /\ Run((IF bad THEN (IF opt.retry THEN <<<<"session_issue_call", s, c>>>>
                                          ELSE <<<<"sess_failure", s>>>>)
                       ELSE <<>>)
               \o <<DecRef("call", c)>>
               \o (IF opt.http11 THEN <<>>
                   ELSE <<<<"close_conn_of", s, i>>, <<"forget_conn", s, i>>>>))
  /\ UNCHANGED <<envVars, stat>>

\* ci->conn = 0, before HTTP/1.1
forget_conn ==
  /\ Top("forget_conn")
  /\ mem' = [mem EXCEPT !.sess[Arg(1)].ci[Arg(2)].conn = NULL]
  /\ Return
  /\ UNCHANGED <<verdict, envVars, stat, visit>>

DestroyCall ==
  /\ Top("object_destroy") /\ Arg(1) = "call"
  /\ Run(<<<<"call_destroyed", Arg(2)>>, <<"free", "call", Arg(2)>>>>)
  /\ UNCHANGED <<mem, verdict, envVars, stat, visit>>

ManagerStep ==
  \/ sess_failure \/ DestroySess \/ sess_destroyed \/ close_conn_of \/ drop_ring
  \/ session_issue_call \/ send_calls \/ create_conn
  \/ ConnectInProgress \/ ConnectAtOnce \/ ConnectRefused
  \/ conn_connected \/ conn_failed \/ conn_timeout
  \/ core_close \/ close_recvq \/ close_sd \/ DestroyConn
  \/ recv_done \/ call_done \/ forget_conn \/ DestroyCall
  \/ (object_dec_ref \/ free) /\ UNCHANGED <<envVars, stat, visit>>
=============================================================================
