------------------------------ MODULE Workload ------------------------------
(***************************************************************************)
(* The session workloads: gen/wsess.c, gen/wsesslog.c and gen/wsesspage.c  *)
(* over the session manager, the rate generator of gen/rate.c that creates *)
(* the sessions, and the epoll loop of core.c that drives it all.          *)
(***************************************************************************)
EXTENDS SessionManager

CONSTANT Options      \* the command lines a run starts from

\* The types of the options, those of the network included: what may go wrong, how
\* often, whether before the first reply, and how much one wait or read returns.
ASSUME OptionsAssumption ==
  Options \subseteq
    [gen : {"wsess", "wsesslog", "wsesspage"}, timed : BOOLEAN, retry : BOOLEAN,
     http11 : BOOLEAN, conns : Nat \ {0}, piped : Nat \ {0}, burst : Nat, calls : Nat,
     file : Seq({"comment", "blank", "uri", "more"}), plans : Seq(Seq(Nat)),
     reqs : Nat, links : Nat, faults : Nat, early : BOOLEAN, batch : Nat, read : Nat,
     net : SUBSET {"instant", "partial", "refused", "reset", "status", "timeout"}]

VARIABLE gen          \* the generators' global variables

vars == <<stack, mem, verdict, opt, faults, batch, stat, visit, gen>>

Least(a, b) == IF a < b THEN a ELSE b

-----------------------------------------------------------------------------
(* The file of --wsesslog.  A line is "comment", "blank", "uri" (a request  *)
(* from the first column on) or "more" (an indented one).                   *)

\* p.open: sptr->current_req # NULL; p.tmpl: the lengths of each session's bursts
ParseLine(p, line) ==
  LET last == Len(p.tmpl)  b == Len(p.tmpl[last])
  IN CASE line = "comment" -> p
       [] line = "blank"   -> [p EXCEPT !.open = FALSE]
       [] ~p.open          -> [tmpl |-> Append(p.tmpl, <<1>>), open |-> TRUE]
       [] line = "uri"     -> [p EXCEPT !.tmpl[last] = Append(@, 1)]
       [] line = "more"    -> [p EXCEPT !.tmpl[last][b] = @ + 1]

parse_config(lines) == FoldLeft(ParseLine, [tmpl |-> <<>>, open |-> FALSE], lines).tmpl

templates == gen.templates      \* session_templates

-----------------------------------------------------------------------------
Init ==
  /\ opt \in Options
  /\ ManagerInit
  /\ stack = <<<<"sess_create">>>>          \* rate_generator_start
  /\ gen = [generated |-> 0, destroyed |-> 0, done |-> FALSE, template |-> 1,
            running |-> TRUE, templates |-> parse_config(opt.file)]

\* sess_new, zeroed but for what sess_create then fills in.  The burst-oriented
\* generators and wsesspage share the fields that play the same role.
NewSess ==
  [ref |-> 1, num |-> gen.generated + 1, failed |-> FALSE, timer |-> FALSE,
   ci |-> [i \in 1..opt.conns |-> ConnInfo], completed |-> 0,
   created |-> 0,        \* num_calls_in_this_burst, num_created
   destroyed |-> 0,      \* num_calls_destroyed, num_destroyed
   target |-> CASE opt.gen = "wsess"    -> opt.burst
                [] opt.gen = "wsesslog" -> templates[gen.template][1]
                [] OTHER                -> 0,
   template |-> gen.template,
   burst |-> 1,          \* current_burst
   req |-> 1,            \* current_req, within the burst
   uris |-> 0,           \* length of uri_list
   fetched |-> 0]        \* num_reqs_completed

\* sess_create returns -1 when all sessions have been created; the rate
\* generator stores what it returns, also from the call in an inner frame.
sess_create ==
  /\ Top("sess_create")
  /\ IF gen.generated >= NumSessions
     THEN /\ gen' = [gen EXCEPT !.generated = @ + 1, !.done = TRUE]
          /\ Return
          /\ UNCHANGED <<mem, visit>>
     ELSE /\ gen' = [gen EXCEPT !.generated = @ + 1,
                                !.template = IF @ >= Len(templates) THEN 1 ELSE @ + 1]
          /\ mem' = object_new(mem, "sess", NewSess)
          /\ visit' = [visit EXCEPT ![gen.generated + 1].phase = "open"]
          /\ Run(<<<<"issue_calls", New("sess")>>, <<"not_done">>>>)
  /\ UNCHANGED <<verdict, envVars, stat>>

not_done ==
  /\ Top("not_done")
  /\ gen' = [gen EXCEPT !.done = FALSE]
  /\ Return
  /\ UNCHANGED <<mem, verdict, envVars, stat, visit>>

\* rate.c: a session is destroyed and the next one created.
done ==
  /\ Top("done")
  /\ Run(IF gen.done THEN <<>> ELSE <<<<"sess_create">>>>)
  /\ UNCHANGED <<mem, verdict, envVars, stat, visit, gen>>

-----------------------------------------------------------------------------
(* Creating calls *)

QueueLeft(s) ==     \* session_max_qlen - session_current_qlen
  opt.conns * opt.piped
    - FoldLeft(LAMBDA n, ci : n + Len(ci.pending), 0, mem.sess[s].ci)

BurstLen(o) == IF opt.gen = "wsess" THEN opt.burst ELSE templates[o.template][o.burst]

\* The first call of a burst alone, then the rest of it, as far as wsesslog
\* finds room.
ToCreate(s) ==
  LET o == mem.sess[s]
      n == IF o.created > 0 THEN BurstLen(o) - o.created ELSE 1
  IN  IF opt.gen = "wsesslog" THEN Least(n, QueueLeft(s)) ELSE n

IssueBurst ==
  /\ Top("issue_calls") /\ opt.gen # "wsesspage"
  /\ LET s == Arg(1)
     IN /\ mem' = [mem EXCEPT !.sess[s].created = @ + ToCreate(s)]
        /\ Run(<<<<"create_calls", s, ToCreate(s)>>>>)
  /\ UNCHANGED <<verdict, envVars, stat, visit, gen>>

\* wsesspage: the page alone, then as many embedded objects as there is room for.
IssuePage ==
  /\ Top("issue_calls") /\ opt.gen = "wsesspage"
  /\ LET s == Arg(1)
     IN Run(IF mem.sess[s].created > 0
            THEN <<<<"create_embedded", s, QueueLeft(s)>>>>
            ELSE <<<<"create_calls", s, 1>>>>)
  /\ UNCHANGED <<mem, verdict, envVars, stat, visit, gen>>

\* call_new in a session whose record becomes o; the page it fetches has so many
\* links.  The creator gives up its reference once the call is issued.
CreateCall(s, o, links, next) ==
  LET c == New("call")
      call == [ref |-> 1, sess |-> NULL, conn |-> NULL, links |-> links,
               cut |-> FALSE, whole |-> TRUE]
  IN /\ mem' = [object_new(mem, "call", call) EXCEPT !.sess[s] = o]
     /\ visit' = [visit EXCEPT ![o.num].issued = @ + 1]
     /\ Run(<<<<"session_issue_call", s, c>>, DecRef("call", c)>> \o next)

CallsCreated ==
  /\ \/ Top("create_calls") /\ Arg(2) <= 0
     \/ Top("create_embedded") /\ (Arg(2) <= 0 \/ mem.sess[Arg(1)].uris = 0)
  /\ Return
  /\ UNCHANGED <<mem, verdict, envVars, stat, visit, gen>>

CreateInBurst ==
  /\ Top("create_calls") /\ Arg(2) > 0
  /\ LET s == Arg(1)  o == mem.sess[s]
         created == [o EXCEPT !.created = IF opt.gen = "wsesspage" THEN @ + 1 ELSE @,
                              !.req = @ + 1]
     IN /\ CreateCall(s, created, opt.links, <<<<"create_calls", s, Arg(2) - 1>>>>)
        \* panic: requests ran past end of burst
        /\ verdict' = IF opt.gen = "wsesslog" /\ o.req > BurstLen(o) THEN "panic" ELSE verdict
  /\ UNCHANGED <<envVars, stat, gen>>

CreateEmbedded ==
  /\ Top("create_embedded") /\ Arg(2) > 0
  /\ LET s == Arg(1)  o == mem.sess[s]
     IN /\ o.uris > 0
        /\ CreateCall(s, [o EXCEPT !.created = @ + 1, !.uris = @ - 1], 0,
                      <<<<"create_embedded", s, Arg(2) - 1>>>>)
  /\ UNCHANGED <<verdict, envVars, stat, gen>>

\* The parser of wsesspage.c has found an embedded URI.
fetch_uri ==
  /\ Top("fetch_uri")
  /\ mem' = [mem EXCEPT !.sess[Arg(1)].uris = @ + 1]
  /\ Run(<<<<"issue_calls", Arg(1)>>>>)
  /\ UNCHANGED <<verdict, envVars, stat, visit, gen>>

-----------------------------------------------------------------------------
(* EV_CALL_DESTROYED and EV_SESS_DESTROYED in the generators *)

\* What call_destroyed goes on to do for a session whose record, the call
\* counted, is o: finish it, issue calls, think before the next burst, or wait.

\* Mutant of WsessDecision: thinks before the last call of the burst is done.
WsessHasty(o) ==
  IF o.destroyed >= opt.calls THEN (IF o.failed THEN "wait" ELSE "finish")
  ELSE IF o.created < opt.burst THEN "issue"
  ELSE IF o.destroyed >= o.target - 1 THEN "think"
  ELSE "wait"

WsessDecision(o) ==
  IF o.destroyed >= opt.calls THEN (IF o.failed THEN "wait" ELSE "finish")
  ELSE IF o.created < opt.burst THEN "issue"
  ELSE IF o.destroyed >= o.target THEN "think"
  ELSE "wait"

\* Mutant of WsesslogDecision: off by one on the burst.
LogShort(o) ==
  LET bursts == templates[o.template]
  IN IF o.failed THEN "wait"
     ELSE IF o.destroyed >= FoldLeft(+, 0, bursts) THEN "finish"
     ELSE IF o.created + 1 < bursts[o.burst] THEN "issue"
     ELSE IF o.destroyed >= o.target /\ o.burst < Len(bursts) THEN "think"
     ELSE "wait"

WsesslogDecision(o) ==
  LET bursts == templates[o.template]
  IN IF o.failed THEN "wait"
     ELSE IF o.destroyed >= FoldLeft(+, 0, bursts) THEN "finish"
     ELSE IF o.created < bursts[o.burst] THEN "issue"
     ELSE IF o.destroyed >= o.target /\ o.burst < Len(bursts) THEN "think"
     ELSE "wait"

WsesspageDecision(o) ==
  IF o.failed THEN "wait"
  ELSE IF o.uris > 0 THEN "issue"
  ELSE IF o.destroyed < o.created THEN "wait"
  ELSE IF o.fetched + 1 >= opt.reqs THEN "finish"
  ELSE "think"

\* The record of a session that has scheduled its think time.
Thinking(o) ==
  [o EXCEPT !.timer = TRUE, !.created = 0, !.req = 1,
            !.burst = IF opt.gen = "wsesslog" THEN @ + 1 ELSE @,
            !.target = @ + (CASE opt.gen = "wsess"    -> opt.burst
                              [] opt.gen = "wsesslog" -> templates[o.template][o.burst + 1]
                              [] OTHER                -> 0),
            !.fetched = @ + 1]

call_destroyed ==
  /\ Top("call_destroyed")
  /\ LET s == mem.call[Arg(1)].sess
         \* wsesslog does not count the calls of a failed session
         o == [mem.sess[s] EXCEPT
                 !.destroyed = IF opt.gen = "wsesslog" /\ mem.sess[s].failed
                               THEN @ ELSE @ + 1]
         decision == CASE opt.gen = "wsess"     -> WsessDecision(o)
                       [] opt.gen = "wsesslog"  -> WsesslogDecision(o)
                       [] opt.gen = "wsesspage" -> WsesspageDecision(o)
     IN /\ mem' = [mem EXCEPT !.sess[s] = IF decision = "think" THEN Thinking(o) ELSE o]
        /\ Check(decision = "think" => ~o.timer)
        /\ Run(CASE decision = "finish" -> <<DecRef("sess", s)>>
                 [] decision = "issue"  -> <<<<"issue_calls", s>>>>
                 [] OTHER               -> <<>>)
  /\ UNCHANGED <<envVars, stat, visit, gen>>

\* Mutant of gen_sess_destroyed: leaves the think-time timer of the session.
TimerLeft ==
  /\ Top("gen_sess_destroyed")
  /\ Return
  /\ gen' = [gen EXCEPT !.destroyed = @ + 1,
                        !.running = @ /\ gen.destroyed + 1 < NumSessions]
  /\ UNCHANGED <<mem, verdict, envVars, stat, visit>>

\* Mutant of gen_sess_destroyed: leaves the loop one session early.
ExitsEarly ==
  /\ Top("gen_sess_destroyed")
  /\ mem' = [mem EXCEPT !.sess[Arg(1)].timer = FALSE]
  /\ Return
  /\ gen' = [gen EXCEPT !.destroyed = @ + 1,
                        !.running = @ /\ gen.destroyed + 2 < NumSessions]
  /\ UNCHANGED <<verdict, envVars, stat, visit>>

\* The generator's handler of EV_SESS_DESTROYED; core_exit after the last session.
gen_sess_destroyed ==
  /\ Top("gen_sess_destroyed")
  /\ mem' = [mem EXCEPT !.sess[Arg(1)].timer = FALSE]
  /\ Return
  /\ gen' = [gen EXCEPT !.destroyed = @ + 1,
                        !.running = @ /\ gen.destroyed + 1 < NumSessions]
  /\ UNCHANGED <<verdict, envVars, stat, visit>>

-----------------------------------------------------------------------------
(* core_loop, with timer_tick, and epoll *)

\* Between two calls from the loop; timers expire only between two epoll_waits.
Idle == stack = <<>> /\ verdict = "none"
AtTop == Idle /\ batch = <<>> /\ gen.running

Used(t) == {x \in DOMAIN mem[t] : ~IsFree(t, x)}
Busy(k) == LET o == mem.conn[k]
           IN o.state = "CONNECTING" \/ (o.state = "CONNECTED" /\ o.sendq \o o.recvq # <<>>)

\* What a connection is polled for, its epoll mask.
Event(k) == [conn |-> k, for |-> mem.conn[k].mask]

\* The tick of the rate generator's timer
RateTick ==
  /\ AtTop /\ opt.timed /\ ~gen.done
  /\ stack' = <<<<"sess_create">>>>
  /\ UNCHANGED <<mem, verdict, envVars, stat, visit, gen>>

user_think_time_expired ==
  /\ AtTop
  /\ \E s \in DOMAIN mem.sess :
       /\ mem.sess[s].timer
       /\ mem' = SetSess(s, "timer", FALSE)
       /\ stack' = <<<<"issue_calls", s>>>>
  /\ UNCHANGED <<verdict, envVars, stat, visit, gen>>

\* The watchdog of a connection; core.c's conn_timeout holds no reference.
WatchdogExpired ==
  /\ AtTop /\ MayHappen("timeout")
  /\ \E k \in Used("conn") :
       /\ Busy(k)
       /\ stack' = <<<<"conn_timeout", k>>, <<"core_close", k>>>>
  /\ faults' = faults - 1
  /\ UNCHANGED <<mem, verdict, opt, batch, stat, visit, gen>>

\* epoll_wait returns up to opt.batch events in some order.  A batch of idle
\* connections changes nothing; here one event at least is for a busy one.
epoll_wait ==
  /\ AtTop
  /\ \E n \in 1..opt.batch : \E conns \in [1..n -> Used("conn")] :
       /\ IsInjective(conns)
       /\ \A i \in 1..n : mem.conn[conns[i]].state \in {"CONNECTING", "CONNECTED"}
       /\ \E i \in 1..n : Busy(conns[i])
       /\ batch' = [i \in 1..n |-> Event(conns[i])]
  /\ UNCHANGED <<stack, mem, verdict, opt, faults, stat, visit, gen>>

\* The loop handles the next event, with a reference of its own.
Handle(for, m, calls) ==
  /\ Idle /\ batch # <<>> /\ Head(batch).for = for
  /\ Check(~IsFree("conn", Head(batch).conn))
  /\ batch' = Tail(batch)
  /\ mem' = [m EXCEPT !.conn[Head(batch).conn].ref = @ + 1]
  /\ stack' = Append(calls, DecRef("conn", Head(batch).conn))

EventConn == Head(batch).conn
EventObj == mem.conn[EventConn]

ConnectionEstablished ==
  /\ batch # <<>> /\ EventObj.state = "CONNECTING"
  /\ Handle("out", [mem EXCEPT !.conn[EventConn].state = "CONNECTED",
                               !.conn[EventConn].mask = "in"],
            <<<<"conn_connected", EventConn>>>>)
  /\ UNCHANGED <<opt, faults, stat, visit, gen>>

\* The memory after do_send has written the first n requests of the send queue;
\* it listens for replies then, or for room to go on.
Written(n) ==
  LET q == EventObj.sendq
  IN [mem EXCEPT !.conn[EventConn].mask = IF n = Len(q) THEN "in" ELSE "out",
                 !.conn[EventConn].recvq = @ \o SubSeq(q, 1, n),
                 !.conn[EventConn].sendq = SubSeq(q, n + 1, Len(q)),
                 !.call = [c \in DOMAIN @ |->
                             IF Contains(SubSeq(q, 1, n), c)
                             THEN [@[c] EXCEPT !.cut = FALSE] ELSE @[c]]]

\* do_send writes the requests of the send queue.
do_send ==
  /\ batch # <<>> /\ EventObj.state # "CONNECTING" /\ EventObj.sendq # <<>>
  /\ Handle("out", Written(Len(EventObj.sendq)), <<>>)
  /\ UNCHANGED <<opt, faults, stat, visit, gen>>

\* The socket's buffer ends in the middle of a fragment of the n-th request, as
\* it may once per request here.
do_send_part ==
  /\ batch # <<>> /\ EventObj.state # "CONNECTING" /\ "partial" \in opt.net
  /\ \E n \in 1..Len(EventObj.sendq) :
       LET c == EventObj.sendq[n]
       IN /\ ~mem.call[c].cut
          /\ Handle("out", [Written(n - 1) EXCEPT !.call[c].cut = TRUE], <<>>)
  /\ UNCHANGED <<opt, faults, stat, visit, gen>>

\* do_recv reads n items: embedded URIs of the page on top of the receive
\* queue, or the end of its reply.
ReplyArrives ==
  /\ batch # <<>> /\ EventObj.recvq # <<>> /\ EventObj.state # "CONNECTING"
  /\ \E n \in 1..opt.read : Handle("in", mem, <<<<"do_recv", EventConn, n, "link">>>>)
  /\ UNCHANGED <<opt, faults, stat, visit, gen>>

\* writev or read fails, or the server has closed the connection.
IoFails ==
  /\ batch # <<>> /\ MayHappen("reset") /\ EventObj.state # "CONNECTING"
  /\ opt.early \/ Ci(EventObj.sess, EventObj.ci).successful
  /\ \E for \in {"in", "out"} :
       /\ (IF for = "in" THEN EventObj.recvq ELSE EventObj.sendq) # <<>>
       /\ Handle(for, mem, <<<<"conn_failed", EventConn>>, <<"core_close", EventConn>>>>)
  /\ faults' = faults - 1
  /\ UNCHANGED <<opt, stat, visit, gen>>

\* An event that finds nothing to do.
EventIgnored ==
  /\ batch # <<>>
  /\ \/ Head(batch).for = "in" /\ (EventObj.recvq = <<>> \/ EventObj.state = "CONNECTING")
     \/ Head(batch).for = "out" /\ EventObj.sendq = <<>> /\ EventObj.state # "CONNECTING"
  /\ Handle(Head(batch).for, mem, <<>>)
  /\ UNCHANGED <<opt, faults, stat, visit, gen>>

\* The rest of a read: n more items, after a link of the page on top or after a
\* whole reply.  In the end it listens for more if a reply is outstanding.
do_recv ==
  /\ Top("do_recv")
  /\ LET k == Arg(1)  n == Arg(2)  after == Arg(3)
         q == mem.conn[k].recvq  c == Head(q)
     IN IF n = 0 \/ (after = "reply" /\ (q = <<>> \/ mem.conn[k].state \notin Open))
        THEN /\ mem' = [mem EXCEPT !.conn[k].mask =
                          IF q # <<>> /\ mem.conn[k].state \in Open THEN "in" ELSE @]
             /\ Return
             /\ UNCHANGED <<verdict, faults>>
        ELSE IF q = <<>>
        THEN verdict' = "assert" /\ Return /\ UNCHANGED <<mem, faults>>
        ELSE IF mem.call[c].links > 0
        THEN /\ mem' = [mem EXCEPT !.call[c].links = @ - 1]
             /\ Run(<<<<"fetch_uri", mem.call[c].sess>>, <<"do_recv", k, n - 1, "link">>>>)
             /\ UNCHANGED <<verdict, faults>>
        ELSE /\ \E bad \in BOOLEAN :
                  /\ bad => MayHappen("status")
                  /\ Run(<<<<"recv_done", c, bad>>, <<"do_recv", k, n - 1, "reply">>>>)
                  /\ faults' = IF bad THEN faults - 1 ELSE faults
             /\ UNCHANGED <<mem, verdict>>
  /\ UNCHANGED <<opt, batch, stat, visit, gen>>

-----------------------------------------------------------------------------
\* Mutual calls of the C functions, one action each.
Calls ==
  \/ ManagerStep /\ UNCHANGED gen
  \/ sess_create \/ not_done \/ done
  \/ IssueBurst \/ IssuePage \/ CallsCreated \/ CreateInBurst \/ CreateEmbedded
  \/ fetch_uri \/ call_destroyed \/ gen_sess_destroyed \/ do_recv

Loop ==
  \/ RateTick \/ user_think_time_expired \/ WatchdogExpired \/ epoll_wait
  \/ ConnectionEstablished \/ do_send \/ do_send_part \/ ReplyArrives \/ IoFails \/ EventIgnored

\* core_loop has returned.
Finished ==
  /\ Idle /\ ~gen.running /\ batch = <<>>
  /\ UNCHANGED vars

Next == Calls \/ Loop \/ Finished

\* The thread keeps running, the server answers, and timers expire.
Fairness == WF_vars(Calls \/ Loop)

Spec == Init /\ [][Next]_vars /\ Fairness

-----------------------------------------------------------------------------
(* Properties *)

Occurrences(c, q) == Cardinality({i \in DOMAIN q : q[i] = c})

\* Everything that holds the call c: rings of sessions and queues of connections.
Holders(c) ==
  FoldLeft(LAMBDA n, q : n + Occurrences(c, q), 0,
           FlattenSeq([s \in DOMAIN mem.sess |->
                         IF IsFree("sess", s) THEN <<>>
                         ELSE [i \in 1..opt.conns |-> Ci(s, i).pending]])
           \o [k \in DOMAIN mem.conn |-> mem.conn[k].sendq \o mem.conn[k].recvq])

CallCell == [ref : Nat, sess : Nat, conn : Nat, links : Nat, cut : BOOLEAN, whole : BOOLEAN]
ConnCell == [ref : Nat, state : ConnStates, sess : Nat, ci : Nat,
             sendq : Seq(Nat), recvq : Seq(Nat), mask : {"in", "out"}]

\* The cells hold what their types allow; a free list holds cells of its type.
TypeOK ==
  /\ \A c \in DOMAIN mem.call : mem.call[c] \in CallCell
  /\ \A k \in DOMAIN mem.conn : mem.conn[k] \in ConnCell
  /\ \A s \in DOMAIN mem.sess :
       /\ mem.sess[s].ref \in Nat /\ mem.sess[s].num \in 1..NumSessions
       /\ \A i \in 1..opt.conns :
            /\ Ci(s, i).conn \in DOMAIN mem.conn \union {NULL}
            /\ Ci(s, i).sent \in 0..Len(Ci(s, i).pending)
            /\ Len(Ci(s, i).pending) <= opt.piped
  /\ \A t \in Types : Range(mem.free[t]) \subseteq DOMAIN mem[t]

\* No assertion of the program fails, nothing gives up a reference to a freed
\* object, session_issue_call always finds room and wsesslog never runs past
\* the end of a burst.
AssertsHold == verdict = "none"

\* Between two events a session or a connection has been freed, once, or it has
\* its one reference, and the connection is open.
OneReference ==
  Idle => /\ \A t \in {"sess", "conn"} :
               /\ \A x \in Used(t) : mem[t][x].ref = 1
               /\ IsInjective(mem.free[t])
          /\ \A k \in DOMAIN mem.conn : mem.conn[k].state \in Open <=> k \in Used("conn")

\* In the middle of an event a reference to a connection is given up only while one
\* is held; a connection is destroyed when it has been closed and is counted as
\* active, and freed when it is not in the free list.
ConnChecksPass ==
  /\ Top("object_dec_ref") /\ Arg(1) = "conn" =>
       mem.conn[Arg(2)].ref > 0 /\ ~IsFree("conn", Arg(2))
  /\ Top("object_destroy") /\ Arg(1) = "conn" =>
       mem.conn[Arg(2)].state = "CLOSING" /\ stat.active > 0
  /\ Top("free") /\ Arg(1) = "conn" => ~IsFree("conn", Arg(2))

\* object.c, core.c, sess.c: whatever a destruction runs into (core_close is called
\* again from handlers for the connection that it is closing), no session and no
\* connection is freed twice or while it is used, and none is left half destroyed.
HeldOnce == OneReference /\ ConnChecksPass

\* object.c: between two events the reference count of a call is the number of
\* its owners.  Nothing is leaked and nothing freed under its owner.
RefsExact ==
  Idle => /\ \A c \in DOMAIN mem.call :
               Holders(c) = IF IsFree("call", c) THEN 0 ELSE mem.call[c].ref
          /\ \A c \in Used("call") : mem.call[c].ref > 0
          /\ IsInjective(mem.free["call"])

\* session.c: a connection's pointer to its session and the session's
\* uncounted pointer to its connection (create_conn) agree whenever an event or
\* a timer may follow them; a think timer belongs to a live session; and the
\* events still to be handled are for live connections.
OwnersLive ==
  Idle => /\ \A k \in Used("conn") :
               /\ mem.conn[k].sess \in Used("sess")
               /\ Ci(mem.conn[k].sess, mem.conn[k].ci).conn = k
          /\ \A s \in DOMAIN mem.sess : mem.sess[s].timer => s \in Used("sess")
          /\ \A e \in Range(batch) : e.conn \in Used("conn")

\* session.c's ring and core.c's queues: the calls in flight on a connection are
\* the first num_sent of the ring, in its order, so that each reply is taken
\* for the call at rd, over failures and re-issues; and what is (re-)sent of a
\* call is its whole request.
QueuesFollowRing ==
  Idle => /\ \A s \in Used("sess") : \A i \in 1..opt.conns :
               LET ci == Ci(s, i)
                   k == mem.conn[ci.conn]
               IN IF ci.conn # NULL /\ ci.connected
                  THEN /\ k.recvq \o k.sendq = ci.pending
                       /\ ci.sent = Len(ci.pending)
                  ELSE ci.sent = 0
          /\ \A c \in Used("call") : mem.call[c].whole

\* A connection whose next event gets on with its calls
Listens(k) == LET o == mem.conn[k]
              IN o.state = "CONNECTED" => (IF o.mask = "in" THEN o.recvq ELSE o.sendq) # <<>>

\* Between two events a live session waits for something that will happen: its
\* think time, or a connection of its own that has its pending calls and listens
\* for what they wait for.
NotStranded ==
  Idle => \A s \in Used("sess") :
            \/ mem.sess[s].timer
            \/ \E i \in 1..opt.conns :
                 /\ Ci(s, i).pending # <<>>
                 /\ Ci(s, i).conn \in Used("conn")
                 /\ Busy(Ci(s, i).conn)
                 /\ Listens(Ci(s, i).conn)

Visited(phase) == {n \in 1..NumSessions : visit[n].phase = phase}

\* The report (sess_stat.c, basic.c) counts what happened: each session once, as
\* completed or as failed, and the connections that are open.
CountersAgree ==
  Idle => /\ stat.completed = Cardinality(Visited("completed"))
          /\ stat.failed = Cardinality(Visited("failed"))
          /\ stat.active = Cardinality(Used("conn"))

\* sess_stat.c's histogram of session lengths: each session that is over is in
\* the bin of the number of replies it got.
HistogramAgrees ==
  LET over == Visited("completed") \union Visited("failed")
  IN Idle => stat.hist = FoldSet(LAMBDA n, bag : bag (+) Count(visit[n].replies),
                                 EmptyBag, over)

\* The generators leave the loop (core_exit) when every session has completed or
\* failed, and not before.
ExitsWhenAllOver ==
  /\ ~gen.running => Visited("completed") \union Visited("failed") = 1..NumSessions
  /\ Idle /\ gen.running =>
       Visited("completed") \union Visited("failed") # 1..NumSessions

\* What the man page says of the bursts of session n (--wsess, --wsesslog).
Bursts(n) ==
  CASE opt.gen = "wsess" ->
         [b \in 1..((opt.calls + opt.burst - 1) \div opt.burst) |->
            Least(opt.burst, opt.calls - (b - 1) * opt.burst)]
    [] opt.gen = "wsesslog"  -> opt.plans[((n - 1) % Len(opt.plans)) + 1]
    [] opt.gen = "wsesspage" -> <<>>

Promise == INSTANCE Visits WITH
  Sessions <- 1..NumSessions,
  plan     <- [n \in 1..NumSessions |-> Bursts(n)],
  phase    <- [n \in 1..NumSessions |-> visit[n].phase],
  issued   <- [n \in 1..NumSessions |-> visit[n].issued],
  answered <- [n \in 1..NumSessions |-> visit[n].answered]

\* The workloads keep what the man page promises of a session: the first call of
\* a burst goes out alone once the previous burst is answered, the rest of
\* the burst after its reply, and the session completes when all is answered.
ImplementsVisits == Promise!Spec

\* The test finishes: every session completes or fails.
EventuallyFinishes == <>(gen.destroyed >= NumSessions)
=============================================================================
