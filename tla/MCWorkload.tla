----------------------------- MODULE MCWorkload -----------------------------
(* Command lines and networks for TLC. *)
EXTENDS Workload

\* --wsess of two bursts of one call, sequential sessions, one connection without
\* pipelining, a network that does not fail.
Plain ==
  [gen |-> "wsess", timed |-> FALSE, conns |-> 1, piped |-> 1, retry |-> FALSE,
   http11 |-> TRUE, burst |-> 1, calls |-> 2, file |-> <<>>, plans |-> <<>>,
   reqs |-> 0, links |-> 0, net |-> {}, faults |-> 0, early |-> TRUE,
   batch |-> 1, read |-> 1]

\* Concurrent sessions, events of two connections in a batch, a failing network.
Concurrent == [Plain EXCEPT !.timed = TRUE, !.batch = 2, !.read = 2, !.faults = 1]

\* Session one: a burst of three requests and one of one; session two: one request.
Log == <<"comment", "blank", "uri", "more", "comment", "more", "uri", "blank", "blank", "uri">>
LogPlans == <<<<3, 1>>, <<1>>>>

Wsess ==
  { [Plain EXCEPT !.net = {"reset"}, !.faults = 2],
    [Concurrent EXCEPT !.net = {"timeout", "reset"}],
    [Concurrent EXCEPT !.net = {"timeout", "reset"}, !.retry = TRUE],
    \* pipelined bursts over a connection that fails after a reply
    [Plain EXCEPT !.burst = 3, !.calls = 4, !.piped = 3, !.read = 2, !.early = FALSE,
                  !.net = {"reset"}, !.faults = 2],
    \* pipelined bursts whose requests are written in parts
    [Concurrent EXCEPT !.burst = 3, !.calls = 4, !.piped = 3, !.net = {"partial"}],
    \* bursts spread over two connections
    [Plain EXCEPT !.burst = 4, !.calls = 8, !.conns = 2, !.piped = 2, !.read = 2] }

WsessLog ==
  { [Concurrent EXCEPT !.gen = "wsesslog", !.file = Log, !.plans = LogPlans, !.piped = 2,
                       !.net = {"instant", "refused", "reset", "timeout", "status"}],
    [Concurrent EXCEPT !.gen = "wsesslog", !.file = Log, !.plans = LogPlans,
                       !.http11 = FALSE, !.net = {"reset", "timeout", "status"}],
    [Plain EXCEPT !.gen = "wsesslog", !.file = Log, !.plans = LogPlans, !.piped = 2,
                  !.read = 2, !.retry = TRUE, !.net = {"reset", "status"}, !.faults = 2] }

WsessPage ==
  { [Plain EXCEPT !.gen = "wsesspage", !.reqs = 1, !.links = 2, !.piped = 2, !.read = 2,
                  !.net = {"reset", "status"}, !.faults = 2],
    [Plain EXCEPT !.gen = "wsesspage", !.reqs = 1, !.links = 3, !.conns = 2, !.piped = 2,
                  !.read = 2],
    [Concurrent EXCEPT !.gen = "wsesspage", !.reqs = 1, !.links = 1, !.piped = 2,
                       !.net = {"reset", "timeout", "status"}],
    [Concurrent EXCEPT !.gen = "wsesspage", !.reqs = 2, !.net = {"refused", "timeout", "partial"}] }

AllWorkloads == Wsess \union WsessLog \union WsessPage

\* One session after the other, and a reply that comes too late.
TimedOut == {[Plain EXCEPT !.net = {"timeout"}, !.faults = 1]}

\* A connection is reset while a request is written in parts.
CutShort == {[Plain EXCEPT !.net = {"partial", "reset"}, !.faults = 1]}
=============================================================================
