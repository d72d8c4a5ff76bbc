----------------------------- MODULE HttpReply -----------------------------
(***************************************************************************)
(* http.c, core.c's do_recv, and the collectors that follow a reply: the   *)
(* bytes of pipelined replies arrive in reads of any size and are taken    *)
(* apart into status line, headers, content, chunks and footers; cookies   *)
(* and the links of a page are picked up on the way.                       *)
(*                                                                         *)
(* A byte stream is a sequence of units: a word of a line, "cr", "lf", or a*)
(* unit of content.  A read ends between any two units.  Calls are numbered*)
(* in the order of the session's ring; core.c's recvq is done+1 .. sent.   *)
(***************************************************************************)
EXTENDS PageScanner, FiniteSets, TLC

CONSTANTS Scripts,    \* what is asked and what the server answers
          LineMax,    \* sizeof (conn->line_buf) - 1
          MaxSize     \* 2^w of a size_t

ASSUME SizesAssumption == LineMax \in Nat \ {0} /\ MaxSize \in Nat \ {0}

\* Different numbers are written differently, in a word of their own.
ASSUME DigitsAssumption ==
  /\ ToString(0) = "0"
  /\ \A n \in 0..(MaxSize - 1) :
       /\ ToString(n) \in STRING \ {"cr", "lf"}
       /\ \A m \in 0..(MaxSize - 1) : ToString(m) = ToString(n) => m = n

VARIABLES script,   \* the script of this run
          calls,    \* the calls' reply fields and private data, and history
          sent,     \* how many calls have been sent on the present connection or
                    \* answered before it
          done,     \* how many are answered
          cookie,   \* the session's cookie, <<>> or <<name>>
          conn,     \* the present connection
          buf,      \* the part of the last read that is not processed
          at,       \* where the thread is: "loop", "buffer" of do_recv, "closed"
          net,      \* the connection seen from the server
          verdict   \* "none", or "assert"

vars == <<script, calls, sent, done, cookie, conn, buf, at, net, verdict>>

Infinite == MaxSize - 1      \* ~(size_t) 0
Least(a, b) == IF a <= b THEN a ELSE b
NumCalls == Len(script.calls)

-----------------------------------------------------------------------------
(* The server: a reply is described by a record, and written as HTTP has it *)

CrLf == <<"cr", "lf">>
Line(words) == words \o CrLf

\* What follows the first n of some pieces that are sent one after another, and
\* then an end.
Following(pieces, end) ==
  LET rest[n \in 0..Len(pieces)] ==
        IF n = Len(pieces) THEN end ELSE pieces[n + 1] \o rest[n + 1]
  IN  rest

StatusLine(d) == Line(<<"HTTP/1.1", d.status>>)

HeadLines(d) ==
  <<StatusLine(d),
    IF d.html THEN Line(<<"content-type:", "text/html">>) ELSE <<>>,
    IF d.cookie # "" THEN Line(<<"set-cookie:", d.cookie>>) ELSE <<>>,
    IF d.location # "" THEN Line(<<"location:", d.location>>) ELSE <<>>,
    CASE d.framing = "length"  -> Line(<<"content-length:", ToString(Len(d.body))>>)
      [] d.framing = "chunked" -> Line(<<"transfer-encoding:", "chunked">>)
      [] OTHER                 -> <<>>>>

HeadOf(d) == Following(HeadLines(d), d.end)[0]

FooterLines(d) == [i \in 1..d.footers |-> Line(<<"footer">>)]
Footers(d) == IF d.framing = "chunked" THEN Following(FooterLines(d), CrLf)[0] ELSE <<>>

\* The pieces of the body that a chunked reply sends, of at most two units.
Chunk(d, i) == SubSeq(d.body, 2 * i - 1, Least(2 * i, Len(d.body)))
Chunks(d) == [i \in 1..((Len(d.body) + 1) \div 2) |->
                Line(<<ToString(Len(Chunk(d, i)))>>) \o Line(Chunk(d, i))]

Interim(d) == IF d.interim THEN Line(<<"HTTP/1.1", "100">>) \o CrLf ELSE <<>>

HasEntity(d) == d.method # "HEAD" /\ d.status \notin {"204", "205", "304"}

Entity(d) ==
  IF ~HasEntity(d) THEN <<>>
  ELSE IF d.framing = "chunked" THEN Following(Chunks(d), Line(<<"0">>) \o Footers(d))[0]
  ELSE d.body

Encode(d) == Interim(d) \o HeadOf(d) \o Entity(d)

Units == STRING \union {"cr", "lf", "HTTP/1.1", "content-type:", "text/html", "set-cookie:",
                        "location:", "content-length:", "transfer-encoding:", "chunked",
                        "footer", "0"}
Words == Units \ {"cr", "lf"}

\* Status class 1, with the statuses that are in use
Informational == {"100", "101", "102", "103", "104"}

\* A reply whose head has no line but its own, and whose content a size_t counts
Ordinary(d) ==
  /\ d.status \in Words \ Informational /\ ~d.interim
  /\ d.html \in BOOLEAN
  /\ (d.cookie # "" => d.cookie \in Words) /\ (d.location # "" => d.location \in Words)
  /\ d.framing \in {"length", "chunked", "eof"}
  /\ d.body \in Seq(Units) /\ Len(d.body) < Infinite
  /\ d.footers \in Nat
  /\ d.end \in {CrLf, <<"lf">>}

\* A script of such replies; a server that closes within one does so in its head.
Regular(s) ==
  /\ s.calls \in Seq(Range(s.calls)) /\ \A i \in 1..Len(s.calls) : Ordinary(s.calls[i])
  /\ s.closes \in Nat /\ s.cut \subseteq {"head"}

NewNet(base, closes) == [wire |-> <<>>, eof |-> FALSE, base |-> base, served |-> 0,
                         closes |-> closes]
Asked == script.calls[net.base + net.served + 1]
Unserved == net.base + net.served < sent

\* The server answers the next call, and closes where that ends the reply.
Serve ==
  /\ Unserved /\ ~net.eof
  /\ net' = [net EXCEPT !.wire = @ \o Encode(Asked), !.served = @ + 1,
                        !.eof = Asked.framing = "eof" /\ HasEntity(Asked)]
  /\ UNCHANGED <<script, calls, sent, done, cookie, conn, buf, at, verdict>>

CutPoints(d) ==
  LET h == Len(HeadOf(d))
  IN  (IF "head" \in script.cut THEN 1..(h - 1) ELSE {})
      \union (IF "body" \in script.cut THEN h..(Len(Encode(d)) - 1) ELSE {})

\* The server closes a connection on which it has answered a call: between two
\* replies, or within the next one.
ServerCloses ==
  /\ at # "closed" /\ net.served > 0 /\ ~net.eof /\ net.closes > 0
  /\ \E n \in {0} \union (IF Unserved THEN CutPoints(Asked) ELSE {}) :
       net' = [net EXCEPT !.eof = TRUE, !.closes = @ - 1,
                 !.wire = @ \o (IF n = 0 THEN <<>> ELSE SubSeq(Encode(Asked), 1, n))]
  /\ UNCHANGED <<script, calls, sent, done, cookie, conn, buf, at, verdict>>

-----------------------------------------------------------------------------
(* The client *)

NewConn == [state |-> "CONNECTED", line |-> <<>>, has_body |-> FALSE,
            is_chunked |-> FALSE, content_length |-> 0, successful |-> FALSE]

NewCall == [status |-> "0", header |-> 0, content |-> <<>>, footer |-> 0,
            page |-> NewScanner, cookies |-> <<>>, issued |-> 0]

Init ==
  /\ script \in Scripts
  /\ calls = [i \in 1..NumCalls |-> NewCall]
  /\ sent = 0 /\ done = 0
  /\ cookie = <<>>
  /\ conn = NewConn
  /\ buf = <<>>
  /\ at = "loop"
  /\ net = NewNet(0, script.closes)
  /\ verdict = "none"

Waiting == at = "loop" /\ verdict = "none"

\* Mutant of call_issue: does not look whether the call has a cookie already.
AddsCookie(c) == [c EXCEPT !.cookies = @ \o cookie, !.issued = @ + 1]

\* sess_cookie.c: EV_CALL_ISSUE may be signalled again for the same call.
call_issue(c) ==
  [c EXCEPT !.cookies = IF @ = <<>> THEN cookie ELSE @, !.issued = @ + 1]

\* session.c's send_calls and core.c's core_send and do_send: the next pending
\* call goes out, at once when calls are pipelined.
Send ==
  /\ Waiting
  /\ sent < NumCalls /\ (script.piped \/ sent = done)
  /\ sent' = sent + 1
  /\ calls' = [calls EXCEPT ![sent'] = call_issue(@)]
  /\ conn' = [conn EXCEPT !.state = IF @ = "CONNECTED" THEN "STATUS" ELSE @]
  /\ UNCHANGED <<script, done, cookie, buf, at, net, verdict>>

\* do_recv's read, when the connection is watched for input
Read ==
  /\ Waiting /\ done < sent
  /\ \E n \in 1..Len(net.wire) :
       /\ buf' = SubSeq(net.wire, 1, n)
       /\ net' = [net EXCEPT !.wire = SubSeq(@, n + 1, Len(@))]
  /\ at' = "buffer"
  /\ UNCHANGED <<script, calls, sent, done, cookie, conn, verdict>>

\* recv_done and its handlers: the test is over, and the connection is closed
\* with it, when the last call is answered.
RecvDone(state, then) ==
  /\ done' = done + 1
  /\ conn' = [conn EXCEPT !.state = state, !.successful = TRUE]
  /\ at' = IF done' = NumCalls THEN "closed" ELSE then

\* End of file: it ends a reply whose content is being read and fails the
\* connection otherwise, upon which session.c opens another one and sends the
\* calls that are not answered again.
ReadEof ==
  /\ Waiting /\ done < sent
  /\ net.wire = <<>> /\ net.eof
  /\ IF conn.state = "DATA"
     THEN RecvDone("DONE", "loop") /\ UNCHANGED <<sent, net>>
     ELSE /\ at' = IF conn.successful THEN "loop" ELSE "closed"
          /\ conn' = NewConn
          /\ net' = NewNet(done, net.closes)
          /\ sent' = done
          /\ UNCHANGED done
  /\ UNCHANGED <<script, calls, cookie, buf, verdict>>

-----------------------------------------------------------------------------
(* Lines *)

\* Mutant of get_line: a line that is not complete is dropped.
ForgetsLine(b) ==
  LET n == IF Contains(b, "lf") THEN SelectInSeq(b, LAMBDA u : u = "lf") ELSE Len(b)
      l == SubSeq(b, 1, n)
  IN [ok |-> Last(l) = "lf", line |-> SelectSeq(l, LAMBDA u : u \notin {"cr", "lf"}),
      used |-> n, rest |-> SubSeq(b, n + 1, Len(b))]

\* A line is complete at its end, and when conn->line_buf is full; what does not
\* fit is dropped, as far as it is in the buffer.
get_line(b) ==
  LET n    == IF Contains(b, "lf") THEN SelectInSeq(b, LAMBDA u : u = "lf") ELSE Len(b)
      l    == conn.line \o SubSeq(b, 1, Least(n, LineMax - Len(conn.line)))
      body == IF Last(l) # "lf" THEN l
              ELSE IF Len(l) > 1 /\ l[Len(l) - 1] = "cr" THEN SubSeq(l, 1, Len(l) - 2)
              ELSE Front(l)
      ok   == Last(l) = "lf" \/ Len(l) = LineMax
  IN [ok |-> ok, line |-> IF ok THEN body ELSE l, used |-> n,
      rest |-> SubSeq(b, n + 1, Len(b))]

\* strtoul
Numbers == {ToString(n) : n \in 0..(MaxSize - 1)}
Value == [w \in Numbers |-> CHOOSE n \in 0..(MaxSize - 1) : ToString(n) = w]

\* The number in a header line; strtoul makes 0 of anything else.
Argument(line) == IF Len(line) > 1 /\ line[2] \in Numbers THEN Value[line[2]] ELSE 0

-----------------------------------------------------------------------------
(* The functions of http.c, one action each, on the reply of call c *)

c == done + 1

Parsing(states) ==
  at = "buffer" /\ verdict = "none" /\ buf # <<>> /\ conn.state \in states

\* The loops of http_process_reply_bytes and do_recv go on while there is input,
\* and recv_done follows a complete reply at once.
Consume(rest) ==
  /\ buf' = rest
  /\ at' = IF rest = <<>> /\ conn'.state # "DONE" THEN "loop" ELSE "buffer"
  /\ UNCHANGED <<script, sent, done, net, verdict>>

NoBody == Informational \union {"204", "205", "304"}

\* status is not assigned when the line does not parse, and its class is then
\* that of any number.
StatusOf(line) == IF Len(line) > 1 /\ line[1] = "HTTP/1.1" THEN {line[2]}
                  ELSE {"100", "200", "204"}
Reported(line) == IF Len(line) > 1 /\ line[1] = "HTTP/1.1" THEN line[2] ELSE "599"

\* Mutant of BodyExpected: forgets that HEAD has no entity.
BodyUnlessStatus(method, status) == status \notin NoBody

BodyExpected(method, status) == method # "HEAD" /\ status \notin NoBody

Method == script.calls[c].method

parse_status_line ==
  /\ Parsing({"STATUS"})
  /\ \E g \in {get_line(buf)},
        fresh \in {[conn EXCEPT !.is_chunked = FALSE, !.content_length = Infinite]} :
        /\ IF g.ok
           THEN \E status \in StatusOf(g.line) :
                  /\ conn' = [fresh EXCEPT
                       !.has_body = BodyExpected(Method, status),
                       !.state = IF status = "100" /\ Method # "HEAD"
                                 THEN "CONTINUE" ELSE "HEADER",
                       !.line = <<>>]
                  /\ calls' = [calls EXCEPT ![c].status = Reported(g.line),
                                            ![c].header = @ + g.used]
           ELSE conn' = [fresh EXCEPT !.line = g.line] /\ UNCHANGED calls
        /\ Consume(g.rest)
  /\ UNCHANGED cookie

EndOfHeaders(s) ==
  IF s.has_body
  THEN IF s.is_chunked THEN [s EXCEPT !.content_length = 0, !.state = "CHUNKED"]
       ELSE [s EXCEPT !.state = "DATA"]
  ELSE [s EXCEPT !.state = IF @ = "CONTINUE" THEN "HEADER" ELSE "DONE"]

\* parse_headers' own use of a header line ...
Header(s, line) ==
  CASE line[1] = "content-length:" ->
         [s EXCEPT !.content_length = Argument(line),
                   !.has_body = @ /\ Argument(line) # 0]
    [] line = <<"transfer-encoding:", "chunked">> -> [s EXCEPT !.is_chunked = TRUE]
    [] OTHER -> s

\* ... and that of the EV_CALL_RECV_HDR handlers of wsesspage.c ...
PageHeader(p, line) ==
  CASE line = <<"content-type:", "text/html">>    -> To(p, "P_HTML")
    [] line[1] = "location:" /\ Len(line) > 1     -> fetch_uri(p, <<line[2]>>)
    [] OTHER                                      -> p

\* ... and sess_cookie.c: one cookie per session, the last one counts.
CookieHeader(line) ==
  IF line[1] = "set-cookie:" /\ Len(line) > 1 THEN <<line[2]>> ELSE cookie

parse_headers ==
  /\ Parsing({"HEADER", "CONTINUE"})
  /\ \E g \in {get_line(buf)} : LET counted == [calls EXCEPT ![c].header = @ + g.used] IN
        /\ IF ~g.ok
           THEN /\ conn' = [conn EXCEPT !.line = g.line]
                /\ calls' = counted
                /\ UNCHANGED cookie
           ELSE IF g.line = <<>>
           THEN /\ conn' = EndOfHeaders([conn EXCEPT !.line = <<>>])
                /\ calls' = counted
                /\ UNCHANGED cookie
           ELSE /\ conn' = Header([conn EXCEPT !.line = <<>>], g.line)
                /\ calls' = [counted EXCEPT ![c].page = PageHeader(@, g.line)]
                /\ cookie' = CookieHeader(g.line)
        /\ Consume(g.rest)

parse_footers ==
  /\ Parsing({"FOOTER"})
  /\ \E g \in {get_line(buf)} :
        /\ conn' = [conn EXCEPT !.line = IF g.ok THEN <<>> ELSE g.line,
                                !.state = IF g.ok /\ g.line = <<>> THEN "DONE" ELSE @]
        /\ calls' = [calls EXCEPT ![c].footer = @ + g.used]
        /\ Consume(g.rest)
  /\ UNCHANGED cookie

\* content_bytes is the length of what EV_CALL_RECV_DATA has handed over; the
\* difference is taken in size_t.
Needed == (conn.content_length - Len(calls[c].content)) % MaxSize
Data == SubSeq(buf, 1, Least(Len(buf), Needed))

parse_data ==
  /\ calls' = [calls EXCEPT ![c].content = @ \o Data,
                            ![c].page = call_recv_data(@, Data)]
  /\ Consume(SubSeq(buf, Len(Data) + 1, Len(buf)))
  /\ UNCHANGED cookie

reply_data ==
  /\ Parsing({"DATA"})
  /\ conn' = [conn EXCEPT !.state = IF Len(Data) = Needed THEN "DONE" ELSE @]
  /\ parse_data

\* xfer_chunked's loop: the rest of a chunk, or the line that begins the next.
\* The empty line after a chunk and one that is no number are skipped.
xfer_chunked ==
  /\ Parsing({"CHUNKED"})
  /\ IF Len(calls[c].content) < conn.content_length
     THEN UNCHANGED conn /\ parse_data
     ELSE \E g \in {get_line(buf)} :
          LET number == g.line # <<>> /\ g.line[1] \in Numbers
              length == Value[g.line[1]]
          IN /\ conn' = IF ~g.ok THEN [conn EXCEPT !.line = g.line]
                       ELSE IF ~number THEN [conn EXCEPT !.line = <<>>]
                       ELSE [conn EXCEPT !.line = <<>>,
                               !.content_length = (@ + length) % MaxSize,
                               !.state = IF length = 0 THEN "FOOTER" ELSE @]
             /\ Consume(g.rest)
             /\ UNCHANGED <<calls, cookie>>

\* Mutant of recv_done: handles one reply per read.
DropsTheRest ==
  /\ at = "buffer" /\ verdict = "none" /\ conn.state = "DONE"
  /\ RecvDone("STATUS", "loop")
  /\ UNCHANGED <<script, calls, sent, cookie, buf, net, verdict>>

\* do_recv: the reply is complete.  The bytes that follow belong to the next call
\* that has been sent: assert (c).
recv_done ==
  /\ at = "buffer" /\ verdict = "none" /\ conn.state = "DONE"
  /\ RecvDone("STATUS", IF buf = <<>> THEN "loop" ELSE "buffer")
  /\ verdict' = IF buf = <<>> \/ done' < sent \/ done' = NumCalls THEN verdict ELSE "assert"
  /\ UNCHANGED <<script, calls, sent, cookie, buf, net>>

http_process_reply_bytes ==
  parse_status_line \/ parse_headers \/ parse_footers \/ reply_data \/ xfer_chunked

-----------------------------------------------------------------------------
Client == Send \/ Read \/ ReadEof \/ http_process_reply_bytes \/ recv_done

\* The loop of core.c polls in vain, or the test is over.
Idle == at \in {"loop", "closed"} /\ UNCHANGED vars

Next == Client \/ Serve \/ ServerCloses \/ Idle

\* A server that has been asked answers, and the thread handles what is there.
Spec == Init /\ [][Next]_vars /\ WF_vars(Client) /\ WF_vars(Serve)

-----------------------------------------------------------------------------
(* Properties *)

States == {"CONNECTED", "STATUS", "CONTINUE", "HEADER", "DATA", "CHUNKED", "FOOTER", "DONE"}

\* The type invariant of do_recv's position, the connection and the calls.
TypeOK ==
  /\ script \in Scripts
  /\ done \in 0..NumCalls /\ sent \in done..NumCalls
  /\ at \in {"loop", "buffer", "closed"} /\ verdict \in {"none", "assert"}
  /\ conn.state \in States /\ conn.content_length \in 0..Infinite
  /\ conn.has_body \in BOOLEAN /\ conn.is_chunked \in BOOLEAN
  /\ Len(conn.line) < LineMax
  /\ at = "loop" => buf = <<>>
  /\ \A i \in DOMAIN calls : i > sent => calls[i].content = <<>>

HeaderUnits(d) == Len(HeadOf(d))

\* http.c and do_recv: however the bytes of pipelined replies are cut into reads,
\* and over connections that are replaced, each call gets the status, the
\* content and the footers of its own reply, and no reply takes bytes of the
\* next.  Of its header bytes none is missing in the report but the first ones of a
\* status line that arrived in pieces.
ReplyExact ==
  /\ verdict = "none"
  /\ \A i \in 1..done :
       LET d == script.calls[i]  call == calls[i]
       IN /\ call.status = d.status
          /\ call.content = IF HasEntity(d) THEN d.body ELSE <<>>
          /\ call.footer = IF HasEntity(d) THEN Len(Footers(d)) ELSE 0
          /\ call.header > HeaderUnits(d) - Len(StatusLine(d))
          /\ call.issued = 1 => call.header <= HeaderUnits(d)

\* wsesspage.c: the links found in a page, and the place a redirection names, are
\* those that are there, once each and in their order, wherever the reads cut
\* the page.
LinksExact ==
  \A i \in 1..done :
    LET d == script.calls[i]
    IN IF calls[i].issued = 1 THEN calls[i].page.found = d.links
       ELSE ToSet(calls[i].page.found) = ToSet(d.links)

\* The cookie of a session after the first n replies: the last one set
CookieAfter(n) ==
  LET setters == {i \in 1..n : script.calls[i].cookie # ""}
  IN  IF setters = {} THEN <<>> ELSE <<script.calls[Max(setters)].cookie>>

\* sess_cookie.c: a call carries at most one cookie, however often it is issued;
\* without pipelining it is the last one set by the replies before, or, for a call
\* that had none, the one of its own reply when that was cut off.
CookieSent ==
  \A i \in 1..sent :
    /\ Len(calls[i].cookies) <= 1
    /\ ~script.piped =>
         \/ calls[i].cookies = CookieAfter(i - 1)
         \/ CookieAfter(i - 1) = <<>> /\ calls[i].issued > 1
            /\ calls[i].cookies = <<script.calls[i].cookie>>

\* Every call is answered in the end.
EventuallyAnswered == <>(done = NumCalls)
=============================================================================
