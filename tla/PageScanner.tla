---------------------------- MODULE PageScanner ----------------------------
(***************************************************************************)
(* The HTML scanner of gen/wsesspage.c, which finds the embedded objects of*)
(* a page while it arrives (call_recv_data), and fetch_uri, which decides  *)
(* what to fetch for them.  A page is a sequence of units: the characters  *)
(* the scanner looks at one by one, and the words it only collects.        *)
(***************************************************************************)
EXTENDS Integers, Sequences, SequencesExt

\* Calls start in P_INITIAL; a text/html header moves them to P_HTML.  stale: a
\* word longer than three characters has been in buf, and buf[3] is not 0.
NewScanner == [state |-> "P_INITIAL", buf |-> <<>>, stale |-> FALSE, found |-> <<>>]

Attribute == <<"s", "r", "c", "=">>
Short == {"!--", "img", "a"}

\* Of an URL with a `:', only those of the server under test are fetched; a path
\* that is not absolute is taken as relative to the page.
fetch_uri(p, uri) ==
  [p EXCEPT !.found = @ \o
     CASE uri = <<>> \/ Head(uri) = "relative" -> <<<<"prefix/">> \o uri>>
       [] Head(uri) = "http://other"  -> <<>>
       [] Head(uri) = "http://server" -> <<Tail(uri)>>
       [] OTHER                       -> <<uri>>]

To(p, state) == [p EXCEPT !.state = state]
Clear(p) == [p EXCEPT !.buf = <<>>]
Keep(p, w) == [p EXCEPT !.buf = Append(@, w),
                        !.stale = @ \/ p.buf # <<>> \/ w \notin Short]

\* The word after `<', ended by a space or `='.  strcmp with "!--" reads a byte
\* more than buf_len; "data" is compared over six characters and never found.
Command(p) ==
  CASE p.buf = <<>>                   -> To(p, "P_HTML")
    [] p.buf = <<"!--">> /\ ~p.stale  -> Clear(To(p, "P_DASH_ONE"))
    [] p.buf \in {<<"frame">>, <<"iframe">>, <<"img">>} -> Clear(To(p, "P_SRC"))
    [] OTHER                          -> Clear(p)

\* P_SRC slides a window of four characters over the attributes of the tag.
Window(p, w) ==
  LET q == [p EXCEPT !.buf = Append(@, w), !.stale = @ \/ Len(p.buf) = 3]
  IN  IF q.buf = Attribute THEN Clear(To(q, "P_LQUOTE"))
      ELSE IF Len(q.buf) = 4 THEN [q EXCEPT !.buf = Tail(@)] ELSE q

ScanStates == {"P_INITIAL", "P_HTML", "P_CMD", "P_DASH_ONE", "P_DASH_TWO", "P_RANGLE",
               "P_SRC", "P_LQUOTE", "P_NAKED_URI", "P_QUOTED_URI"}
Scanners == [state : ScanStates, buf : Seq(STRING), stale : BOOLEAN, found : Seq(Seq(STRING))]

\* The switch of call_recv_data on one unit of the page
Scan[p \in Scanners, w \in STRING] ==
  CASE p.state = "P_INITIAL"  -> p
    [] p.state = "P_HTML"     -> Clear(IF w = "<" THEN To(p, "P_CMD") ELSE p)
    [] p.state = "P_CMD"      -> CASE w \in {" ", "="} -> Command(p)
                                   [] w = ">"          -> To(p, "P_HTML")
                                   [] OTHER            -> Keep(p, w)
    [] p.state = "P_DASH_ONE" -> IF w = "-" THEN To(p, "P_DASH_TWO") ELSE p
    [] p.state = "P_DASH_TWO" -> To(p, IF w = "-" THEN "P_RANGLE" ELSE "P_DASH_ONE")
    [] p.state = "P_RANGLE"   -> IF w = ">" THEN To(p, "P_HTML") ELSE p
    [] p.state = "P_SRC"      -> IF w = ">" THEN To(p, "P_HTML") ELSE Window(p, w)
    [] p.state = "P_LQUOTE"   -> CASE w = "quote" -> To(p, "P_QUOTED_URI")
                                   [] w = " "     -> p
                                   [] OTHER       -> Keep(To(p, "P_NAKED_URI"), w)
    [] <<p.state, w>> \in {<<"P_NAKED_URI", " ">>, <<"P_QUOTED_URI", "quote">>}
                              -> Clear(To(fetch_uri(p, p.buf), "P_HTML"))
    [] OTHER                  -> Keep(p, w)

\* Mutant of call_recv_data: starts afresh with each piece of the page.
ScanAfresh(p, data) ==
  FoldLeft(LAMBDA q, w : Scan[q, w],
           IF p.state = "P_INITIAL" THEN p ELSE To(p, "P_HTML"), data)

call_recv_data(p, data) == FoldLeft(LAMBDA q, w : Scan[q, w], p, data)
=============================================================================
