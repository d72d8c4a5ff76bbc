---------------------------- MODULE MCHttpReply ----------------------------
(* What is asked, what the server answers, and where it may close. *)
EXTENDS HttpReply

Plain == [method |-> "GET", status |-> "200", interim |-> FALSE, html |-> FALSE,
          cookie |-> "", location |-> "", framing |-> "length", body |-> <<"a", "b">>,
          footers |-> 0, end |-> CrLf, links |-> <<>>]
Empty    == [Plain EXCEPT !.body = <<>>]
BareLf   == [Plain EXCEPT !.status = "404", !.end = <<"lf">>]
NoEntity == [Plain EXCEPT !.status = "304"]
OnlyHead == [Plain EXCEPT !.method = "HEAD"]
Chunked  == [Plain EXCEPT !.framing = "chunked", !.body = <<"a", "b", "c">>, !.footers = 1]
Endless  == [Plain EXCEPT !.framing = "eof"]
Cookie   == [Empty EXCEPT !.cookie = "k1"]
Cookie2  == [Plain EXCEPT !.cookie = "k2"]

\* <!-- <img src=/no> --> <img alt src=/one > <iframe src="relative"> <a src=/no>
Page == <<"<", "!--", " ", "<", "img", " ", "s", "r", "c", "=", "/no", ">", "-", "-", ">",
          "<", "img", " ", "alt", " ", "s", "r", "c", "=", "/one", " ", ">",
          "<", "iframe", " ", "s", "r", "c", "=", "quote", "relative", "quote", ">",
          "<", "a", " ", "s", "r", "c", "=", "/no", " ", ">">>
Html == [Plain EXCEPT !.html = TRUE, !.body = Page,
                      !.links = <<<<"/one">>, <<"prefix/", "relative">>>>]
\* <frame src="http://other/x"> <img src=http://server/y >
Foreign == [Plain EXCEPT !.html = TRUE, !.framing = "chunked", !.links = <<<<"/y">>>>,
    !.body = <<"<", "frame", " ", "s", "r", "c", "=", "quote", "http://other", "/x", "quote", ">",
               "<", "img", " ", "s", "r", "c", "=", "http://server", "/y", " ", ">">>]
Moved == [Empty EXCEPT !.status = "302", !.location = "/two", !.links = <<<<"/two">>>>]

Script(ds, piped, closes, cut) ==
  [calls |-> ds, piped |-> piped, closes |-> closes, cut |-> cut]

\* <img src=/one >
Small == [Html EXCEPT !.body = <<"<", "img", " ", "s", "r", "c", "=", "/one", " ", ">">>,
                      !.links = <<<<"/one">>>>]

Answers == {Plain, Empty, BareLf, NoEntity, OnlyHead, Chunked, Endless}

AllScripts ==
  {Script(<<d, e>>, TRUE, 0, {}) : d \in Answers, e \in Answers}
    \union {Script(<<d, e>>, TRUE, 1, {"head"}) : d \in {Empty, Endless}, e \in {Chunked, Small}}
    \union {Script(<<Empty, OnlyHead, NoEntity>>, TRUE, 1, {}),
            Script(<<Cookie, Cookie2, Empty>>, FALSE, 1, {}),
            Script(<<Cookie, Cookie2>>, TRUE, 1, {"head"}),
            Script(<<Empty, Cookie, Empty>>, FALSE, 1, {"head"}),
            Script(<<Html, Empty>>, FALSE, 0, {}),
            Script(<<Foreign, Empty>>, FALSE, 0, {}),
            Script(<<Moved, Small>>, TRUE, 1, {})}

\* An interim reply before the final one, and a reply after it
InterimScripts == {Script(<<[Plain EXCEPT !.interim = TRUE], Plain>>, FALSE, 0, {})}

\* The hypothesis of the theorems in HttpReplyProofs holds of these scripts.
ASSUME \A s \in AllScripts : Regular(s)
=============================================================================
