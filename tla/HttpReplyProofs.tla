-------------------------- MODULE HttpReplyProofs --------------------------
(***************************************************************************)
(* Proofs about the reply parser: every call gets the reply that the server*)
(* made for it, wherever the reads cut the stream, and carries the cookie  *)
(* that the replies before it have set.                                    *)
(*                                                                         *)
(* The parser is in step with the server: the line under way, the buffer,  *)
(* the wire and what the server has not sent make up what is left of the   *)
(* present reply and the later ones.  That equation says what the next line*)
(* or the next part of the content is, however little of it has come.      *)
(***************************************************************************)
EXTENDS HttpReply, SequenceTheorems, WellFoundedInduction, TLAPS

-----------------------------------------------------------------------------
(* The stream *)

\* Concatenation, the first n units of a sequence, and the others
Cat(s, t) == s \o t
First(s, n) == SubSeq(s, 1, n)
Rest(s, n) == SubSeq(s, n + 1, Len(s))

\* What the server sends after the first i replies, if nothing is cut off
Stream == Following([i \in 1..NumCalls |-> Encode(script.calls[i])], <<>>)

\* The parts of a reply: the head after its first k lines, the rest of the
\* entity after m chunks, the footers after the first j
HeadFrom(d) == Following(HeadLines(d), d.end)
ChunksFrom(d) == Following(Chunks(d), Line(<<"0">>) \o Footers(d))
FootersFrom(d) == Following(FooterLines(d), CrLf)

\* A reply that the end of the connection ends
UntilClosed(d) == d.framing = "eof" /\ HasEntity(d)

Served == net.base + net.served

\* m is what the server has not sent: all from the next reply on, but for a part of
\* the head of that one if it closed within it.
Unsent(m) ==
  \/ /\ m = Stream[Served]
     /\ \A i \in (net.base + 1)..Served :
          UntilClosed(script.calls[i]) => i = Served /\ net.eof
  \/ /\ net.eof /\ Served < sent
     /\ \A i \in (net.base + 1)..Served : ~UntilClosed(script.calls[i])
     /\ \E n \in 1..(HeaderUnits(script.calls[Served + 1]) - 1) :
          m = Cat(Rest(Encode(script.calls[Served + 1]), n), Stream[Served + 1])

-----------------------------------------------------------------------------
(* The parser's place in the stream *)

\* No reply has begun.
Between == conn.state \in {"CONNECTED", "STATUS"} \/ (conn.state = "DONE" /\ at = "loop")

Conns == [state : States, line : Seq(Units), has_body : BOOLEAN, is_chunked : BOOLEAN,
          content_length : 0..Infinite, successful : BOOLEAN]
Nets == [wire : Seq(Units), eof : BOOLEAN, base : Nat, served : Nat, closes : Nat]
Fields == {"status", "header", "content", "footer", "page", "cookies", "issued"}

Typed ==
  /\ script \in Scripts
  /\ conn \in Conns /\ net \in Nets /\ buf \in Seq(Units)
  /\ done \in 0..NumCalls /\ sent \in done..NumCalls
  /\ at \in {"loop", "buffer", "closed"} /\ verdict = "none"
  /\ DOMAIN calls = 1..NumCalls /\ \A i \in 1..NumCalls : DOMAIN calls[i] = Fields

Placed ==
  /\ at = "loop" => buf = <<>>
  /\ Len(conn.line) < LineMax /\ \A i \in 1..Len(conn.line) : conn.line[i] # "lf"
  /\ net.base <= done /\ Served <= sent
  /\ at = "buffer" \/ ~Between => done < sent \/ (at = "closed" /\ done = NumCalls)
  /\ conn.state = "DONE" /\ at = "loop" => net.eof /\ net.wire = <<>>

\* The calls that are not answered
Pending ==
  \A i \in c..NumCalls :
    /\ calls[i].header \in Nat /\ calls[i].issued \in Nat
    /\ i <= sent => calls[i].issued >= 1
    /\ (i > c \/ Between \/ conn.state = "HEADER") =>
         calls[i].content = <<>> /\ calls[i].footer = 0
    /\ (i > c \/ Between) /\ (calls[i].issued = 0 \/ (calls[i].issued = 1 /\ i <= sent)) =>
         calls[i].header = 0

Answered(i) ==
  LET d == script.calls[i]  call == calls[i]
  IN /\ call.status = d.status
     /\ call.content = IF HasEntity(d) THEN d.body ELSE <<>>
     /\ call.footer = IF HasEntity(d) THEN Len(Footers(d)) ELSE 0
     /\ call.header > HeaderUnits(d) - Len(StatusLine(d))
     /\ call.issued = 1 => call.header <= HeaderUnits(d)

\* All of the head is counted but `left' units, and some of the status line.
Counted(d, left) ==
  /\ calls[c].status = d.status
  /\ calls[c].header > Len(HeadFrom(d)[1]) - left
  /\ calls[c].issued = 1 => calls[c].header <= Len(HeadFrom(d)[0]) - left

\* What the first k lines of the head have told
Told(d, k) ==
  /\ conn.has_body <=> (HasEntity(d) /\ ~(k = 5 /\ d.framing = "length" /\ d.body = <<>>))
  /\ conn.is_chunked <=> (k = 5 /\ d.framing = "chunked")
  /\ conn.content_length = IF k = 5 /\ d.framing = "length" THEN Len(d.body) ELSE Infinite
  /\ k >= 3 /\ d.cookie # "" => cookie = <<d.cookie>>

InHead(d, t) ==
  \E k \in 1..5 :
    /\ t = Cat(HeadFrom(d)[k], Entity(d))
    /\ Counted(d, Len(HeadFrom(d)[k]) - Len(conn.line))
    /\ Told(d, k)

\* The head has been read.
PastHead(d) == HasEntity(d) /\ Counted(d, 0) /\ (d.cookie # "" => cookie = <<d.cookie>>)

\* How far the content goes with m chunks
Ends(d, m) == Least(2 * m, Len(d.body))

\* The content that has been read is the beginning of the body.
Content == calls[c].content
Begun(d) == Len(Content) \in 0..Len(d.body) /\ Content = First(d.body, Len(Content))

InData(d, t) ==
  /\ \/ d.framing = "length" /\ conn.content_length = Len(d.body)
     \/ d.framing = "eof" /\ conn.content_length = Infinite
  /\ Begun(d) /\ Len(Content) < conn.content_length /\ conn.line = <<>>
  /\ t = Rest(d.body, Len(Content))

InChunks(d, t) ==
  /\ d.framing = "chunked" /\ Begun(d)
  /\ \E m \in 0..Len(Chunks(d)) :
       /\ conn.content_length = Ends(d, m)
       /\ \/ /\ Len(Content) <= conn.content_length /\ conn.line = <<>>
             /\ t = Cat(Rest(First(d.body, conn.content_length), Len(Content)),
                        Cat(CrLf, ChunksFrom(d)[m]))
          \/ /\ Len(Content) = conn.content_length
             /\ t \in {Cat(CrLf, ChunksFrom(d)[m]), ChunksFrom(d)[m]}

InFooters(d, t) ==
  /\ d.framing = "chunked" /\ Content = d.body
  /\ \E j \in 0..d.footers :
       /\ t = FootersFrom(d)[j]
       /\ calls[c].footer = Len(Footers(d)) - Len(t) + Len(conn.line)

\* t is what is left of the present reply from the beginning of the line under way.
Left(d, t) ==
  \/ Between /\ t = Encode(d)
  \/ conn.state = "HEADER" /\ InHead(d, t)
  \/ /\ Len(t) <= Len(Entity(d)) /\ PastHead(d)
     /\ \/ conn.state = "DATA" /\ InData(d, t) /\ calls[c].footer = 0
        \/ conn.state = "CHUNKED" /\ InChunks(d, t) /\ calls[c].footer = 0
        \/ conn.state = "FOOTER" /\ InFooters(d, t)
  \/ /\ conn.state = "DONE" /\ at = "buffer" /\ conn.line = <<>> /\ t = <<>>
     /\ Answered(c) /\ (d.cookie # "" => cookie = <<d.cookie>>)

\* What has come, and what will, is what is left of this reply and the later ones.
InStep ==
  at # "closed" /\ done < NumCalls =>
    \E m, t \in Seq(Units) :
      /\ Unsent(m) /\ Left(script.calls[c], t)
      /\ Cat(conn.line, Cat(buf, Cat(net.wire, m))) = Cat(t, Stream[c])

ParserInv ==
  /\ Typed /\ Placed
  /\ Pending /\ InStep
  /\ \A i \in 1..done : Answered(i)

-----------------------------------------------------------------------------
(* Sequences *)

\* A set of numbers that has a member has a least one.
LEMMA LeastNumber ==
  ASSUME NEW S, S \subseteq Nat, S # {}
  PROVE  \E n \in S : \A m \in S : n <= m
<1> DEFINE R == {xy \in Nat \X Nat : xy[1] < xy[2]}
<1>1. OpToRel(<, Nat) = R
  BY DEF OpToRel
<1>2. IsWellFoundedOn(R, Nat)
  BY <1>1, NatLessThanWellFounded
<1>3. \A m, n \in Nat : m < n => <<m, n>> \in R
  OBVIOUS
<1> HIDE DEF R
<1>4. PICK n \in S : \A m \in S : ~(<<m, n>> \in R)
  BY <1>2, WFMin
<1>5. n \in Nat /\ \A m \in S : m \in Nat /\ ~(m < n)
  BY <1>3, <1>4, S \subseteq Nat
<1> QED BY <1>5, SMT

\* What follows the pieces of a stream
LEMMA FollowingStep ==
  ASSUME NEW U, NEW p \in Seq(Seq(U)), NEW end \in Seq(U)
  PROVE  /\ Following(p, end)[Len(p)] = end
         /\ \A n \in 0..(Len(p) - 1) : Following(p, end)[n] = p[n + 1] \o Following(p, end)[n + 1]
         /\ \A n \in 0..Len(p) : Following(p, end)[n] \in Seq(U)
<1> DEFINE len == Len(p)
<1> DEFINE F == Following(p, end)
<1> DEFINE Step(f, n) == IF n = len THEN end ELSE p[n + 1] \o f[n + 1]
<1> DEFINE Good(k) == \E f : f = [n \in (len - k)..len |-> Step(f, n)]
<1>1. len \in Nat
  OBVIOUS
<1>2. F = CHOOSE f : f = [n \in 0..len |-> Step(f, n)]
  BY DEF Following
<1> HIDE DEF len, F
<1>3. Good(0)
  <2> DEFINE f == [n \in len..len |-> end]
  <2>1. \A n \in len..len : f[n] = Step(f, n)
    BY <1>1
  <2>2. f = [n \in (len - 0)..len |-> Step(f, n)]
    BY <1>1, <2>1
  <2> QED BY <2>2
<1>4. ASSUME NEW k \in Nat, k < len, Good(k) PROVE Good(k + 1)
  <2>1. PICK g : g = [n \in (len - k)..len |-> Step(g, n)]
    BY <1>4
  <2> DEFINE m == len - (k + 1)
  <2> DEFINE f == [n \in m..len |-> IF n = m THEN p[m + 1] \o g[m + 1] ELSE g[n]]
  <2>2. \A n \in m..len : f[n] = Step(f, n)
    <3> TAKE n \in m..len
    <3>1. CASE n = m
      <4>1. n # len /\ n + 1 \in m..len /\ n + 1 # m
        BY <1>1, <1>4, <3>1
      <4>2. f[n] = p[m + 1] \o g[m + 1] /\ f[n + 1] = g[n + 1]
        BY <3>1, <4>1
      <4> QED BY <3>1, <4>1, <4>2
    <3>2. CASE n # m
      <4>1. n \in (len - k)..len /\ (n # len => n + 1 \in (len - k)..len
                                          /\ n + 1 # m /\ n + 1 \in m..len)
        BY <1>1, <1>4, <3>2
      <4>2. f[n] = g[n] /\ (n # len => f[n + 1] = g[n + 1])
        BY <4>1, <3>2
      <4>3. g[n] = Step(g, n)
        BY <2>1, <4>1
      <4> QED BY <4>2, <4>3
    <3> QED BY <3>1, <3>2
  <2>3. f = [n \in (len - (k + 1))..len |-> Step(f, n)]
    <3> HIDE DEF Step
    <3> QED BY <2>2
  <2> QED BY <2>3
<1>5. Good(len)
  <2> DEFINE Bad == {k \in 0..len : ~Good(k)}
  <2> HIDE DEF Good
  <2> SUFFICES ASSUME Bad # {} PROVE FALSE
    BY <1>1
  <2>1. Bad \subseteq Nat
    OBVIOUS
  <2>2. PICK k \in Bad : \A j \in Bad : k <= j
    BY <2>1, LeastNumber
  <2>3. k # 0 /\ k - 1 \in 0..len /\ k - 1 \notin Bad /\ k - 1 \in Nat /\ k - 1 < len
    BY <1>1, <1>3, <2>2
  <2>4. Good((k - 1) + 1)
    BY <1>4, <2>3
  <2>5. (k - 1) + 1 = k
    BY <2>2
  <2> QED BY <2>2, <2>4, <2>5
<1>6. F = [n \in 0..len |-> Step(F, n)]
  <2>1. len - len = 0
    BY <1>1
  <2>2. \E f : f = [n \in 0..len |-> Step(f, n)]
    BY <1>5, <2>1
  <2> QED BY <1>2, <2>2
<1>7. \A n \in 0..len : F[n] = Step(F, n)
  <2> HIDE DEF Step
  <2> QED BY <1>6
<1>8. \A n \in 0..len : F[n] \in Seq(U)
  <2> DEFINE Bad == {k \in 0..len : F[len - k] \notin Seq(U)}
  <2>1. Bad = {}
    <3> SUFFICES ASSUME Bad # {} PROVE FALSE
      OBVIOUS
    <3>1. Bad \subseteq Nat
      OBVIOUS
    <3>2. PICK k \in Bad : \A j \in Bad : k <= j
      BY <3>1, LeastNumber
    <3>3. k \in 0..len /\ len - k \in 0..len /\ F[len - k] \notin Seq(U)
      BY <1>1, <3>2
    <3>4. F[len - k] = Step(F, len - k)
      BY <1>7, <3>3
    <3>5. len - k # len
      BY <3>3, <3>4
    <3>6. /\ k - 1 \in 0..len /\ (len - k) + 1 \in 1..len
          /\ len - (k - 1) = (len - k) + 1 /\ ~(k <= k - 1)
      BY <1>1, <3>3, <3>5
    <3>8. k - 1 \notin Bad
      BY <3>2, <3>6
    <3>7. F[(len - k) + 1] \in Seq(U) /\ p[(len - k) + 1] \in Seq(U)
      BY <3>6, <3>8 DEF len
    <3> QED BY <3>3, <3>4, <3>5, <3>7
  <2> TAKE n \in 0..len
  <2>2. len - n \in 0..len /\ len - (len - n) = n
    BY <1>1
  <2> QED BY <2>1, <2>2
<1>9. F[len] = end /\ \A n \in 0..(len - 1) : F[n] = p[n + 1] \o F[n + 1]
  <2>1. len \in 0..len /\ \A n \in 0..(len - 1) : n \in 0..len /\ n # len
    BY <1>1
  <2> QED BY <1>7, <2>1
<1> QED BY <1>8, <1>9 DEF F, len

\* The laws of Cat, First and Rest
LEMMA CatType ==
  \A s, t \in Seq(Units) : Cat(s, t) \in Seq(Units) /\ Len(Cat(s, t)) = Len(s) + Len(t)
BY DEF Cat

\* The empty sequence is neutral.
LEMMA CatEmpty == \A s \in Seq(Units) : Cat(s, <<>>) = s /\ Cat(<<>>, s) = s
BY DEF Cat

\* The units of a concatenation are those of its parts, in order.
LEMMA CatAt ==
  \A s, t \in Seq(Units) :
    /\ \A i \in 1..Len(s) : Cat(s, t)[i] = s[i]
    /\ \A i \in 1..Len(t) : Cat(s, t)[Len(s) + i] = t[i]
BY DEF Cat

\* Concatenation is associative.
LEMMA CatAssoc ==
  \A s, t, u \in Seq(Units) : Cat(Cat(s, t), u) = Cat(s, Cat(t, u))
BY ConcatAssociative DEF Cat

\* Two equal concatenations whose first parts are as long have the same parts.
LEMMA CatCut ==
  \A s, t, u, v \in Seq(Units) :
    Cat(s, t) = Cat(u, v) /\ Len(s) = Len(u) => s = u /\ t = v
<1> SUFFICES ASSUME NEW s \in Seq(Units), NEW t \in Seq(Units), NEW u \in Seq(Units),
                    NEW v \in Seq(Units), Cat(s, t) = Cat(u, v), Len(s) = Len(u)
             PROVE  s = u /\ t = v
  OBVIOUS
<1>1. \A i \in 1..Len(s) : s[i] = Cat(s, t)[i]
  BY CatAt
<1>2. \A i \in 1..Len(u) : u[i] = Cat(u, v)[i]
  BY CatAt
<1>3. s = u
  BY <1>1, <1>2, SeqEqual
<1>4. \A f, g, h \in Seq(Units) : f \o g = f \o h => g = h
  BY ConcatSimplifications
<1> QED BY <1>3, <1>4 DEF Cat

\* A sequence is its first n units and the others.
LEMMA Halves ==
  \A s \in Seq(Units) : \A n \in 0..Len(s) :
    /\ First(s, n) \in Seq(Units) /\ Len(First(s, n)) = n
    /\ Rest(s, n) \in Seq(Units) /\ Len(Rest(s, n)) = Len(s) - n
    /\ s = Cat(First(s, n), Rest(s, n))
    /\ \A i \in 1..n : First(s, n)[i] = s[i]
<1> TAKE s \in Seq(Units)
<1> TAKE n \in 0..Len(s)
<1>1. \A i \in 1..n : s[i] \in Units
  OBVIOUS
<1>2. /\ First(s, n) \in Seq(Units) /\ Len(First(s, n)) = n
      /\ \A i \in 1..n : First(s, n)[i] = s[i]
  BY <1>1, SubSeqProperties DEF First
<1>3. \A i \in (n + 1)..Len(s) : s[i] \in Units
  OBVIOUS
<1>4. Rest(s, n) \in Seq(Units) /\ Len(Rest(s, n)) = Len(s) - n
  BY SMTT(30), <1>3, SubSeqProperties DEF Rest
<1>5. s = Cat(First(s, n), Rest(s, n))
  <2>1. 1 \in 1..(Len(s) + 1) /\ n \in (1 - 1)..Len(s) /\ Len(s) \in n..Len(s)
    OBVIOUS
  <2>2. SubSeq(s, 1, n) \o SubSeq(s, n + 1, Len(s)) = SubSeq(s, 1, Len(s))
    BY <2>1, ConcatAdjacentSubSeq, Zenon
  <2>3. SubSeq(s, 1, Len(s)) = s
    BY SubSeqFull, Zenon
  <2> QED BY <2>2, <2>3 DEF Cat, First, Rest
<1> QED BY <1>2, <1>4, <1>5

\* A part is taken off the front of two sequences that are one and the same.
LEMMA TakenOff ==
  ASSUME NEW a \in Seq(Units), NEW b \in Seq(Units), NEW x \in Seq(Units), NEW y \in Seq(Units),
         Cat(a, b) = Cat(x, y), NEW n \in 0..Len(a), n <= Len(x)
  PROVE  First(a, n) = First(x, n) /\ Cat(Rest(a, n), b) = Cat(Rest(x, n), y)
<1>1. n \in 0..Len(x)
  OBVIOUS
<1>2. /\ First(a, n) \in Seq(Units) /\ Len(First(a, n)) = n
      /\ Rest(a, n) \in Seq(Units) /\ a = Cat(First(a, n), Rest(a, n))
  BY Halves
<1>3. /\ First(x, n) \in Seq(Units) /\ Len(First(x, n)) = n
      /\ Rest(x, n) \in Seq(Units) /\ x = Cat(First(x, n), Rest(x, n))
  BY <1>1, Halves
<1>4. Cat(First(a, n), Cat(Rest(a, n), b)) = Cat(First(x, n), Cat(Rest(x, n), y))
  BY <1>2, <1>3, CatAssoc
<1>5. Cat(Rest(a, n), b) \in Seq(Units) /\ Cat(Rest(x, n), y) \in Seq(Units)
  BY <1>2, <1>3, CatType
<1> QED BY <1>2, <1>3, <1>4, <1>5, CatCut

\* A part that ends within the second of three sequences
LEMMA TakenWith ==
  ASSUME NEW h \in Seq(Units), NEW a \in Seq(Units), NEW b \in Seq(Units),
         NEW x \in Seq(Units), NEW y \in Seq(Units), Cat(Cat(h, a), b) = Cat(x, y),
         NEW n \in 0..Len(a), Len(h) + n = Len(x)
  PROVE  Cat(h, First(a, n)) = x /\ Cat(Rest(a, n), b) = y
<1>1. /\ First(a, n) \in Seq(Units) /\ Len(First(a, n)) = n
      /\ Rest(a, n) \in Seq(Units) /\ a = Cat(First(a, n), Rest(a, n))
  BY Halves
<1>2. /\ Cat(h, First(a, n)) \in Seq(Units) /\ Len(Cat(h, First(a, n))) = Len(x)
      /\ Cat(Rest(a, n), b) \in Seq(Units)
  <2>1. Cat(h, First(a, n)) \in Seq(Units) /\ Cat(Rest(a, n), b) \in Seq(Units)
    BY <1>1, CatType
  <2>2. Len(Cat(h, First(a, n))) = Len(h) + Len(First(a, n))
    BY <1>1, CatType
  <2> QED BY <1>1, <2>1, <2>2
<1>3. Cat(h, a) = Cat(Cat(h, First(a, n)), Rest(a, n))
  BY <1>1, CatAssoc
<1>4. Cat(Cat(h, First(a, n)), Cat(Rest(a, n), b)) = Cat(x, y)
  BY <1>1, <1>2, <1>3, CatAssoc
<1> QED BY <1>2, <1>4, CatCut

-----------------------------------------------------------------------------
(* Lines *)

\* get_line looks for the first line feed.
LEMMA FirstLf ==
  ASSUME NEW b \in Seq(Units), NEW n \in 1..Len(b), b[n] = "lf",
         \A i \in 1..(n - 1) : b[i] # "lf"
  PROVE  Contains(b, "lf") /\ SelectInSeq(b, LAMBDA u : u = "lf") = n
<1> DEFINE I == {i \in 1..Len(b) : b[i] = "lf"}
<1>1. n \in I /\ \A i \in I : n <= i
  OBVIOUS
<1>2. Min(I) = n
  <2>1. \A x \in I : (\A y \in I : x <= y) => x = n
    BY <1>1
  <2>2. \E x \in I : \A y \in I : x <= y
    BY <1>1
  <2> HIDE DEF I
  <2> QED BY <2>1, <2>2 DEF Min
<1>3. SelectInSeq(b, LAMBDA u : u = "lf") = Min(I)
  BY <1>1 DEF SelectInSeq
<1>4. Contains(b, "lf")
  BY DEF Contains
<1> QED BY <1>2, <1>3, <1>4

\* The end of a line is not part of what get_line makes of it.
LEMMA Chopped ==
  ASSUME NEW words \in Seq(Words), NEW eol \in {CrLf, <<"lf">>}, NEW l, l = Cat(words, eol)
  PROVE  /\ l \in Seq(Units) /\ Len(l) = Len(words) + Len(eol) /\ Len(l) \in Nat \ {0}
         /\ l[Len(l)] = "lf" /\ \A i \in 1..(Len(l) - 1) : l[i] # "lf"
         /\ (IF Len(l) > 1 /\ l[Len(l) - 1] = "cr" THEN SubSeq(l, 1, Len(l) - 2)
             ELSE Front(l)) = words
<1>1. words \in Seq(Units) /\ \A i \in 1..Len(words) : words[i] \notin {"cr", "lf"}
  BY DEF Words
<1>2. eol \in Seq(Units) /\ \/ Len(eol) = 2 /\ eol[1] = "cr" /\ eol[2] = "lf"
                            \/ Len(eol) = 1 /\ eol[1] = "lf"
  <2>1. "cr" \in Units /\ "lf" \in Units
    BY DEF Units
  <2>2. CASE eol = <<"cr", "lf">>
    BY <2>1, <2>2
  <2>3. CASE eol = <<"lf">>
    BY <2>1, <2>3
  <2> QED BY <2>2, <2>3 DEF CrLf
<1>3. l \in Seq(Units) /\ Len(l) = Len(words) + Len(eol) /\ Len(words) \in Nat
  BY <1>1, <1>2, CatType
<1>4. \A i \in 1..Len(l) : l[i] = IF i <= Len(words) THEN words[i] ELSE eol[i - Len(words)]
  BY <1>1, <1>2, <1>3, ConcatProperties DEF Cat
<1>5. l[Len(l)] = "lf" /\ \A i \in 1..(Len(l) - 1) : l[i] # "lf"
  BY SMTT(30), <1>1, <1>2, <1>3, <1>4
<1>6. SubSeq(l, 1, Len(words)) = words
  <2>1. Len(words) \in 0..Len(l)
    BY <1>2, <1>3
  <2>2. LET h == SubSeq(l, 1, Len(words))
        IN  h \in Seq(Units) /\ Len(h) = Len(words) /\ \A i \in 1..Len(words) : h[i] = l[i]
    BY <1>3, <2>1, SubSeqProperties
  <2>3. \A i \in 1..Len(words) : l[i] = words[i]
    BY <1>3, <1>4, <2>1
  <2> QED BY <1>1, <2>2, <2>3, SeqEqual
<1>7. CASE Len(eol) = 2
  <2>1. Len(l) > 1 /\ l[Len(l) - 1] = "cr" /\ Len(l) - 2 = Len(words)
    BY <1>2, <1>3, <1>4, <1>7
  <2> QED BY <1>2, <1>3, <1>5, <1>6, <2>1
<1>8. CASE Len(eol) = 1
  <2>1. ~(Len(l) > 1 /\ l[Len(l) - 1] = "cr") /\ Len(l) - 1 = Len(words)
    BY <1>1, <1>2, <1>3, <1>4, <1>8
  <2> QED BY <1>2, <1>3, <1>5, <1>6, <2>1 DEF Front
<1> QED BY <1>2, <1>7, <1>8

\* What get_line returns of the rest b of a read, the units w to be read after it, when
\* a line and then t are to come
LineGot(b, w, words, eol, t) ==
  LET g == get_line(b)
  IN  /\ g.used \in 1..Len(b) /\ g.rest \in Seq(Units)
      /\ \/ /\ g.ok /\ g.line = words /\ Cat(g.rest, w) = t
            /\ g.used = Len(Cat(words, eol)) - Len(conn.line)
         \/ /\ ~g.ok /\ g.rest = <<>> /\ g.line = Cat(conn.line, b)
            /\ g.line \in Seq(Units) /\ g.used = Len(b)
            /\ Len(g.line) < LineMax /\ \A i \in 1..Len(g.line) : g.line[i] # "lf"

\* A line is taken as a whole, wherever the reads end; nothing that follows is.
LEMMA GetLine ==
  ASSUME NEW b \in Seq(Units), b # <<>>, NEW w \in Seq(Units),
         conn.line \in Seq(Units), \A i \in 1..Len(conn.line) : conn.line[i] # "lf",
         NEW words \in Seq(Words), NEW eol \in {CrLf, <<"lf">>}, NEW t \in Seq(Units),
         Len(Cat(words, eol)) <= LineMax,
         Cat(Cat(conn.line, b), w) = Cat(Cat(words, eol), t)
  PROVE  LineGot(b, w, words, eol, t)
<1> DEFINE l == Cat(words, eol)
<1> DEFINE k == Len(conn.line)
<1> DEFINE n == Len(l) - k
<1> DEFINE g == get_line(b)
<1> DEFINE h == Cat(conn.line, b)
<1> DEFINE z == Cat(l, t)
<1>0. LineMax \in Nat
  BY SizesAssumption
<1>1. /\ l \in Seq(Units) /\ Len(l) \in Nat \ {0} /\ Len(l) <= LineMax
      /\ l[Len(l)] = "lf" /\ \A i \in 1..(Len(l) - 1) : l[i] # "lf"
      /\ (IF Len(l) > 1 /\ l[Len(l) - 1] = "cr" THEN SubSeq(l, 1, Len(l) - 2)
          ELSE Front(l)) = words
  BY Chopped
<1>2. k \in Nat /\ Len(b) \in Nat \ {0} /\ h \in Seq(Units) /\ Len(h) = k + Len(b)
  <2>1. k \in Nat /\ Len(b) \in Nat \ {0}
    OBVIOUS
  <2>2. h \in Seq(Units) /\ Len(h) = Len(conn.line) + Len(b)
    BY CatType
  <2> QED BY <2>1, <2>2
<1>3. z = Cat(h, w)
  OBVIOUS
<1>4. \A i \in 1..k : h[i] = conn.line[i]
  BY CatAt
<1>5. \A i \in 1..Len(b) : h[k + i] = b[i]
  BY CatAt
<1> HIDE DEF l, k, h, z
<1>6. \A i \in 1..Len(l) : z[i] = l[i]
  BY <1>1, CatAt DEF z
<1>7. \A i \in 1..Len(h) : z[i] = h[i]
  BY <1>2, <1>3, CatAt
<1>8. n \in Nat \ {0}
  <2>1. CASE Len(l) <= k
    <3>1. Len(l) \in 1..k /\ Len(l) \in 1..Len(l) /\ Len(l) \in 1..Len(h)
      BY <1>1, <1>2, <2>1
    <3>2. conn.line[Len(l)] = "lf"
      BY <1>1, <1>4, <1>6, <1>7, <3>1
    <3>3. conn.line[Len(l)] # "lf"
      BY <3>1 DEF k
    <3> QED BY <3>2, <3>3
  <2> QED BY <1>1, <1>2, <2>1
<1>9. \A i \in 1..Len(b) : i <= n => b[i] = l[k + i]
  <2> SUFFICES ASSUME NEW i \in 1..Len(b), i <= n PROVE b[i] = l[k + i]
    OBVIOUS
  <2>1. k + i \in 1..Len(l) /\ k + i \in 1..Len(h)
    BY <1>1, <1>2
  <2> QED BY <1>5, <1>6, <1>7, <2>1
<1>10. k + n = Len(l)
  BY <1>1, <1>2
<1> HIDE DEF n
<1>11. CASE n <= Len(b)
  <2>1. n \in 1..Len(b)
    BY <1>2, <1>8, <1>11
  <2>2. b[n] = "lf"
    BY <1>1, <1>9, <1>10, <2>1
  <2>3. \A i \in 1..(n - 1) : b[i] # "lf"
    <3> SUFFICES ASSUME NEW i \in 1..(n - 1) PROVE b[i] # "lf"
      OBVIOUS
    <3>1. i \in 1..Len(b) /\ i <= n /\ k + i \in 1..(Len(l) - 1)
      BY <1>1, <1>2, <1>8, <1>10, <2>1
    <3> QED BY <1>1, <1>9, <3>1
  <2>4. Contains(b, "lf") /\ SelectInSeq(b, LAMBDA u : u = "lf") = n
    BY <2>1, <2>2, <2>3, FirstLf
  <2>5. Least(n, LineMax - k) = n
    BY <1>0, <1>1, <1>2, <1>8, <1>10 DEF Least
  <2>6. n \in 0..Len(b) /\ k + n = Len(l)
    BY <1>10, <2>1
  <2>7. Cat(conn.line, First(b, n)) = l /\ Cat(Rest(b, n), w) = t
    BY <1>1, <2>6, TakenWith DEF l, k
  <2>8. Rest(b, n) \in Seq(Units)
    BY <2>6, Halves
  <2>9. Last(l) = "lf"
    BY <1>1 DEF Last
  <2>10. g = [ok |-> Last(l) = "lf" \/ Len(l) = LineMax,
              line |-> IF Last(l) = "lf" \/ Len(l) = LineMax
                       THEN IF Last(l) # "lf" THEN l
                            ELSE IF Len(l) > 1 /\ l[Len(l) - 1] = "cr"
                            THEN SubSeq(l, 1, Len(l) - 2) ELSE Front(l)
                       ELSE l,
              used |-> n, rest |-> Rest(b, n)]
    BY <2>4, <2>5, <2>7, Zenon DEF get_line, k, First, Rest, Cat
  <2>11. g = [ok |-> TRUE, line |-> words, used |-> n, rest |-> Rest(b, n)]
    BY <1>1, <2>9, <2>10, Zenon
  <2>12. n = Len(Cat(words, eol)) - Len(conn.line)
    BY DEF n, l, k
  <2>13. /\ g.used \in 1..Len(b) /\ g.rest \in Seq(Units)
         /\ g.ok /\ g.line = words /\ Cat(g.rest, w) = t
         /\ g.used = Len(Cat(words, eol)) - Len(conn.line)
    <3> HIDE DEF g
    <3> QED BY <2>1, <2>7, <2>8, <2>11, <2>12
  <2> QED BY <2>13, Zenon DEF LineGot
<1>12. CASE n > Len(b)
  <2>1. \A i \in 1..Len(b) : b[i] # "lf"
    <3> SUFFICES ASSUME NEW i \in 1..Len(b) PROVE b[i] # "lf"
      OBVIOUS
    <3>1. i <= n /\ k + i \in 1..(Len(l) - 1)
      BY SMTT(30), <1>1, <1>2, <1>8, <1>10, <1>12
    <3> QED BY <1>1, <1>9, <3>1
  <2>2. ~Contains(b, "lf")
    BY <2>1 DEF Contains
  <2>3. Least(Len(b), LineMax - k) = Len(b) /\ Len(h) < Len(l) /\ Len(h) < LineMax
    BY SMTT(30), <1>0, <1>1, <1>2, <1>8, <1>10, <1>12 DEF Least
  <2>4. SubSeq(b, 1, Len(b)) = b /\ SubSeq(b, Len(b) + 1, Len(b)) = <<>>
    BY <1>2, SubSeqFull, SubSeqEmpty
  <2>5. \A i \in 1..Len(h) : h[i] # "lf"
    <3>1. \A i \in 1..Len(h) : i \in 1..(Len(l) - 1) /\ i \in 1..Len(l)
      BY <1>1, <1>2, <2>3
    <3> QED BY <1>1, <1>6, <1>7, <3>1
  <2>6. Last(h) # "lf" /\ Len(h) # LineMax
    <3>1. Len(h) \in 1..Len(h) /\ Len(h) # LineMax
      BY <1>0, <1>2, <2>3
    <3> QED BY <2>5, <3>1 DEF Last
  <2>7. g = [ok |-> Last(h) = "lf" \/ Len(h) = LineMax,
             line |-> IF Last(h) = "lf" \/ Len(h) = LineMax
                      THEN IF Last(h) # "lf" THEN h
                           ELSE IF Len(h) > 1 /\ h[Len(h) - 1] = "cr"
                           THEN SubSeq(h, 1, Len(h) - 2) ELSE Front(h)
                      ELSE h,
             used |-> Len(b), rest |-> <<>>]
    BY <2>2, <2>3, <2>4, Zenon DEF get_line, k, h, Cat
  <2>8. g = [ok |-> FALSE, line |-> h, used |-> Len(b), rest |-> <<>>]
    BY <2>6, <2>7, Zenon
  <2>9. Len(b) \in 1..Len(b) /\ <<>> \in Seq(Units)
    BY <1>2
  <2>10. /\ g.used \in 1..Len(b) /\ g.rest \in Seq(Units)
         /\ ~g.ok /\ g.rest = <<>> /\ g.line = h /\ g.line \in Seq(Units) /\ g.used = Len(b)
         /\ Len(g.line) < LineMax /\ \A i \in 1..Len(g.line) : g.line[i] # "lf"
    <3> HIDE DEF g
    <3> QED BY <1>2, <2>3, <2>5, <2>8, <2>9
  <2> QED BY <2>10, Zenon DEF h, LineGot
<1>13. n <= Len(b) \/ n > Len(b)
  BY <1>2, <1>8
<1> QED BY <1>11, <1>12, <1>13

-----------------------------------------------------------------------------
(* Replies *)

\* The words that a reply is made of are units, and no end of line.
LEMMA Literals ==
  /\ {"cr", "lf", "HTTP/1.1", "content-type:", "text/html", "set-cookie:", "location:",
      "content-length:", "transfer-encoding:", "chunked", "footer", "0"} \subseteq Units
  /\ {"HTTP/1.1", "content-type:", "text/html", "set-cookie:", "location:",
      "content-length:", "transfer-encoding:", "chunked", "footer", "0"} \subseteq Words
  /\ Words \subseteq Units
BY DEF Units, Words

\* A line is what it says and its end.
LEMMA LineType ==
  ASSUME NEW words \in Seq(Words)
  PROVE  /\ words \in Seq(Units) /\ CrLf \in Seq(Units) /\ Len(CrLf) = 2
         /\ Line(words) = Cat(words, CrLf)
         /\ Line(words) \in Seq(Units) /\ Len(Line(words)) = Len(words) + 2
<1>1. words \in Seq(Units)
  BY Literals
<1>2. CrLf \in Seq(Units) /\ Len(CrLf) = 2
  BY Literals DEF CrLf
<1>3. Line(words) = Cat(words, CrLf)
  BY DEF Line, Cat
<1>4. Cat(words, CrLf) \in Seq(Units) /\ Len(Cat(words, CrLf)) = Len(words) + Len(CrLf)
  BY <1>1, <1>2, CatType
<1> QED BY <1>1, <1>2, <1>3, <1>4

\* A number that a size_t counts is a word, and is read as what it is.
LEMMA NumberRead ==
  ASSUME NEW n \in 0..(MaxSize - 1)
  PROVE  ToString(n) \in Words /\ ToString(n) \in Numbers /\ Value[ToString(n)] = n
<1>1. ToString(n) \in STRING \ {"cr", "lf"}
  BY DigitsAssumption
<1>2. ToString(n) \in Words
  BY <1>1 DEF Words, Units
<1>3. ToString(n) \in Numbers
  BY DEF Numbers
<1>4. Value[ToString(n)] = CHOOSE i \in 0..(MaxSize - 1) : ToString(i) = ToString(n)
  BY <1>3 DEF Value
<1>5. \A i \in 0..(MaxSize - 1) : ToString(i) = ToString(n) => i = n
  BY DigitsAssumption
<1>6. (CHOOSE i \in 0..(MaxSize - 1) : ToString(i) = ToString(n)) = n
  BY <1>5
<1> QED BY <1>2, <1>3, <1>4, <1>6

\* The words of line k of a head
HeadWords(d, k) ==
  CASE k = 1 -> <<"HTTP/1.1", d.status>>
    [] k = 2 -> <<"content-type:", "text/html">>
    [] k = 3 -> <<"set-cookie:", d.cookie>>
    [] k = 4 -> <<"location:", d.location>>
    [] k = 5 -> IF d.framing = "length" THEN <<"content-length:", ToString(Len(d.body))>>
                ELSE <<"transfer-encoding:", "chunked">>

\* The lines that a reply has in its head
HasLine(d, k) ==
  CASE k = 1 -> TRUE
    [] k = 2 -> d.html
    [] k = 3 -> d.cookie # ""
    [] k = 4 -> d.location # ""
    [] k = 5 -> d.framing # "eof"

\* Two words make a line of two words.
LEMMA TwoWords ==
  \A a, b \in Words : <<a, b>> \in Seq(Words) /\ Len(<<a, b>>) = 2
OBVIOUS

\* The size of a body fits in a size_t, which is not all taken.
LEMMA BodySize ==
  ASSUME NEW d, Ordinary(d)
  PROVE  d.body \in Seq(Units) /\ Len(d.body) \in 0..(MaxSize - 1) /\ Len(d.body) < Infinite
         /\ Infinite = MaxSize - 1 /\ MaxSize \in Nat \ {0}
<1>1. d.body \in Seq(Units) /\ Len(d.body) < Infinite
  BY DEF Ordinary
<1>2. MaxSize \in Nat \ {0} /\ Infinite = MaxSize - 1
  BY SizesAssumption DEF Infinite
<1>3. Len(d.body) \in Nat
  BY <1>1
<1> QED BY <1>1, <1>2, <1>3

\* Each of the five lines of a head is missing or is two words and an end of line.
LEMMA HeadShape ==
  ASSUME NEW d, Ordinary(d), NEW k \in 1..5
  PROVE  /\ HasLine(d, k) => /\ HeadWords(d, k) \in Seq(Words) /\ Len(HeadWords(d, k)) = 2
                             /\ HeadLines(d)[k] = Line(HeadWords(d, k))
         /\ ~HasLine(d, k) => HeadLines(d)[k] = <<>>
         /\ Len(HeadLines(d)) = 5
<1> DEFINE Fits(w) == w \in Seq(Words) /\ Len(w) = 2
<1>1. Len(HeadLines(d)) = 5
  BY DEF HeadLines
<1>2. CASE k = 1
  <2>1. HeadLines(d)[1] = Line(<<"HTTP/1.1", d.status>>)
    BY DEF HeadLines, StatusLine
  <2>2. "HTTP/1.1" \in Words /\ d.status \in Words
    BY Literals DEF Ordinary
  <2>3. Fits(<<"HTTP/1.1", d.status>>)
    BY <2>2, TwoWords
  <2>4. HeadWords(d, 1) = <<"HTTP/1.1", d.status>> /\ HasLine(d, 1)
    BY DEF HeadWords, HasLine
  <2> QED BY <1>1, <1>2, <2>1, <2>3, <2>4, Zenon
<1>3. CASE k = 2
  <2>1. HeadLines(d)[2] = IF d.html THEN Line(<<"content-type:", "text/html">>) ELSE <<>>
    BY DEF HeadLines
  <2>2. "content-type:" \in Words /\ "text/html" \in Words
    BY Literals
  <2>3. Fits(<<"content-type:", "text/html">>)
    BY <2>2, TwoWords
  <2>4. HeadWords(d, 2) = <<"content-type:", "text/html">>
    BY DEF HeadWords
  <2>5. HasLine(d, 2) <=> d.html
    BY DEF HasLine
  <2> QED BY <1>1, <1>3, <2>1, <2>3, <2>4, <2>5, Zenon
<1>4. CASE k = 3
  <2>1. HeadLines(d)[3] = IF d.cookie # "" THEN Line(<<"set-cookie:", d.cookie>>) ELSE <<>>
    BY DEF HeadLines
  <2>2. "set-cookie:" \in Words /\ (d.cookie # "" => d.cookie \in Words)
    BY Literals DEF Ordinary
  <2>3. d.cookie # "" => Fits(<<"set-cookie:", d.cookie>>)
    BY <2>2, TwoWords
  <2>4. HeadWords(d, 3) = <<"set-cookie:", d.cookie>>
    BY DEF HeadWords
  <2>5. HasLine(d, 3) <=> d.cookie # ""
    BY DEF HasLine
  <2> QED BY <1>1, <1>4, <2>1, <2>3, <2>4, <2>5, Zenon
<1>5. CASE k = 4
  <2>1. HeadLines(d)[4] = IF d.location # "" THEN Line(<<"location:", d.location>>) ELSE <<>>
    BY DEF HeadLines
  <2>2. "location:" \in Words /\ (d.location # "" => d.location \in Words)
    BY Literals DEF Ordinary
  <2>3. d.location # "" => Fits(<<"location:", d.location>>)
    BY <2>2, TwoWords
  <2>4. HeadWords(d, 4) = <<"location:", d.location>>
    BY DEF HeadWords
  <2>5. HasLine(d, 4) <=> d.location # ""
    BY DEF HasLine
  <2> QED BY <1>1, <1>5, <2>1, <2>3, <2>4, <2>5, Zenon
<1>6. CASE k = 5
  <2>1. HeadLines(d)[5] =
          CASE d.framing = "length"  -> Line(<<"content-length:", ToString(Len(d.body))>>)
            [] d.framing = "chunked" -> Line(<<"transfer-encoding:", "chunked">>)
            [] OTHER                 -> <<>>
    BY DEF HeadLines
  <2>2. ToString(Len(d.body)) \in Words
    BY BodySize, NumberRead
  <2>3. HasLine(d, 5) <=> d.framing # "eof"
    BY DEF HasLine
  <2>4. CASE d.framing = "length"
    <3>1. Fits(<<"content-length:", ToString(Len(d.body))>>)
      BY <2>2, Literals, TwoWords
    <3>2. HeadLines(d)[5] = Line(<<"content-length:", ToString(Len(d.body))>>)
      BY <2>1, <2>4
    <3>3. HeadWords(d, 5) = <<"content-length:", ToString(Len(d.body))>> /\ HasLine(d, 5)
      BY <2>3, <2>4 DEF HeadWords
    <3> QED BY <1>1, <1>6, <3>1, <3>2, <3>3, Zenon
  <2>5. CASE d.framing = "chunked"
    <3>1. Fits(<<"transfer-encoding:", "chunked">>)
      BY Literals, TwoWords
    <3>2. HeadLines(d)[5] = Line(<<"transfer-encoding:", "chunked">>)
      BY <2>1, <2>5
    <3>3. HeadWords(d, 5) = <<"transfer-encoding:", "chunked">> /\ HasLine(d, 5)
      BY <2>3, <2>5 DEF HeadWords
    <3> QED BY <1>1, <1>6, <3>1, <3>2, <3>3, Zenon
  <2>6. CASE d.framing = "eof"
    <3>1. HeadLines(d)[5] = <<>>
      BY <2>1, <2>6
    <3> QED BY <1>1, <1>6, <2>3, <2>6, <3>1, Zenon
  <2> QED BY <2>4, <2>5, <2>6 DEF Ordinary
<1> QED BY <1>2, <1>3, <1>4, <1>5, <1>6

\* What is left of a head after k lines
LEMMA HeadLeft ==
  ASSUME NEW d, Ordinary(d)
  PROVE  /\ d.end \in {CrLf, <<"lf">>} /\ HeadFrom(d)[5] = d.end
         /\ \A k \in 0..5 : HeadFrom(d)[k] \in Seq(Units) /\ Len(HeadFrom(d)[k]) > 0
         /\ \A k \in 0..4 : HeadFrom(d)[k] = Cat(HeadLines(d)[k + 1], HeadFrom(d)[k + 1])
         /\ \A k \in 1..5 : HeadLines(d)[k] \in Seq(Units)
         /\ HeadOf(d) = HeadFrom(d)[0] /\ StatusLine(d) = Line(HeadWords(d, 1))
<1> DEFINE p == HeadLines(d)
<1> DEFINE h == HeadFrom(d)
<1>1. d.end \in {CrLf, <<"lf">>} /\ d.end \in Seq(Units) /\ Len(d.end) > 0
  <2>1. d.end \in {CrLf, <<"lf">>}
    BY DEF Ordinary
  <2>2. CASE d.end = CrLf
    <3>1. <<"cr", "lf">> \in Seq(Units) /\ Len(<<"cr", "lf">>) = 2
      BY Literals
    <3> QED BY <2>1, <2>2, <3>1 DEF CrLf
  <2>3. CASE d.end = <<"lf">>
    <3>1. <<"lf">> \in Seq(Units) /\ Len(<<"lf">>) = 1
      BY Literals
    <3> QED BY <2>1, <2>3, <3>1
  <2> QED BY <2>1, <2>2, <2>3
<1>2. Len(p) = 5
  BY HeadShape
<1>3. ASSUME NEW k \in 1..5 PROVE p[k] \in Seq(Units)
  <2>1. CASE HasLine(d, k)
    BY <2>1, HeadShape, LineType
  <2>2. CASE ~HasLine(d, k)
    <3>1. <<>> \in Seq(Units)
      OBVIOUS
    <3> QED BY <2>2, <3>1, HeadShape
  <2> QED BY <2>1, <2>2
<1>4. p \in Seq(Seq(Units))
  <2>1. p = <<p[1], p[2], p[3], p[4], p[5]>>
    BY DEF HeadLines
  <2> HIDE DEF p
  <2>2. <<p[1], p[2], p[3], p[4], p[5]>> \in Seq(Seq(Units))
    BY <1>3
  <2> QED BY <2>1, <2>2, Zenon
<1>5. /\ h[Len(p)] = d.end
      /\ \A k \in 0..(Len(p) - 1) : h[k] = p[k + 1] \o h[k + 1]
      /\ \A k \in 0..Len(p) : h[k] \in Seq(Units)
  <2> HIDE DEF p
  <2>1. /\ Following(p, d.end)[Len(p)] = d.end
        /\ \A n \in 0..(Len(p) - 1) :
             Following(p, d.end)[n] = p[n + 1] \o Following(p, d.end)[n + 1]
        /\ \A n \in 0..Len(p) : Following(p, d.end)[n] \in Seq(Units)
    BY <1>1, <1>4, FollowingStep
  <2> QED BY <2>1, Zenon DEF HeadFrom, p
<1> HIDE DEF h, p
<1>6. ASSUME NEW k \in 0..4
      PROVE  /\ h[k] = Cat(p[k + 1], h[k + 1])
             /\ p[k + 1] \in Seq(Units) /\ h[k + 1] \in Seq(Units)
  <2>1. k \in 0..(Len(p) - 1) /\ k + 1 \in 1..5 /\ k + 1 \in 0..Len(p)
    BY <1>2
  <2>2. h[k] = Cat(p[k + 1], h[k + 1])
    BY <1>5, <2>1, Zenon DEF Cat
  <2> QED BY <1>3, <1>5, <2>1, <2>2
<1>7. ASSUME NEW k \in 0..4, Len(h[k + 1]) > 0
      PROVE  Len(h[k]) > 0
  <2>1. Len(h[k]) = Len(p[k + 1]) + Len(h[k + 1]) /\ p[k + 1] \in Seq(Units)
        /\ h[k + 1] \in Seq(Units)
    BY <1>6, CatType
  <2>2. Len(p[k + 1]) \in Nat /\ Len(h[k + 1]) \in Nat
    BY <2>1
  <2>3. \A x, y, z : x \in Nat /\ y \in Nat /\ y > 0 /\ z = x + y => z > 0
    OBVIOUS
  <2> QED BY <1>7, <2>1, <2>2, <2>3, Zenon
<1>8. h[5] = d.end /\ Len(h[5]) > 0
  BY <1>1, <1>2, <1>5
<1>9. Len(h[4]) > 0
  <2>1. 4 \in 0..4 /\ 4 + 1 = 5
    OBVIOUS
  <2> QED BY <1>7, <1>8, <2>1
<1>10. Len(h[3]) > 0
  <2>1. 3 \in 0..4 /\ 3 + 1 = 4
    OBVIOUS
  <2> QED BY <1>7, <1>9, <2>1
<1>11. Len(h[2]) > 0
  <2>1. 2 \in 0..4 /\ 2 + 1 = 3
    OBVIOUS
  <2> QED BY <1>7, <1>10, <2>1
<1>12. Len(h[1]) > 0
  <2>1. 1 \in 0..4 /\ 1 + 1 = 2
    OBVIOUS
  <2> QED BY <1>7, <1>11, <2>1
<1>13. Len(h[0]) > 0
  <2>1. 0 \in 0..4 /\ 0 + 1 = 1
    OBVIOUS
  <2> QED BY <1>7, <1>12, <2>1
<1>14. \A k \in 0..5 : h[k] \in Seq(Units) /\ Len(h[k]) > 0
  <2> SUFFICES ASSUME NEW k \in 0..5 PROVE h[k] \in Seq(Units) /\ Len(h[k]) > 0
    OBVIOUS
  <2>1. h[k] \in Seq(Units)
    BY <1>2, <1>5
  <2>2. k = 0 \/ k = 1 \/ k = 2 \/ k = 3 \/ k = 4 \/ k = 5
    OBVIOUS
  <2> QED BY <1>8, <1>9, <1>10, <1>11, <1>12, <1>13, <2>1, <2>2, Zenon
<1>15. HeadOf(d) = h[0]
  BY DEF HeadOf, h, HeadFrom
<1>16. StatusLine(d) = Line(HeadWords(d, 1))
  BY DEF StatusLine, HeadWords
<1>17. \A k \in 0..4 : h[k] = Cat(p[k + 1], h[k + 1])
  BY <1>6
<1>18. \A k \in 1..5 : p[k] \in Seq(Units)
  BY <1>3
<1> QED BY <1>1, <1>8, <1>14, <1>15, <1>16, <1>17, <1>18, Zenon DEF h, p

\* The footers after the first j of them
LEMMA FootersLeft ==
  ASSUME NEW d, Ordinary(d)
  PROVE  /\ \A j \in 0..d.footers : FootersFrom(d)[j] \in Seq(Units)
         /\ FootersFrom(d)[d.footers] = CrLf
         /\ \A j \in 0..(d.footers - 1) :
              FootersFrom(d)[j] = Cat(Line(<<"footer">>), FootersFrom(d)[j + 1])
         /\ d.framing = "chunked" => Footers(d) = FootersFrom(d)[0]
         /\ d.framing # "chunked" => Footers(d) = <<>>
         /\ d.footers \in Nat /\ Footers(d) \in Seq(Units)
         /\ <<"footer">> \in Seq(Words) /\ Len(<<"footer">>) = 1
<1> DEFINE p == FooterLines(d)
<1> DEFINE f == FootersFrom(d)
<1>1. <<"footer">> \in Seq(Words) /\ Len(<<"footer">>) = 1
  BY Literals
<1>2. Line(<<"footer">>) \in Seq(Units) /\ CrLf \in Seq(Units)
  BY <1>1, LineType
<1>3. d.footers \in Nat
  BY DEF Ordinary
<1>4. p \in Seq(Seq(Units)) /\ Len(p) = d.footers
      /\ \A i \in 1..d.footers : p[i] = Line(<<"footer">>)
  BY SMTT(30), <1>2, <1>3 DEF FooterLines
<1> HIDE DEF p
<1>5. /\ f[Len(p)] = CrLf
      /\ \A n \in 0..(Len(p) - 1) : f[n] = p[n + 1] \o f[n + 1]
      /\ \A n \in 0..Len(p) : f[n] \in Seq(Units)
  <2>1. /\ Following(p, CrLf)[Len(p)] = CrLf
        /\ \A n \in 0..(Len(p) - 1) :
             Following(p, CrLf)[n] = p[n + 1] \o Following(p, CrLf)[n + 1]
        /\ \A n \in 0..Len(p) : Following(p, CrLf)[n] \in Seq(Units)
    BY <1>2, <1>4, FollowingStep
  <2> QED BY <2>1, Zenon DEF FootersFrom, p
<1>6. d.framing = "chunked" => Footers(d) = f[0]
  BY DEF Footers, FootersFrom
<1>7. d.framing # "chunked" => Footers(d) = <<>>
  BY DEF Footers
<1> HIDE DEF f
<1>8. ASSUME NEW j \in 0..(d.footers - 1) PROVE f[j] = Cat(Line(<<"footer">>), f[j + 1])
  <2>1. j \in 0..(Len(p) - 1) /\ j + 1 \in 1..d.footers
    BY <1>3, <1>4
  <2> QED BY <1>4, <1>5, <2>1, Zenon DEF Cat
<1>9. f[d.footers] = CrLf /\ \A n \in 0..d.footers : f[n] \in Seq(Units)
  BY <1>4, <1>5
<1>10. Footers(d) \in Seq(Units)
  <2>1. 0 \in 0..d.footers /\ <<>> \in Seq(Units)
    BY <1>3
  <2> QED BY <1>6, <1>7, <1>9, <2>1
<1> QED BY <1>1, <1>3, <1>6, <1>7, <1>8, <1>9, <1>10, Zenon DEF f

\* A part of a sequence
LEMMA Middle ==
  ASSUME NEW s \in Seq(Units), NEW e \in 0..Len(s), NEW b \in 0..e
  PROVE  /\ Rest(First(s, e), b) = SubSeq(s, b + 1, e)
         /\ Rest(First(s, e), b) \in Seq(Units) /\ Len(Rest(First(s, e), b)) = e - b
         /\ First(s, e) = Cat(First(s, b), Rest(First(s, e), b))
         /\ Rest(s, b) = Cat(Rest(First(s, e), b), Rest(s, e))
<1> DEFINE h == First(s, e)
<1> DEFINE r == Rest(h, b)
<1>1. h \in Seq(Units) /\ Len(h) = e /\ \A i \in 1..e : h[i] = s[i]
  BY Halves
<1>2. b \in 0..Len(h) /\ b \in 0..Len(s)
  BY <1>1
<1>3. /\ First(h, b) \in Seq(Units) /\ Len(First(h, b)) = b
      /\ r \in Seq(Units) /\ Len(r) = Len(h) - b /\ h = Cat(First(h, b), r)
      /\ \A i \in 1..b : First(h, b)[i] = h[i]
  <2> HIDE DEF h
  <2> QED BY <1>1, <1>2, Halves
<1>4. /\ First(s, b) \in Seq(Units) /\ Len(First(s, b)) = b
      /\ \A i \in 1..b : First(s, b)[i] = s[i]
      /\ Rest(s, b) \in Seq(Units) /\ s = Cat(First(s, b), Rest(s, b))
  BY <1>2, Halves
<1>5. First(h, b) = First(s, b)
  <2> HIDE DEF h
  <2>1. \A i \in 1..b : First(h, b)[i] = First(s, b)[i]
    <3> SUFFICES ASSUME NEW i \in 1..b PROVE First(h, b)[i] = First(s, b)[i]
      OBVIOUS
    <3>1. i \in 1..e
      OBVIOUS
    <3> QED BY <1>1, <1>3, <1>4, <3>1, Zenon
  <2> QED BY <1>3, <1>4, <2>1, SeqEqual
<1>6. h = Cat(First(s, b), r)
  <2> HIDE DEF h, r
  <2> QED BY <1>3, <1>5
<1>7. r = SubSeq(s, b + 1, e)
  <2> DEFINE q == SubSeq(s, b + 1, e)
  <2>1. \A i \in (b + 1)..e : s[i] \in Units
    OBVIOUS
  <2>2. q \in Seq(Units) /\ Len(q) = e - b /\ \A i \in 1..(e - b) : q[i] = s[b + i]
    BY <2>1, SubSeqProperties
  <2>3. \A i \in 1..(e - b) : r[i] = s[b + i]
    <3> HIDE DEF h, r
    <3> SUFFICES ASSUME NEW i \in 1..(e - b) PROVE r[i] = s[b + i]
      OBVIOUS
    <3>0. i \in 1..Len(r)
      BY <1>1, <1>3
    <3>1. h[b + i] = r[i]
      BY <1>3, <3>0, CatAt
    <3>2. b + i \in 1..e
      OBVIOUS
    <3> QED BY <1>1, <3>1, <3>2
  <2> HIDE DEF h, r, q
  <2>4. \A i \in 1..(e - b) : r[i] = q[i]
    BY <2>2, <2>3
  <2>5. Len(r) = e - b
    BY <1>1, <1>3
  <2>6. r = q
    BY <1>3, <2>2, <2>4, <2>5, SeqEqual
  <2> QED BY <2>6 DEF q
<1>8. Rest(s, b) = Cat(r, Rest(s, e))
  <2> HIDE DEF h, r
  <2>1. s = Cat(h, Rest(s, e)) /\ Rest(s, e) \in Seq(Units)
    BY Halves DEF h
  <2>2. s = Cat(First(s, b), Cat(r, Rest(s, e)))
    BY <1>3, <1>4, <1>6, <2>1, CatAssoc
  <2>3. Cat(r, Rest(s, e)) \in Seq(Units)
    BY <1>3, <2>1, CatType
  <2> QED BY <1>4, <2>2, <2>3, CatCut
<1>9. Len(r) = e - b
  BY <1>1, <1>3
<1> QED BY <1>3, <1>6, <1>7, <1>8, <1>9

\* Chunk m + 1 of a body
LEMMA ChunkEnds ==
  ASSUME NEW d, Ordinary(d), NEW m \in 0..(Len(Chunks(d)) - 1)
  PROVE  /\ Ends(d, m) \in 0..Len(d.body) /\ Ends(d, m + 1) \in 0..Len(d.body)
         /\ Ends(d, m + 1) - Ends(d, m) \in 1..2
         /\ Chunks(d)[m + 1] =
              Line(<<ToString(Ends(d, m + 1) - Ends(d, m))>>)
                \o Line(Rest(First(d.body, Ends(d, m + 1)), Ends(d, m)))
<1> DEFINE L == Len(d.body)
<1> DEFINE n == (L + 1) \div 2
<1> DEFINE e == Ends(d, m + 1)
<1> DEFINE b == Ends(d, m)
<1>1. L \in Nat /\ d.body \in Seq(Units)
  BY BodySize
<1>2. n \in Nat /\ 2 * n <= L + 1 /\ L + 1 < 2 * n + 2
  <2> HIDE DEF L
  <2> QED BY <1>1
<1>3. Len(Chunks(d)) = n
  <2> HIDE DEF n
  <2> QED BY <1>2 DEF Chunks, n
<1>4. m \in Nat /\ 2 * m < L
  <2> HIDE DEF L, n
  <2> QED BY <1>1, <1>2, <1>3
<1>5. b = 2 * m /\ e = Least(2 * (m + 1), L)
  <2>1. b = Least(2 * m, L) /\ e = Least(2 * (m + 1), L)
    BY DEF Ends
  <2> HIDE DEF L, b, e
  <2> QED BY <1>1, <1>4, <2>1 DEF Least
<1>6. e \in 0..L /\ e - b \in 1..2 /\ b \in 0..e
  <2> HIDE DEF L, b, e
  <2> QED BY <1>1, <1>4, <1>5 DEF Least
<1>7. Chunk(d, m + 1) = SubSeq(d.body, b + 1, e)
  <2>1. Chunk(d, m + 1) = SubSeq(d.body, 2 * (m + 1) - 1, e)
    BY DEF Chunk, Ends
  <2>2. 2 * (m + 1) - 1 = b + 1
    <3> HIDE DEF b
    <3> QED BY <1>4, <1>5
  <2> HIDE DEF b, e
  <2> QED BY <2>1, <2>2
<1>8. Chunk(d, m + 1) = Rest(First(d.body, e), b) /\ Len(Chunk(d, m + 1)) = e - b
  <2> HIDE DEF b, e
  <2>1. e \in 0..Len(d.body) /\ b \in 0..e
    BY <1>6
  <2>2. Rest(First(d.body, e), b) = SubSeq(d.body, b + 1, e)
        /\ Len(Rest(First(d.body, e), b)) = e - b
    BY <1>1, <2>1, Middle
  <2> QED BY <1>7, <2>2
<1>9. m + 1 \in 1..n
  <2> HIDE DEF n
  <2> QED BY <1>2, <1>3
<1>10. Chunks(d)[m + 1] = Line(<<ToString(Len(Chunk(d, m + 1)))>>) \o Line(Chunk(d, m + 1))
  <2> HIDE DEF n
  <2> QED BY <1>9, Zenon DEF Chunks, n
<1>11. b \in 0..L
  <2> HIDE DEF L, b, e
  <2> QED BY <1>1, <1>6
<1> HIDE DEF L, b, e
<1>12. /\ b \in 0..L /\ e \in 0..L /\ e - b \in 1..2
       /\ Chunks(d)[m + 1] = Line(<<ToString(e - b)>>) \o Line(Rest(First(d.body, e), b))
  BY <1>6, <1>8, <1>10, <1>11, Zenon
<1> QED BY <1>12, Zenon DEF L, b, e

\* The rest of an entity after m chunks
LEMMA ChunksLeft ==
  ASSUME NEW d, Ordinary(d)
  PROVE  /\ Len(Chunks(d)) \in Nat /\ Ends(d, 0) = 0 /\ Ends(d, Len(Chunks(d))) = Len(d.body)
         /\ \A m \in 0..Len(Chunks(d)) : ChunksFrom(d)[m] \in Seq(Units)
         /\ ChunksFrom(d)[Len(Chunks(d))] = Cat(Line(<<"0">>), Footers(d))
         /\ \A m \in 0..(Len(Chunks(d)) - 1) :
              ChunksFrom(d)[m] =
                Cat(Line(<<ToString(Ends(d, m + 1) - Ends(d, m))>>),
                    Cat(Rest(First(d.body, Ends(d, m + 1)), Ends(d, m)),
                        Cat(CrLf, ChunksFrom(d)[m + 1])))
<1> DEFINE p == Chunks(d)
<1> DEFINE f == ChunksFrom(d)
<1> DEFINE end == Line(<<"0">>) \o Footers(d)
<1> DEFINE W(m) == Line(<<ToString(Ends(d, m + 1) - Ends(d, m))>>)
<1> DEFINE R(m) == Rest(First(d.body, Ends(d, m + 1)), Ends(d, m))
<1>1. Len(p) \in Nat /\ Ends(d, 0) = 0 /\ Ends(d, Len(p)) = Len(d.body)
      /\ DOMAIN p = 1..Len(p) /\ p = [i \in 1..Len(p) |-> p[i]]
  <2> DEFINE L == Len(d.body)
  <2> DEFINE n == (L + 1) \div 2
  <2>1. L \in Nat
    BY BodySize
  <2> HIDE DEF L
  <2>2. n \in Nat /\ 2 * n <= L + 1 /\ L + 1 < 2 * n + 2
    BY <2>1
  <2> HIDE DEF n
  <2>3. Len(p) = n /\ p = [i \in 1..n |-> p[i]] /\ DOMAIN p = 1..n
    <3> DEFINE E(i) == Line(<<ToString(Len(Chunk(d, i)))>>) \o Line(Chunk(d, i))
    <3>1. p = [i \in 1..n |-> E(i)]
      BY Zenon DEF Chunks, n, L
    <3> HIDE DEF p, E
    <3>2. DOMAIN p = 1..n /\ \A i \in 1..n : p[i] = E(i)
      BY <3>1
    <3>3. p = [i \in 1..n |-> p[i]]
      BY <3>1, <3>2
    <3>4. Len([i \in 1..n |-> E(i)]) = n
      BY <2>2
    <3> QED BY <3>1, <3>2, <3>3, <3>4, Zenon
  <2>4. Ends(d, 0) = 0 /\ Ends(d, n) = L
    BY <2>1, <2>2 DEF Ends, Least, L
  <2> HIDE DEF p
  <2> QED BY <2>2, <2>3, <2>4 DEF L
<1>2. <<"0">> \in Seq(Words) /\ Line(<<"0">>) \in Seq(Units) /\ CrLf \in Seq(Units)
  <2>1. <<"0">> \in Seq(Words)
    BY Literals
  <2> QED BY <2>1, LineType
<1>3. end = Cat(Line(<<"0">>), Footers(d)) /\ end \in Seq(Units)
  <2>1. end = Cat(Line(<<"0">>), Footers(d))
    BY DEF Cat
  <2>2. Footers(d) \in Seq(Units)
    BY FootersLeft
  <2>3. Cat(Line(<<"0">>), Footers(d)) \in Seq(Units)
    BY <1>2, <2>2, CatType
  <2> QED BY <2>1, <2>3
<1>4. ASSUME NEW m \in 0..(Len(p) - 1)
      PROVE  /\ W(m) \in Seq(Units) /\ R(m) \in Seq(Units)
             /\ p[m + 1] = Cat(W(m), Cat(R(m), CrLf)) /\ p[m + 1] \in Seq(Units)
  <2> DEFINE b == Ends(d, m)
  <2> DEFINE e == Ends(d, m + 1)
  <2>1. /\ b \in 0..Len(d.body) /\ e \in 0..Len(d.body) /\ e - b \in 1..2
        /\ p[m + 1] = Line(<<ToString(e - b)>>) \o Line(Rest(First(d.body, e), b))
    BY ChunkEnds
  <2>2. d.body \in Seq(Units) /\ Len(d.body) \in 0..(MaxSize - 1) /\ MaxSize \in Nat
    BY BodySize
  <2> HIDE DEF b, e
  <2>3. e - b \in 0..(MaxSize - 1) /\ b \in 0..e /\ e \in 0..Len(d.body)
    BY <2>1, <2>2
  <2>4. <<ToString(e - b)>> \in Seq(Words)
    <3>1. ToString(e - b) \in Words
      BY <2>3, NumberRead
    <3> QED BY <3>1
  <2>5. Line(<<ToString(e - b)>>) \in Seq(Units)
    BY <2>4, LineType
  <2>6. Rest(First(d.body, e), b) \in Seq(Units)
    BY <2>2, <2>3, Middle
  <2>7. p[m + 1] = Cat(Line(<<ToString(e - b)>>), Cat(Rest(First(d.body, e), b), CrLf))
    BY <2>1, Zenon DEF Line, Cat
  <2>8. Cat(Line(<<ToString(e - b)>>), Cat(Rest(First(d.body, e), b), CrLf)) \in Seq(Units)
    BY <1>2, <2>5, <2>6, CatType
  <2>9. p[m + 1] \in Seq(Units)
    BY <2>7, <2>8, Zenon
  <2> QED BY <2>5, <2>6, <2>7, <2>9, Zenon DEF b, e
<1>5. p \in Seq(Seq(Units))
  <2>1. \A i \in 1..Len(p) : p[i] \in Seq(Units)
    <3> SUFFICES ASSUME NEW i \in 1..Len(p) PROVE p[i] \in Seq(Units)
      OBVIOUS
    <3> HIDE DEF p
    <3>1. i - 1 \in 0..(Len(p) - 1) /\ (i - 1) + 1 = i
      BY <1>1
    <3>2. p[(i - 1) + 1] \in Seq(Units)
      BY <1>4, <3>1
    <3> QED BY <3>1, <3>2, Zenon
  <2> HIDE DEF p
  <2>2. [i \in 1..Len(p) |-> p[i]] \in Seq(Seq(Units))
    BY <1>1, <2>1
  <2> QED BY <1>1, <2>2, Zenon
<1> HIDE DEF end
<1>6. /\ f[Len(p)] = end
      /\ \A n \in 0..(Len(p) - 1) : f[n] = p[n + 1] \o f[n + 1]
      /\ \A n \in 0..Len(p) : f[n] \in Seq(Units)
  <2> HIDE DEF p
  <2>0. end \in Seq(Units) /\ p \in Seq(Seq(Units))
    BY <1>3, <1>5, Zenon
  <2>1. /\ Following(p, end)[Len(p)] = end
        /\ \A n \in 0..(Len(p) - 1) :
             Following(p, end)[n] = p[n + 1] \o Following(p, end)[n + 1]
        /\ \A n \in 0..Len(p) : Following(p, end)[n] \in Seq(Units)
    BY <2>0, FollowingStep
  <2> QED BY <2>1, Zenon DEF ChunksFrom, p, end
<1> HIDE DEF p, f, R, W
<1>7. ASSUME NEW m \in 0..(Len(p) - 1)
      PROVE  f[m] = Cat(W(m), Cat(R(m), Cat(CrLf, f[m + 1])))
  <2>0. m + 1 \in 0..Len(p)
    BY <1>1
  <2>1. f[m + 1] \in Seq(Units)
    BY <1>6, <2>0
  <2>2. f[m] = Cat(p[m + 1], f[m + 1])
    BY <1>6, Zenon DEF Cat
  <2>3. W(m) \in Seq(Units) /\ R(m) \in Seq(Units) /\ p[m + 1] = Cat(W(m), Cat(R(m), CrLf))
    BY <1>4
  <2>4. Cat(R(m), CrLf) \in Seq(Units)
    BY <1>2, <2>3, CatType
  <2>5. f[m] = Cat(W(m), Cat(Cat(R(m), CrLf), f[m + 1]))
    BY <2>1, <2>2, <2>3, <2>4, CatAssoc
  <2>6. Cat(Cat(R(m), CrLf), f[m + 1]) = Cat(R(m), Cat(CrLf, f[m + 1]))
    BY <1>2, <2>1, <2>3, CatAssoc
  <2> QED BY <2>5, <2>6, Zenon
<1>8. f[Len(p)] = Cat(Line(<<"0">>), Footers(d))
  BY <1>3, <1>6
<1> QED BY <1>1, <1>6, <1>7, <1>8, Zenon DEF f, p, R, W

\* A reply is its head and its entity.
LEMMA ReplyShape ==
  ASSUME NEW d, Ordinary(d)
  PROVE  /\ Encode(d) = Cat(HeadFrom(d)[0], Entity(d))
         /\ HeadFrom(d)[0] \in Seq(Units) /\ Entity(d) \in Seq(Units)
         /\ Encode(d) \in Seq(Units) /\ HeaderUnits(d) = Len(HeadFrom(d)[0])
         /\ Len(Encode(d)) = HeaderUnits(d) + Len(Entity(d))
         /\ HeaderUnits(d) \in Nat /\ Len(Entity(d)) \in Nat /\ HeaderUnits(d) > 0
         /\ HasEntity(d) => Entity(d) = IF d.framing = "chunked" THEN ChunksFrom(d)[0] ELSE d.body
         /\ ~HasEntity(d) => Entity(d) = <<>>
<1> DEFINE h == HeadFrom(d)[0]
<1>1. h \in Seq(Units) /\ Len(h) > 0 /\ HeadOf(d) = h
  <2>1. 0 \in 0..5
    OBVIOUS
  <2> QED BY <2>1, HeadLeft
<1>2. HasEntity(d) => Entity(d) = IF d.framing = "chunked" THEN ChunksFrom(d)[0] ELSE d.body
  BY DEF Entity, ChunksFrom
<1>3. ~HasEntity(d) => Entity(d) = <<>>
  BY DEF Entity
<1>4. Entity(d) \in Seq(Units)
  <2>1. d.body \in Seq(Units) /\ <<>> \in Seq(Units)
    BY BodySize
  <2>2. ChunksFrom(d)[0] \in Seq(Units)
    <3>1. 0 \in 0..Len(Chunks(d))
      BY ChunksLeft
    <3> QED BY <3>1, ChunksLeft
  <2> QED BY <1>2, <1>3, <2>1, <2>2
<1> HIDE DEF h
<1>5. Encode(d) = Cat(h, Entity(d))
  <2>1. Interim(d) = <<>>
    BY DEF Interim, Ordinary
  <2>2. Encode(d) = Cat(Cat(<<>>, h), Entity(d))
    BY <1>1, <2>1, Zenon DEF Encode, Cat
  <2>3. Cat(<<>>, h) = h
    BY <1>1, CatEmpty
  <2> QED BY <2>2, <2>3, Zenon
<1>6. Cat(h, Entity(d)) \in Seq(Units) /\ Len(Cat(h, Entity(d))) = Len(h) + Len(Entity(d))
  BY <1>1, <1>4, CatType
<1>7. HeaderUnits(d) = Len(h)
  BY <1>1, Zenon DEF HeaderUnits
<1>8. Len(h) \in Nat /\ Len(Entity(d)) \in Nat
  BY <1>1, <1>4
<1>9. HeaderUnits(d) > 0
  BY <1>1, <1>7
<1>10. Len(Encode(d)) = HeaderUnits(d) + Len(Entity(d)) /\ Encode(d) \in Seq(Units)
  BY <1>5, <1>6, <1>7, Zenon
<1>11. HeaderUnits(d) \in Nat
  BY <1>7, <1>8
<1> QED BY <1>1, <1>2, <1>3, <1>4, <1>5, <1>7, <1>8, <1>9, <1>10, <1>11, Zenon DEF h

-----------------------------------------------------------------------------
(* The stream *)

\* What is sent after i replies is the next one, and what is sent after it.
LEMMA StreamLeft ==
  ASSUME Regular(script)
  PROVE  /\ NumCalls \in Nat /\ \A i \in 1..NumCalls : Ordinary(script.calls[i])
         /\ Stream[NumCalls] = <<>>
         /\ \A i \in 0..NumCalls : Stream[i] \in Seq(Units)
         /\ \A i \in 0..(NumCalls - 1) :
              /\ Stream[i] = Cat(Encode(script.calls[i + 1]), Stream[i + 1])
              /\ Len(Stream[i]) = Len(Encode(script.calls[i + 1])) + Len(Stream[i + 1])
              /\ Len(Stream[i + 1]) < Len(Stream[i])
<1> DEFINE p == [i \in 1..NumCalls |-> Encode(script.calls[i])]
<1>1. script.calls \in Seq(Range(script.calls))
      /\ \A i \in 1..Len(script.calls) : Ordinary(script.calls[i])
  BY DEF Regular
<1>2. NumCalls \in Nat /\ \A i \in 1..NumCalls : Ordinary(script.calls[i])
  <2>1. Len(script.calls) \in Nat
    BY <1>1
  <2> QED BY <1>1, <2>1, Zenon DEF NumCalls
<1>3. \A i \in 1..NumCalls : /\ Encode(script.calls[i]) \in Seq(Units)
                             /\ Len(Encode(script.calls[i])) > 0
  <2> SUFFICES ASSUME NEW i \in 1..NumCalls
               PROVE  Encode(script.calls[i]) \in Seq(Units) /\ Len(Encode(script.calls[i])) > 0
    OBVIOUS
  <2> DEFINE d == script.calls[i]
  <2>1. Ordinary(d)
    BY <1>2
  <2> HIDE DEF d
  <2>2. Encode(d) \in Seq(Units)
    BY <2>1, ReplyShape
  <2>3. /\ Len(Encode(d)) = HeaderUnits(d) + Len(Entity(d))
        /\ HeaderUnits(d) \in Nat /\ Len(Entity(d)) \in Nat /\ HeaderUnits(d) > 0
    BY <2>1, ReplyShape
  <2>4. Len(Encode(d)) > 0
    BY <2>3
  <2> QED BY <2>2, <2>4 DEF d
<1>4. p \in Seq(Seq(Units)) /\ Len(p) = NumCalls
      /\ \A i \in 1..NumCalls : p[i] = Encode(script.calls[i])
  BY <1>2, <1>3
<1>5. /\ Stream[Len(p)] = <<>>
      /\ \A n \in 0..(Len(p) - 1) : Stream[n] = p[n + 1] \o Stream[n + 1]
      /\ \A n \in 0..Len(p) : Stream[n] \in Seq(Units)
  <2>1. Stream = Following(p, <<>>)
    BY DEF Stream
  <2> HIDE DEF p
  <2>2. <<>> \in Seq(Units)
    OBVIOUS
  <2>3. /\ Following(p, <<>>)[Len(p)] = <<>>
        /\ \A n \in 0..(Len(p) - 1) :
             Following(p, <<>>)[n] = p[n + 1] \o Following(p, <<>>)[n + 1]
        /\ \A n \in 0..Len(p) : Following(p, <<>>)[n] \in Seq(Units)
    BY <1>4, <2>2, FollowingStep
  <2> QED BY <2>1, <2>3, Zenon
<1> HIDE DEF p
<1>6. ASSUME NEW i \in 0..(NumCalls - 1)
      PROVE  /\ Stream[i] = Cat(Encode(script.calls[i + 1]), Stream[i + 1])
             /\ Len(Stream[i]) = Len(Encode(script.calls[i + 1])) + Len(Stream[i + 1])
             /\ Len(Stream[i + 1]) < Len(Stream[i])
  <2>1. i + 1 \in 1..NumCalls /\ i + 1 \in 0..NumCalls
    BY <1>2
  <2>2. Stream[i] = Cat(Encode(script.calls[i + 1]), Stream[i + 1])
    BY <1>4, <1>5, <2>1, Zenon DEF Cat
  <2>3. Encode(script.calls[i + 1]) \in Seq(Units) /\ Len(Encode(script.calls[i + 1])) > 0
        /\ Stream[i + 1] \in Seq(Units)
    BY <1>3, <1>4, <1>5, <2>1
  <2>4. Len(Stream[i]) = Len(Encode(script.calls[i + 1])) + Len(Stream[i + 1])
    BY <2>2, <2>3, CatType
  <2>5. Len(Encode(script.calls[i + 1])) \in Nat /\ Len(Stream[i + 1]) \in Nat
    BY <2>3
  <2>6. \A x, y, z : x \in Nat /\ y \in Nat /\ x > 0 /\ z = x + y => y < z
    OBVIOUS
  <2>7. Len(Stream[i + 1]) < Len(Stream[i])
    BY <2>3, <2>4, <2>5, <2>6, Zenon
  <2> QED BY <2>2, <2>4, <2>7
<1>7. Stream[NumCalls] = <<>> /\ \A i \in 0..NumCalls : Stream[i] \in Seq(Units)
  BY <1>4, <1>5
<1> QED BY <1>2, <1>6, <1>7

\* The more replies are sent, the less there is to come.
LEMMA StreamShrinks ==
  ASSUME Regular(script), NEW i \in 0..NumCalls, NEW j \in i..NumCalls
  PROVE  /\ Len(Stream[i]) \in Nat /\ Len(Stream[j]) \in Nat
         /\ Len(Stream[j]) <= Len(Stream[i])
         /\ Len(Stream[j]) = Len(Stream[i]) => i = j
<1> DEFINE len(k) == Len(Stream[k])
<1>1. NumCalls \in Nat
  BY StreamLeft
<1>2. \A k \in 0..NumCalls : len(k) \in Nat
  <2>1. \A k \in 0..NumCalls : Stream[k] \in Seq(Units)
    BY StreamLeft
  <2> QED BY <2>1
<1>3. \A k \in 0..(NumCalls - 1) : len(k + 1) < len(k)
  BY StreamLeft
<1> HIDE DEF len
<1> DEFINE Bad == {k \in i..NumCalls : ~(len(k) <= len(i) /\ (len(k) = len(i) => k = i))}
<1>4. Bad = {}
  <2> SUFFICES ASSUME Bad # {} PROVE FALSE
    OBVIOUS
  <2>1. Bad \subseteq Nat
    BY <1>1
  <2> HIDE DEF Bad
  <2>2. PICK k \in Bad : \A n \in Bad : k <= n
    BY <2>1, LeastNumber
  <2>3. k \in i..NumCalls /\ ~(len(k) <= len(i) /\ (len(k) = len(i) => k = i))
    BY DEF Bad
  <2>4. k # i
    BY <1>2, <2>3
  <2>5. k - 1 \in i..NumCalls /\ k - 1 \in 0..(NumCalls - 1) /\ (k - 1) + 1 = k /\ ~(k <= k - 1)
    BY <1>1, <2>3, <2>4
  <2>6. k - 1 \notin Bad
    BY <2>2, <2>5
  <2>7. len(k - 1) <= len(i)
    BY <2>5, <2>6 DEF Bad
  <2>8. len(k) < len(k - 1)
    BY <1>3, <2>5
  <2>9. len(k) \in Nat /\ len(k - 1) \in Nat /\ len(i) \in Nat
    BY <1>1, <1>2, <2>3, <2>5
  <2> QED BY <2>3, <2>7, <2>8, <2>9
<1>5. j \notin Bad
  BY <1>4
<1>6. j \in 0..NumCalls
  BY <1>1
<1> QED BY <1>2, <1>5, <1>6 DEF len

\* What Typed says of the variables, component by component.
LEMMA TypedParts ==
  ASSUME Typed
  PROVE  /\ conn.line \in Seq(Units) /\ net.wire \in Seq(Units) /\ buf \in Seq(Units)
         /\ net.base \in Nat /\ net.served \in Nat /\ Served \in Nat
         /\ conn.content_length \in 0..Infinite /\ conn.state \in States
         /\ conn.has_body \in BOOLEAN /\ conn.is_chunked \in BOOLEAN
         /\ Len(conn.line) \in Nat /\ c = done + 1
<1>1. /\ conn.line \in Seq(Units) /\ conn.content_length \in 0..Infinite
      /\ conn.state \in States /\ conn.has_body \in BOOLEAN /\ conn.is_chunked \in BOOLEAN
  BY DEF Typed, Conns
<1>2. net.wire \in Seq(Units) /\ net.base \in Nat /\ net.served \in Nat
  BY DEF Typed, Nets
<1>3. buf \in Seq(Units)
  BY DEF Typed
<1>4. Served \in Nat
  BY <1>2 DEF Served
<1>5. Len(conn.line) \in Nat
  BY <1>1
<1> QED BY <1>1, <1>2, <1>3, <1>4, <1>5 DEF c

\* How far the calls, the replies and the server are.
LEMMA Counters ==
  ASSUME Typed, Placed, Regular(script)
  PROVE  /\ NumCalls \in Nat /\ done \in 0..NumCalls /\ sent \in done..NumCalls
         /\ Served \in 0..NumCalls /\ Served <= sent /\ net.base <= done
         /\ net.base \in Nat /\ net.served \in Nat /\ Served = net.base + net.served
<1>1. NumCalls \in Nat
  BY StreamLeft
<1>2. done \in 0..NumCalls /\ sent \in done..NumCalls
  BY DEF Typed
<1>3. net.base <= done /\ Served <= sent
  BY DEF Placed
<1> QED BY <1>1, <1>2, <1>3, TypedParts DEF Served

\* How much the server has not sent
LEMMA UnsentLen ==
  ASSUME Typed, Placed, Regular(script), NEW m \in Seq(Units), Unsent(m)
  PROVE  /\ Len(m) \in Nat /\ Len(m) <= Len(Stream[Served])
         /\ \/ m = Stream[Served]
            \/ /\ Served < sent /\ Len(m) < Len(Stream[Served])
               /\ Len(Stream[Served + 1]) + Len(Entity(script.calls[Served + 1])) < Len(m)
<1>1. NumCalls \in Nat /\ sent \in 0..NumCalls /\ Served \in 0..NumCalls /\ Served <= sent
  BY Counters
<1>2. Len(m) \in Nat
  OBVIOUS
<1>3. CASE m = Stream[Served]
  BY <1>2, <1>3
<1>4. CASE m # Stream[Served]
  <2> DEFINE d == script.calls[Served + 1]
  <2> DEFINE s == Stream[Served + 1]
  <2>1. Served < sent /\ \E n \in 1..(HeaderUnits(d) - 1) : m = Cat(Rest(Encode(d), n), s)
    BY <1>4 DEF Unsent
  <2>2. Served + 1 \in 1..NumCalls /\ Served + 1 \in 0..NumCalls /\ Served \in 0..(NumCalls - 1)
    BY <1>1, <2>1
  <2>3. Ordinary(d) /\ s \in Seq(Units)
    BY <2>2, StreamLeft
  <2>4. Len(Stream[Served]) = Len(Encode(d)) + Len(s)
    BY <2>2, StreamLeft
  <2> HIDE DEF d, s
  <2>5. PICK n \in 1..(HeaderUnits(d) - 1) : m = Cat(Rest(Encode(d), n), s)
    BY <2>1
  <2>6. /\ Encode(d) \in Seq(Units) /\ Len(Encode(d)) = HeaderUnits(d) + Len(Entity(d))
        /\ HeaderUnits(d) \in Nat /\ Len(Entity(d)) \in Nat
    BY <2>3, ReplyShape
  <2>7. n \in 0..Len(Encode(d)) /\ n >= 1 /\ n < HeaderUnits(d)
    BY <2>6
  <2>8. Rest(Encode(d), n) \in Seq(Units) /\ Len(Rest(Encode(d), n)) = Len(Encode(d)) - n
    BY <2>6, <2>7, Halves
  <2>9. Len(m) = Len(Rest(Encode(d), n)) + Len(s)
    BY <2>3, <2>5, <2>8, CatType
  <2>10. Len(s) \in Nat
    BY <2>3
  <2> DEFINE le == Len(Encode(d))
  <2> DEFINE lt == Len(Entity(d))
  <2> DEFINE ls == Len(s)
  <2> DEFINE h == HeaderUnits(d)
  <2>11. /\ Len(m) = le - n + ls /\ le = h + lt /\ h \in Nat /\ lt \in Nat /\ ls \in Nat
         /\ n >= 1 /\ n < h /\ Len(Stream[Served]) = le + ls
    BY <2>4, <2>6, <2>7, <2>8, <2>9, <2>10
  <2> HIDE DEF le, lt, ls, h
  <2>12. Len(m) < Len(Stream[Served]) /\ ls + lt < Len(m)
    BY <2>11
  <2>13. Len(m) <= Len(Stream[Served])
    BY <2>11
  <2> QED BY <1>2, <2>1, <2>12, <2>13, Zenon DEF ls, lt, s, d
<1> QED BY <1>3, <1>4

\* What has come and is not of the replies to i calls is of a reply to a call that
\* has been sent.
LEMMA Owed ==
  ASSUME Typed, Placed, Regular(script), NEW m \in Seq(Units), Unsent(m),
         NEW r \in Seq(Units), r # <<>>, NEW i \in 0..NumCalls, Cat(r, m) = Stream[i]
  PROVE  i < sent
<1>1. NumCalls \in Nat /\ sent \in 0..NumCalls /\ Served \in 0..NumCalls /\ Served <= sent
  BY Counters
<1>2. Len(r) \in Nat /\ Len(r) > 0 /\ Len(m) \in Nat
  OBVIOUS
<1>3. Len(Stream[i]) = Len(r) + Len(m)
  BY CatType
<1> SUFFICES ASSUME i >= sent PROVE FALSE
  BY <1>1
<1>4. CASE m = Stream[Served]
  <2>1. i \in Served..NumCalls
    BY <1>1
  <2>2. Len(Stream[i]) <= Len(m)
    BY <1>1, <1>4, <2>1, StreamShrinks
  <2> QED BY <1>2, <1>3, <2>2
<1>5. CASE m # Stream[Served]
  <2>1. Served < sent
        /\ Len(Stream[Served + 1]) + Len(Entity(script.calls[Served + 1])) < Len(m)
    BY <1>5, UnsentLen
  <2>2. Served + 1 \in 0..NumCalls /\ i \in (Served + 1)..NumCalls /\ Served + 1 \in 1..NumCalls
    BY <1>1, <2>1
  <2>3. Len(Stream[i]) <= Len(Stream[Served + 1]) /\ Len(Stream[Served + 1]) \in Nat
    BY <2>2, StreamShrinks
  <2>4. Len(Entity(script.calls[Served + 1])) \in Nat
    <3>1. Ordinary(script.calls[Served + 1])
      BY <2>2, StreamLeft
    <3> QED BY <3>1, ReplyShape
  <2> DEFINE a == Len(Stream[Served + 1])
  <2> DEFINE b == Len(Entity(script.calls[Served + 1]))
  <2>5. a \in Nat /\ b \in Nat /\ a + b < Len(m) /\ Len(r) + Len(m) <= a
    BY <1>3, <2>1, <2>3, <2>4
  <2> HIDE DEF a, b
  <2> QED BY <1>2, <2>5
<1> QED BY <1>4, <1>5

\* When no more is left than the entity, the server has sent all of this reply.
LEMMA Arrived ==
  ASSUME Typed, Placed, Regular(script), done < sent, NEW m \in Seq(Units), Unsent(m),
         NEW r \in Seq(Units), NEW t \in Seq(Units),
         Len(t) <= Len(Entity(script.calls[c])), Cat(r, m) = Cat(t, Stream[c])
  PROVE  Served >= c /\ Len(m) <= Len(Stream[c])
<1> DEFINE e == Len(Entity(script.calls[c]))
<1>1. /\ NumCalls \in Nat /\ sent \in 0..NumCalls /\ Served \in 0..NumCalls /\ Served <= sent
      /\ done \in 0..NumCalls
  BY Counters
<1>2. c = done + 1 /\ c \in 1..NumCalls /\ c \in 0..NumCalls /\ done \in 0..(NumCalls - 1)
  BY <1>1 DEF c
<1>3. Len(r) \in Nat /\ Len(m) \in Nat /\ Len(t) \in Nat
  OBVIOUS
<1>4. Stream[c] \in Seq(Units) /\ Len(Stream[c]) \in Nat
  <2>1. Stream[c] \in Seq(Units)
    BY <1>2, StreamLeft
  <2> QED BY <2>1
<1>5. Len(r) + Len(m) = Len(t) + Len(Stream[c])
  <2>1. Len(Cat(r, m)) = Len(r) + Len(m)
    BY CatType
  <2>2. Len(Cat(t, Stream[c])) = Len(t) + Len(Stream[c])
    BY <1>4, CatType
  <2> QED BY <2>1, <2>2
<1>6. e \in Nat /\ Len(Stream[done]) > e + Len(Stream[c])
  <2> DEFINE d == script.calls[c]
  <2>1. Ordinary(d) /\ Len(Stream[done]) = Len(Encode(d)) + Len(Stream[c])
    BY <1>2, StreamLeft
  <2> HIDE DEF d
  <2>2. /\ Len(Encode(d)) = HeaderUnits(d) + Len(Entity(d))
        /\ HeaderUnits(d) \in Nat /\ Len(Entity(d)) \in Nat /\ HeaderUnits(d) > 0
    BY <2>1, ReplyShape
  <2>3. Len(Entity(d)) \in Nat /\ Len(Stream[done]) > Len(Entity(d)) + Len(Stream[c])
    BY <1>4, <2>1, <2>2
  <2> QED BY <2>3 DEF d
<1>7. Len(t) <= e
  OBVIOUS
<1> HIDE DEF e
<1>8. Len(m) <= e + Len(Stream[c])
  BY <1>3, <1>4, <1>5, <1>6, <1>7
<1>9. Served >= c
  <2> SUFFICES ASSUME Served <= done PROVE FALSE
    BY <1>1, <1>2
  <2>1. CASE m = Stream[Served]
    <3>1. done \in Served..NumCalls
      BY <1>1
    <3>2. Len(Stream[done]) <= Len(m) /\ Len(Stream[done]) \in Nat
      BY <1>1, <2>1, <3>1, StreamShrinks
    <3> QED BY <1>3, <1>4, <1>6, <1>8, <3>2
  <2>2. CASE m # Stream[Served]
    <3>1. Len(Stream[Served + 1]) + Len(Entity(script.calls[Served + 1])) < Len(m)
      BY <2>2, UnsentLen
    <3>2. CASE Served = done
      <4>1. Len(Stream[c]) + e < Len(m)
        BY <1>2, <3>1, <3>2 DEF e
      <4> QED BY <1>3, <1>4, <1>6, <1>8, <4>1
    <3>3. CASE Served < done
      <4>1. Served + 1 \in 0..NumCalls /\ done \in (Served + 1)..NumCalls
            /\ Served + 1 \in 1..NumCalls
        BY <1>1, <3>3
      <4>2. Len(Stream[done]) <= Len(Stream[Served + 1]) /\ Len(Stream[Served + 1]) \in Nat
            /\ Len(Stream[done]) \in Nat
        BY <4>1, StreamShrinks
      <4>3. Len(Entity(script.calls[Served + 1])) \in Nat
        <5>1. Ordinary(script.calls[Served + 1])
          BY <4>1, StreamLeft
        <5> QED BY <5>1, ReplyShape
      <4> DEFINE a == Len(Stream[Served + 1])
      <4> DEFINE b == Len(Entity(script.calls[Served + 1]))
      <4>4. a \in Nat /\ b \in Nat /\ a + b < Len(m) /\ Len(Stream[done]) <= a
        BY <3>1, <4>2, <4>3
      <4> HIDE DEF a, b
      <4> QED BY <1>3, <1>4, <1>6, <1>8, <4>2, <4>4
    <3> QED BY <1>1, <3>2, <3>3
  <2> QED BY <2>1, <2>2
<1>10. Len(m) <= Len(Stream[c])
  <2>1. Len(m) <= Len(Stream[Served])
    BY UnsentLen
  <2>2. Served \in c..NumCalls
    BY <1>1, <1>2, <1>9
  <2>3. Len(Stream[Served]) <= Len(Stream[c]) /\ Len(Stream[Served]) \in Nat
    BY <1>2, <2>2, StreamShrinks
  <2> QED BY <1>3, <1>4, <2>1, <2>3
<1> QED BY <1>9, <1>10

\* Nothing follows a reply that the end of the connection ends.
LEMMA LastOne ==
  ASSUME Typed, Placed, Regular(script), done < sent, NEW m \in Seq(Units), Unsent(m),
         Served >= c, UntilClosed(script.calls[c])
  PROVE  m = Stream[c] /\ net.eof
<1>1. c \in (net.base + 1)..Served
  BY Counters DEF c
<1>2. m = Stream[Served] /\ (UntilClosed(script.calls[c]) => c = Served /\ net.eof)
  BY <1>1 DEF Unsent
<1> QED BY <1>2

-----------------------------------------------------------------------------
(* The steps of the parser *)

\* Where the parser is
LEMMA Present ==
  ASSUME ParserInv, Regular(script), done < sent, at # "closed"
  PROVE  /\ c \in 1..NumCalls /\ c <= sent /\ Ordinary(script.calls[c])
         /\ DOMAIN calls = 1..NumCalls /\ DOMAIN calls[c] = Fields
         /\ calls[c].header \in Nat /\ calls[c].issued \in Nat /\ calls[c].issued >= 1
         /\ Stream[c] \in Seq(Units)
         /\ \E m, t \in Seq(Units) :
              /\ Unsent(m) /\ Left(script.calls[c], t)
              /\ Cat(conn.line, Cat(buf, Cat(net.wire, m))) = Cat(t, Stream[c])
<1>1. Typed /\ Placed /\ Pending /\ InStep
  BY DEF ParserInv
<1>2. NumCalls \in Nat /\ done \in 0..NumCalls /\ sent \in done..NumCalls
  BY <1>1, Counters
<1>3. c = done + 1 /\ c \in 1..NumCalls /\ c <= sent /\ c \in c..NumCalls /\ done < NumCalls
      /\ c \in 0..NumCalls
  BY <1>2 DEF c
<1>4. Ordinary(script.calls[c]) /\ Stream[c] \in Seq(Units)
  BY <1>3, StreamLeft
<1>5. calls[c].header \in Nat /\ calls[c].issued \in Nat /\ calls[c].issued >= 1
  BY <1>1, <1>3 DEF Pending
<1>6. DOMAIN calls = 1..NumCalls /\ DOMAIN calls[c] = Fields
  BY <1>1, <1>3 DEF Typed
<1>7. \E m, t \in Seq(Units) :
        /\ Unsent(m) /\ Left(script.calls[c], t)
        /\ Cat(conn.line, Cat(buf, Cat(net.wire, m))) = Cat(t, Stream[c])
  BY <1>1, <1>3 DEF InStep
<1> QED BY <1>3, <1>4, <1>5, <1>6, <1>7

\* What get_line, returning g, makes of a line of n units, when the stream is z and
\* then s: it is the words and leaves t, or it is not complete.
LineRead(g, m, n, words, t, z, s) ==
  /\ g.used \in Nat \ {0} /\ g.rest \in Seq(Units)
  /\ \/ /\ g.ok /\ g.line = words /\ g.used = n - Len(conn.line)
        /\ Cat(g.rest, Cat(net.wire, m)) = Cat(t, s)
     \/ /\ ~g.ok /\ g.rest = <<>>
        /\ g.line \in Seq(Units) /\ Len(g.line) = Len(conn.line) + g.used
        /\ Len(g.line) < LineMax /\ \A i \in 1..Len(g.line) : g.line[i] # "lf"
        /\ Cat(g.line, Cat(net.wire, m)) = Cat(z, s)

\* A line that is next in the stream is what get_line returns.
LEMMA LineNext ==
  ASSUME Typed, Placed, buf # <<>>, NEW m \in Seq(Units), NEW g, g = get_line(buf),
         NEW words \in Seq(Words), NEW eol \in {CrLf, <<"lf">>},
         NEW n, n = Len(words) + Len(eol), n <= LineMax,
         NEW t \in Seq(Units), NEW s \in Seq(Units), NEW z, z = Cat(Cat(words, eol), t),
         Cat(conn.line, Cat(buf, Cat(net.wire, m))) = Cat(z, s)
  PROVE  LineRead(g, m, n, words, t, z, s)
<1> DEFINE w == Cat(net.wire, m)
<1> DEFINE l == Cat(words, eol)
<1> DEFINE y == Cat(t, s)
<1>1. conn.line \in Seq(Units) /\ buf \in Seq(Units) /\ net.wire \in Seq(Units)
      /\ \A i \in 1..Len(conn.line) : conn.line[i] # "lf"
  BY TypedParts DEF Placed
<1>2. w \in Seq(Units) /\ y \in Seq(Units)
  BY <1>1, CatType
<1>3. l \in Seq(Units) /\ Len(l) = n
  BY Chopped
<1>4. Cat(Cat(conn.line, buf), w) = Cat(conn.line, Cat(buf, w))
  <2> HIDE DEF w
  <2> QED BY <1>1, <1>2, CatAssoc
<1>5. Cat(z, s) = Cat(l, y)
  <2>1. z = Cat(l, t)
    OBVIOUS
  <2> HIDE DEF l
  <2> QED BY <1>3, <2>1, CatAssoc
<1>6. Cat(Cat(conn.line, buf), w) = Cat(l, y)
  <2>1. Cat(conn.line, Cat(buf, w)) = Cat(z, s)
    OBVIOUS
  <2> HIDE DEF w, l, y
  <2> QED BY <1>4, <1>5, <2>1, Zenon
<1>7. Len(l) <= LineMax
  BY <1>3, Zenon
<1> HIDE DEF w, y
<1>8. /\ g.used \in 1..Len(buf) /\ g.rest \in Seq(Units)
      /\ \/ /\ g.ok /\ g.line = words /\ Cat(g.rest, w) = y
            /\ g.used = Len(l) - Len(conn.line)
         \/ /\ ~g.ok /\ g.rest = <<>> /\ g.line = Cat(conn.line, buf)
            /\ g.line \in Seq(Units) /\ g.used = Len(buf)
            /\ Len(g.line) < LineMax /\ \A i \in 1..Len(g.line) : g.line[i] # "lf"
  <2>1. LineGot(buf, w, words, eol, y)
    BY <1>1, <1>2, <1>6, <1>7, GetLine
  <2> QED BY <2>1, Zenon DEF LineGot
<1> HIDE DEF l
<1>9. g.used \in Nat \ {0}
  BY <1>8
<1>10. CASE g.ok /\ g.line = words /\ Cat(g.rest, w) = y /\ g.used = Len(l) - Len(conn.line)
  BY <1>3, <1>8, <1>9, <1>10, Zenon DEF w, y, LineRead
<1>11. CASE /\ ~g.ok /\ g.rest = <<>> /\ g.line = Cat(conn.line, buf)
            /\ g.line \in Seq(Units) /\ g.used = Len(buf)
            /\ Len(g.line) < LineMax /\ \A i \in 1..Len(g.line) : g.line[i] # "lf"
  <2>1. Len(g.line) = Len(conn.line) + g.used
    <3>1. Len(Cat(conn.line, buf)) = Len(conn.line) + Len(buf)
      BY <1>1, CatType
    <3> QED BY <1>11, <3>1, Zenon
  <2>2. Cat(g.line, w) = Cat(z, s)
    BY <1>5, <1>6, <1>11, Zenon
  <2> QED BY <1>8, <1>9, <1>11, <2>1, <2>2, Zenon DEF w, LineRead
<1> QED BY <1>8, <1>10, <1>11

\* What all steps of the parser have in common: they work on the reply of call c,
\* and stay in step with the stream.
LEMMA Consumed ==
  ASSUME ParserInv, Regular(script), at = "buffer",
         UNCHANGED <<script, sent, done, net, verdict>>,
         conn' \in Conns, Len(conn'.line) < LineMax,
         \A i \in 1..Len(conn'.line) : conn'.line[i] # "lf",
         buf' \in Seq(Units),
         at' = IF buf' = <<>> /\ conn'.state # "DONE" THEN "loop" ELSE "buffer",
         DOMAIN calls' = DOMAIN calls, \A i \in 1..NumCalls : i # c => calls'[i] = calls[i],
         DOMAIN calls'[c] = Fields, calls'[c].header \in Nat,
         calls'[c].issued = calls[c].issued,
         conn'.state \in {"CONNECTED", "STATUS"} => calls'[c] = calls[c] /\ Between,
         conn'.state = "HEADER" => calls'[c].content = <<>> /\ calls'[c].footer = 0,
         NEW d, d = script.calls[c], NEW m \in Seq(Units), Unsent(m),
         NEW t \in Seq(Units), Left(d, t)',
         Cat(conn'.line, Cat(buf', Cat(net.wire, m))) = Cat(t, Stream[c])
  PROVE  ParserInv'
<1>1. Typed /\ Placed /\ Pending /\ InStep /\ \A i \in 1..done : Answered(i)
  BY DEF ParserInv
<1>2. /\ NumCalls \in Nat /\ done \in 0..NumCalls /\ sent \in done..NumCalls /\ done < sent
      /\ Served' = Served /\ NumCalls' = NumCalls /\ Stream' = Stream
      /\ c' = c /\ c = done + 1 /\ c \in 1..NumCalls
  <2>1. NumCalls \in Nat /\ done \in 0..NumCalls /\ sent \in done..NumCalls
    BY <1>1, Counters
  <2>2. done < sent
    BY <1>1 DEF Placed
  <2>3. NumCalls' = NumCalls /\ c' = c /\ c = done + 1 /\ Served' = Served
    BY DEF NumCalls, c, Served
  <2>4. Stream' = Stream
    BY DEF Stream, NumCalls
  <2> QED BY <2>1, <2>2, <2>3, <2>4
<1>3. Between' <=> conn'.state \in {"CONNECTED", "STATUS"}
  BY DEF Between
<1>4. Typed'
  <2>1. DOMAIN calls' = 1..NumCalls /\ \A i \in 1..NumCalls : DOMAIN calls'[i] = Fields
    BY <1>1 DEF Typed
  <2>2. at' \in {"loop", "buffer", "closed"}
    OBVIOUS
  <2> QED BY <1>1, <1>2, <2>1, <2>2 DEF Typed
<1>5. Placed'
  <2>1. at' = "loop" => buf' = <<>>
    OBVIOUS
  <2>2. net'.base <= done' /\ Served' <= sent' /\ done' < sent'
    BY <1>1, <1>2 DEF Placed
  <2>3. ~(conn'.state = "DONE" /\ at' = "loop")
    OBVIOUS
  <2> QED BY <2>1, <2>2, <2>3 DEF Placed
<1>6. Pending'
  <2> SUFFICES ASSUME NEW i \in c..NumCalls
               PROVE  /\ calls'[i].header \in Nat /\ calls'[i].issued \in Nat
                      /\ i <= sent => calls'[i].issued >= 1
                      /\ (i > c \/ Between' \/ conn'.state = "HEADER") =>
                           calls'[i].content = <<>> /\ calls'[i].footer = 0
                      /\ (i > c \/ Between')
                           /\ (calls'[i].issued = 0 \/ (calls'[i].issued = 1 /\ i <= sent)) =>
                           calls'[i].header = 0
    BY <1>2 DEF Pending
  <2>1. /\ calls[i].header \in Nat /\ calls[i].issued \in Nat
        /\ i <= sent => calls[i].issued >= 1
        /\ (i > c \/ Between) => calls[i].content = <<>> /\ calls[i].footer = 0
        /\ (i > c \/ Between) /\ (calls[i].issued = 0 \/ (calls[i].issued = 1 /\ i <= sent)) =>
             calls[i].header = 0
    BY <1>1 DEF Pending
  <2>2. CASE i # c
    <3>1. calls'[i] = calls[i] /\ i > c
      BY <1>2, <2>2
    <3> QED BY <2>1, <3>1
  <2>3. CASE i = c
    <3>1. ~(i > c)
      BY <1>2, <2>3
    <3> QED BY <1>3, <2>1, <2>3, <3>1
  <2> QED BY <2>2, <2>3
<1>7. InStep'
  <2>1. Unsent(m)'
    BY <1>2 DEF Unsent
  <2>2. Left(script.calls[c], t)'
    <3>1. d = (script.calls[c])'
      BY <1>2
    <3> QED BY <3>1
  <2>3. (Cat(conn.line, Cat(buf, Cat(net.wire, m))) = Cat(t, Stream[c]))'
    BY <1>2
  <2> QED BY <2>1, <2>2, <2>3 DEF InStep
<1>8. ASSUME NEW i \in 1..done PROVE Answered(i)'
  <2>1. calls'[i] = calls[i]
    BY <1>2
  <2>2. Answered(i)
    BY <1>1
  <2> QED BY <2>1, <2>2 DEF Answered
<1> QED BY <1>2, <1>4, <1>5, <1>6, <1>7, <1>8 DEF ParserInv

\* Only a reply that the end of the connection ends has no line that tells its length.
LEMMA FramingLine == \A d : HasLine(d, 5) <=> d.framing # "eof"
BY DEF HasLine

\* A reply that sets a cookie has a line for it.
LEMMA CookieLine == \A d : HasLine(d, 3) <=> d.cookie # ""
BY DEF HasLine

\* What is left after k lines of a head begins with the next one, if there is one.
LEMMA HeadNext ==
  ASSUME NEW d, Ordinary(d), NEW k \in 0..4, HasLine(d, k + 1)
  PROVE  /\ Cat(HeadFrom(d)[k], Entity(d))
              = Cat(Cat(HeadWords(d, k + 1), CrLf), Cat(HeadFrom(d)[k + 1], Entity(d)))
         /\ HeadWords(d, k + 1) \in Seq(Words) /\ Len(HeadWords(d, k + 1)) = 2
         /\ Len(CrLf) = 2 /\ Cat(HeadFrom(d)[k + 1], Entity(d)) \in Seq(Units)
         /\ Len(HeadFrom(d)[k]) = Len(HeadFrom(d)[k + 1]) + 4
         /\ Len(HeadFrom(d)[k + 1]) \in Nat /\ Len(HeadFrom(d)[k + 1]) > 0
<1> DEFINE w == HeadWords(d, k + 1)
<1> DEFINE h == HeadFrom(d)[k]
<1> DEFINE r == HeadFrom(d)[k + 1]
<1> DEFINE l == Cat(w, CrLf)
<1>1. k + 1 \in 1..5 /\ k \in 0..5 /\ k + 1 \in 0..5
  OBVIOUS
<1>2. w \in Seq(Words) /\ Len(w) = 2 /\ HeadLines(d)[k + 1] = Line(w)
  BY <1>1, HeadShape
<1>3. /\ l = Line(w) /\ l \in Seq(Units) /\ Len(l) = Len(w) + 2 /\ Len(CrLf) = 2
      /\ w \in Seq(Units) /\ CrLf \in Seq(Units)
  BY <1>2, LineType
<1>4. h = Cat(l, r)
  BY <1>2, <1>3, HeadLeft
<1>5. r \in Seq(Units) /\ Len(r) > 0
  BY <1>1, HeadLeft
<1>6. Entity(d) \in Seq(Units)
  BY ReplyShape
<1> HIDE DEF w, h, r, l
<1>7. Cat(h, Entity(d)) = Cat(l, Cat(r, Entity(d)))
  BY <1>3, <1>4, <1>5, <1>6, CatAssoc
<1>8. Len(h) = Len(l) + Len(r)
  BY <1>3, <1>4, <1>5, CatType
<1>9. Len(r) \in Nat
  BY <1>5
<1>10. Len(h) = Len(r) + 4
  BY <1>2, <1>3, <1>8, <1>9
<1>11. Cat(r, Entity(d)) \in Seq(Units)
  BY <1>5, <1>6, CatType
<1> QED BY <1>2, <1>3, <1>5, <1>7, <1>9, <1>10, <1>11, Zenon DEF w, h, r, l

\* parse_status_line takes the status line of the reply of call c.
LEMMA StatusLineStep ==
  ASSUME ParserInv, Regular(script), LineMax >= 4, parse_status_line
  PROVE  ParserInv'
<1>1. PICK d : d = script.calls[c]
  OBVIOUS
<1>2. Typed /\ Placed /\ Pending
  <2>1. at = "buffer"
    BY DEF parse_status_line, Parsing
  <2> QED BY <2>1 DEF ParserInv
<1>3. /\ at = "buffer" /\ buf # <<>> /\ conn.state = "STATUS" /\ done < sent
      /\ Between
  BY <1>2 DEF parse_status_line, Parsing, Between, Placed
<1>4. /\ c \in 1..NumCalls /\ c <= sent /\ Ordinary(d)
      /\ DOMAIN calls = 1..NumCalls /\ DOMAIN calls[c] = Fields
      /\ calls[c].header \in Nat /\ calls[c].issued \in Nat /\ calls[c].issued >= 1
      /\ Stream[c] \in Seq(Units)
  BY <1>1, <1>3, Present
<1>5. PICK m \in Seq(Units), t \in Seq(Units) :
        /\ Unsent(m) /\ Left(d, t)
        /\ Cat(conn.line, Cat(buf, Cat(net.wire, m))) = Cat(t, Stream[c])
  BY <1>1, <1>3, Present
<1> DEFINE w == HeadWords(d, 1)
<1> DEFINE T == Cat(HeadFrom(d)[1], Entity(d))
<1> DEFINE lh == Len(HeadFrom(d)[1])
<1>6. t = Encode(d)
  BY <1>3, <1>5 DEF Left
<1>7. /\ t = Cat(Cat(w, CrLf), T) /\ w \in Seq(Words) /\ Len(w) = 2 /\ Len(CrLf) = 2
      /\ T \in Seq(Units) /\ Len(HeadFrom(d)[0]) = lh + 4 /\ lh \in Nat
  <2>1. 0 \in 0..4 /\ 0 + 1 = 1
    OBVIOUS
  <2>2. HasLine(d, 0 + 1)
    BY DEF HasLine
  <2>3. /\ Cat(HeadFrom(d)[0], Entity(d))
              = Cat(Cat(HeadWords(d, 0 + 1), CrLf), Cat(HeadFrom(d)[0 + 1], Entity(d)))
        /\ HeadWords(d, 0 + 1) \in Seq(Words) /\ Len(HeadWords(d, 0 + 1)) = 2
        /\ Len(CrLf) = 2 /\ Cat(HeadFrom(d)[0 + 1], Entity(d)) \in Seq(Units)
        /\ Len(HeadFrom(d)[0]) = Len(HeadFrom(d)[0 + 1]) + 4
        /\ Len(HeadFrom(d)[0 + 1]) \in Nat /\ Len(HeadFrom(d)[0 + 1]) > 0
    BY <1>4, <2>1, <2>2, HeadNext
  <2>4. Encode(d) = Cat(HeadFrom(d)[0], Entity(d))
    BY <1>4, ReplyShape
  <2> QED BY <1>6, <2>1, <2>3, <2>4, Zenon
<1>8. w = <<"HTTP/1.1", d.status>>
  BY DEF HeadWords
<1> HIDE DEF w
<1>9. PICK g : g = get_line(buf)
  OBVIOUS
<1>10. LineRead(g, m, 4, w, T, t, Stream[c])
  <2>1. 4 = Len(w) + Len(CrLf)
    BY <1>7
  <2>2. CrLf \in {CrLf, <<"lf">>}
    OBVIOUS
  <2> HIDE DEF T
  <2> QED BY <1>3, <1>4, <1>5, <1>7, <1>9, <1>2, <2>1, <2>2, LineNext
<1> HIDE DEF T
<1>20. g.used \in Nat \ {0} /\ g.rest \in Seq(Units)
  BY <1>10 DEF LineRead
<1>11. /\ UNCHANGED <<script, sent, done, net, verdict>> /\ buf' = g.rest
       /\ at' = IF buf' = <<>> /\ conn'.state # "DONE" THEN "loop" ELSE "buffer"
  BY <1>9 DEF parse_status_line, Consume
<1> DEFINE fresh == [conn EXCEPT !.is_chunked = FALSE, !.content_length = Infinite]
<1>12. conn \in Conns /\ Infinite \in 0..Infinite
  <2>1. Infinite \in Nat
    BY SizesAssumption DEF Infinite
  <2> QED BY <1>2, <2>1 DEF Typed
<1>13. CASE g.ok
  <2>1. /\ g.line = w /\ g.used = 4 - Len(conn.line)
        /\ Cat(g.rest, Cat(net.wire, m)) = Cat(T, Stream[c])
    BY <1>10, <1>13 DEF LineRead
  <2>2. StatusOf(g.line) = {d.status} /\ Reported(g.line) = d.status
    BY <1>8, <2>1 DEF StatusOf, Reported
  <2>3. d.status \notin Informational /\ d.status # "100"
    BY <1>4 DEF Ordinary, Informational
  <2>0. PICK body \in BOOLEAN : body <=> HasEntity(d)
    OBVIOUS
  <2>4. BodyExpected(Method, d.status) = body
    BY <1>1, <2>0, <2>3 DEF BodyExpected, Method, HasEntity, NoBody
  <2>5. /\ conn' = [fresh EXCEPT !.has_body = body, !.state = "HEADER", !.line = <<>>]
        /\ calls' = [calls EXCEPT ![c].status = d.status, ![c].header = @ + g.used]
        /\ UNCHANGED cookie
    BY <1>9, <1>13, <2>2, <2>3, <2>4 DEF parse_status_line
  <2>6. /\ conn' \in Conns /\ conn'.state = "HEADER" /\ conn'.line = <<>>
        /\ conn'.has_body = body /\ conn'.is_chunked = FALSE
        /\ conn'.content_length = Infinite
    <3>1. "HEADER" \in States
      BY DEF States
    <3>2. /\ fresh \in Conns /\ fresh.is_chunked = FALSE /\ fresh.content_length = Infinite
      BY <1>12 DEF Conns
    <3> HIDE DEF fresh
    <3>3. <<>> \in Seq(Units)
      OBVIOUS
    <3>4. conn' \in Conns
      BY <2>5, <3>1, <3>2, <3>3 DEF Conns
    <3>5. /\ conn'.state = "HEADER" /\ conn'.line = <<>> /\ conn'.has_body = body
          /\ conn'.is_chunked = fresh.is_chunked
          /\ conn'.content_length = fresh.content_length
      BY <2>5, <3>2 DEF Conns
    <3> QED BY <3>2, <3>4, <3>5
  <2>7. /\ DOMAIN calls' = DOMAIN calls /\ DOMAIN calls'[c] = Fields
        /\ \A i \in 1..NumCalls : i # c => calls'[i] = calls[i]
        /\ calls'[c].header = calls[c].header + g.used /\ calls'[c].status = d.status
        /\ calls'[c].issued = calls[c].issued
        /\ calls'[c].content = calls[c].content /\ calls'[c].footer = calls[c].footer
    BY <1>4, <2>5 DEF Fields
  <2>8. /\ calls[c].content = <<>> /\ calls[c].footer = 0
        /\ calls[c].issued = 1 => calls[c].header = 0
    <3>1. c \in c..NumCalls
      BY <1>4
    <3> QED BY <1>2, <1>3, <1>4, <3>1 DEF Pending
  <2>9. Counted(d, Len(HeadFrom(d)[1]) - Len(conn.line))'
    <3>1. calls'[c].header > 0 /\ calls'[c].header \in Nat
      BY <1>4, <1>20, <2>7
    <3>2. calls[c].issued = 1 => calls'[c].header <= 4
      <4>1. Len(conn.line) \in Nat
        BY <1>2, TypedParts
      <4> QED BY <1>20, <2>1, <2>7, <2>8, <4>1
    <3>3. Len(conn'.line) = 0 /\ c' = c
      BY <1>11, <2>6 DEF c
    <3>4. Len(HeadFrom(d)[1]) - (Len(HeadFrom(d)[1]) - Len(conn'.line)) = 0
          /\ Len(HeadFrom(d)[0]) - (Len(HeadFrom(d)[1]) - Len(conn'.line)) = 4
      <4> HIDE DEF lh
      <4>1. lh \in Nat /\ Len(HeadFrom(d)[0]) = lh + 4
        BY <1>7
      <4>2. lh - (lh - Len(conn'.line)) = 0 /\ (lh + 4) - (lh - Len(conn'.line)) = 4
        BY <3>3, <4>1
      <4> QED BY <4>1, <4>2, Zenon DEF lh
    <3> QED BY <2>7, <3>1, <3>2, <3>3, <3>4, Zenon DEF Counted
  <2>10. Told(d, 1)'
    BY <2>0, <2>6 DEF Told
  <2>11. Left(d, T)'
    <3>1. InHead(d, T)'
      <4>1. 1 \in 1..5
        OBVIOUS
      <4> QED BY <2>9, <2>10, <4>1, Zenon DEF InHead, T
    <3> QED BY <2>6, <3>1 DEF Left
  <2>12. Cat(conn'.line, Cat(buf', Cat(net.wire, m))) = Cat(T, Stream[c])
    <3>1. Cat(g.rest, Cat(net.wire, m)) \in Seq(Units)
      BY <1>2, <1>20, TypedParts, CatType
    <3> QED BY <1>11, <2>1, <2>6, <3>1, CatEmpty
  <2>13. Len(conn'.line) < LineMax /\ \A i \in 1..Len(conn'.line) : conn'.line[i] # "lf"
    BY <2>6, SizesAssumption
  <2>14. calls'[c].header \in Nat
    BY <1>4, <1>20, <2>7
  <2>15. buf' \in Seq(Units)
    BY <1>20, <1>11
  <2>16. conn'.state \notin {"CONNECTED", "STATUS"}
    BY <2>6
  <2> QED BY <1>1, <1>3, <1>5, <1>7, <1>11, <2>6, <2>7, <2>8, <2>11, <2>12, <2>13, <2>14,
             <2>15, <2>16, Consumed
<1>14. CASE ~g.ok
  <2>1. /\ g.rest = <<>> /\ g.line \in Seq(Units) /\ Len(g.line) < LineMax
        /\ \A i \in 1..Len(g.line) : g.line[i] # "lf"
        /\ Cat(g.line, Cat(net.wire, m)) = Cat(t, Stream[c])
    BY <1>10, <1>14 DEF LineRead
  <2>2. conn' = [fresh EXCEPT !.line = g.line] /\ UNCHANGED calls
    BY <1>9, <1>14 DEF parse_status_line
  <2>3. conn' \in Conns /\ conn'.state = "STATUS" /\ conn'.line = g.line
    BY <1>3, <1>12, <2>1, <2>2 DEF Conns
  <2>4. Left(d, t)'
    BY <1>6, <2>3 DEF Left, Between
  <2>5. Cat(conn'.line, Cat(buf', Cat(net.wire, m))) = Cat(t, Stream[c])
    <3>1. Cat(net.wire, m) \in Seq(Units)
      BY <1>2, TypedParts, CatType
    <3> QED BY <1>11, <2>1, <2>3, <3>1, CatEmpty
  <2>6. Len(conn'.line) < LineMax /\ \A i \in 1..Len(conn'.line) : conn'.line[i] # "lf"
    BY <2>1, <2>3
  <2>7. buf' \in Seq(Units)
    BY <1>20, <1>11
  <2> QED BY <1>1, <1>3, <1>4, <1>5, <1>11, <2>2, <2>3, <2>4, <2>5, <2>6, <2>7, Consumed
<1> QED BY <1>13, <1>14

\* The first none and the first all units of a sequence.
LEMMA Ends0 ==
  \A s \in Seq(Units) : /\ First(s, 0) = <<>> /\ Rest(s, 0) = s
                        /\ First(s, Len(s)) = s /\ Rest(s, Len(s)) = <<>>
<1> TAKE s \in Seq(Units)
<1>1. First(s, 0) = <<>> /\ Rest(s, Len(s)) = <<>>
  <2>1. 0 \in 0..Len(s) /\ Len(s) \in 0..Len(s) /\ Len(s) - Len(s) = 0
    OBVIOUS
  <2>2. First(s, 0) \in Seq(Units) /\ Len(First(s, 0)) = 0
    BY <2>1, Halves
  <2>3. Rest(s, Len(s)) \in Seq(Units) /\ Len(Rest(s, Len(s))) = 0
    BY <2>1, Halves
  <2>4. \A q \in Seq(Units) : Len(q) = 0 => q = <<>>
    OBVIOUS
  <2> QED BY <2>2, <2>3, <2>4
<1>2. First(s, Len(s)) = s
  BY SubSeqFull DEF First
<1>3. Rest(s, 0) = s
  <2>1. 0 \in 0..Len(s)
    OBVIOUS
  <2>2. s = Cat(First(s, 0), Rest(s, 0)) /\ Rest(s, 0) \in Seq(Units)
    BY <2>1, Halves
  <2> QED BY <1>1, <2>2, CatEmpty
<1> QED BY <1>1, <1>2, <1>3

\* The header units that are counted are those that have been taken.
LEMMA CountOn ==
  ASSUME NEW d, Ordinary(d), NEW x \in Int, NEW u \in Int, NEW y \in Int, y = x - u,
         Counted(d, x), c' = c, calls[c].header \in Nat,
         calls'[c].status = calls[c].status, calls'[c].issued = calls[c].issued,
         calls'[c].header = calls[c].header + u
  PROVE  Counted(d, y)'
<1> DEFINE l1 == Len(HeadFrom(d)[1])
<1> DEFINE l0 == Len(HeadFrom(d)[0])
<1>1. l1 \in Nat /\ l0 \in Nat
  <2>1. 1 \in 0..5 /\ 0 \in 0..5
    OBVIOUS
  <2>2. HeadFrom(d)[1] \in Seq(Units) /\ HeadFrom(d)[0] \in Seq(Units)
    BY <2>1, HeadLeft
  <2> QED BY <2>2
<1>2. /\ calls[c].status = d.status /\ calls[c].header > l1 - x
      /\ calls[c].issued = 1 => calls[c].header <= l0 - x
  BY Zenon DEF Counted
<1> HIDE DEF l1, l0
<1>3. calls'[c].header > l1 - y /\ (calls'[c].issued = 1 => calls'[c].header <= l0 - y)
  BY <1>1, <1>2
<1>4. calls'[c].status = d.status
  BY <1>2
<1> QED BY <1>3, <1>4, Zenon DEF Counted, l1, l0

\* In a head, the parser is before a line that is there, or before its end.
LEMMA HeadPlace ==
  ASSUME NEW d, Ordinary(d), NEW t, InHead(d, t)
  PROVE  \E k \in 1..5 :
           /\ k = 5 \/ HasLine(d, k + 1)
           /\ t = Cat(HeadFrom(d)[k], Entity(d))
           /\ Counted(d, Len(HeadFrom(d)[k]) - Len(conn.line))
           /\ Told(d, k)
<1> DEFINE P(k) == /\ t = Cat(HeadFrom(d)[k], Entity(d))
                   /\ Counted(d, Len(HeadFrom(d)[k]) - Len(conn.line))
                   /\ Told(d, k)
<1>1. ASSUME NEW k \in 1..4, P(k), ~HasLine(d, k + 1) PROVE P(k + 1)
  <2>1. k + 1 \in 1..5 /\ k \in 0..4 /\ k + 1 \in 0..5
    OBVIOUS
  <2>2. HeadLines(d)[k + 1] = <<>>
    BY <1>1, <2>1, HeadShape
  <2>3. HeadFrom(d)[k] = HeadFrom(d)[k + 1]
    <3>1. HeadFrom(d)[k] = Cat(HeadLines(d)[k + 1], HeadFrom(d)[k + 1])
      BY <2>1, HeadLeft
    <3>2. HeadFrom(d)[k + 1] \in Seq(Units)
      BY <2>1, HeadLeft
    <3> QED BY <2>2, <3>1, <3>2, CatEmpty
  <2>4. Told(d, k + 1)
    <3>0. Told(d, k) /\ ~HasLine(d, k + 1)
      BY <1>1
    <3>1. CASE k = 4
      <4>1. HasLine(d, 5) <=> d.framing # "eof"
        BY DEF HasLine
      <4>2. 4 + 1 = 5
        OBVIOUS
      <4>3. Told(d, 4) /\ d.framing = "eof"
        BY <3>0, <3>1, <4>1, <4>2, Zenon
      <4>5. 4 # 5 /\ 5 = 5 /\ 4 >= 3 /\ 5 >= 3 /\ "eof" # "length" /\ "eof" # "chunked"
        OBVIOUS
      <4>4. Told(d, 5)
        BY <4>3, <4>5, Zenon DEF Told
      <4> QED BY <3>1, <4>2, <4>4, Zenon
    <3>2. CASE k = 2
      <4>1. HasLine(d, 3) <=> d.cookie # ""
        BY DEF HasLine
      <4>2. 2 + 1 = 3
        OBVIOUS
      <4>3. Told(d, 2) /\ d.cookie = ""
        BY <3>0, <3>2, <4>1, <4>2, Zenon
      <4>5. 2 # 5 /\ 3 # 5
        OBVIOUS
      <4>4. Told(d, 3)
        BY <4>3, <4>5, Zenon DEF Told
      <4> QED BY <3>2, <4>2, <4>4, Zenon
    <3>3. CASE k = 1
      <4>1. Told(d, 1)
        BY <3>0, <3>3, Zenon
      <4>2. Told(d, 2)
        BY <4>1 DEF Told
      <4>3. 1 + 1 = 2
        OBVIOUS
      <4> QED BY <3>3, <4>2, <4>3, Zenon
    <3>4. CASE k = 3
      <4>1. Told(d, 3)
        BY <3>0, <3>4, Zenon
      <4>4. 3 # 5 /\ 4 # 5 /\ 3 >= 3
        OBVIOUS
      <4>2. Told(d, 4)
        BY <4>1, <4>4, Zenon DEF Told
      <4>3. 3 + 1 = 4
        OBVIOUS
      <4> QED BY <3>4, <4>2, <4>3, Zenon
    <3>5. k = 1 \/ k = 2 \/ k = 3 \/ k = 4
      OBVIOUS
    <3> QED BY <3>1, <3>2, <3>3, <3>4, <3>5
  <2> QED BY <1>1, <2>3, <2>4, Zenon
<1>2. PICK k \in 1..5 : P(k)
  BY DEF InHead
<1> HIDE DEF P
<1> DEFINE Q == \E n \in 1..5 : (n = 5 \/ HasLine(d, n + 1)) /\ P(n)
<1>3. P(5) => Q
  <2>1. 5 \in 1..5
    OBVIOUS
  <2> QED BY <2>1, Zenon
<1>4. P(4) => Q
  <2>1. 4 \in 1..4 /\ 4 \in 1..5 /\ 4 + 1 = 5
    OBVIOUS
  <2> QED BY <1>1, <1>3, <2>1, Zenon
<1>5. P(3) => Q
  <2>1. 3 \in 1..4 /\ 3 \in 1..5 /\ 3 + 1 = 4
    OBVIOUS
  <2> QED BY <1>1, <1>4, <2>1, Zenon
<1>6. P(2) => Q
  <2>1. 2 \in 1..4 /\ 2 \in 1..5 /\ 2 + 1 = 3
    OBVIOUS
  <2> QED BY <1>1, <1>5, <2>1, Zenon
<1>7. P(1) => Q
  <2>1. 1 \in 1..4 /\ 1 \in 1..5 /\ 1 + 1 = 2
    OBVIOUS
  <2> QED BY <1>1, <1>6, <2>1, Zenon
<1>8. Q
  <2>1. k = 1 \/ k = 2 \/ k = 3 \/ k = 4 \/ k = 5
    OBVIOUS
  <2> QED BY <1>2, <1>3, <1>4, <1>5, <1>6, <1>7, <2>1, Zenon
<1> QED BY <1>8, Zenon DEF P

\* How long a head is, and what it is without its status line.
LEMMA StatusUnits ==
  ASSUME NEW d, Ordinary(d)
  PROVE  /\ HeaderUnits(d) = Len(HeadFrom(d)[0])
         /\ HeaderUnits(d) - Len(StatusLine(d)) = Len(HeadFrom(d)[1])
         /\ HeaderUnits(d) - 0 = HeaderUnits(d)
         /\ Len(HeadFrom(d)[1]) - 0 = Len(HeadFrom(d)[1])
         /\ Len(HeadFrom(d)[1]) \in Nat
<1> DEFINE l0 == Len(HeadFrom(d)[0])
<1> DEFINE l1 == Len(HeadFrom(d)[1])
<1>1. HeaderUnits(d) = l0
  BY ReplyShape
<1>2. 0 \in 0..4 /\ 0 + 1 = 1 /\ 1 \in 1..5 /\ HasLine(d, 1)
  BY DEF HasLine
<1>3. l0 = l1 + 4 /\ l1 \in Nat
  <2>1. /\ Len(HeadFrom(d)[0]) = Len(HeadFrom(d)[0 + 1]) + 4
        /\ Len(HeadFrom(d)[0 + 1]) \in Nat
    BY <1>2, HeadNext
  <2> QED BY <1>2, <2>1, Zenon
<1>4. Len(StatusLine(d)) = 4
  <2>1. HeadWords(d, 1) \in Seq(Words) /\ Len(HeadWords(d, 1)) = 2
    BY <1>2, HeadShape
  <2>2. Len(Line(HeadWords(d, 1))) = 2 + 2
    BY <2>1, LineType
  <2>3. StatusLine(d) = Line(HeadWords(d, 1))
    BY HeadLeft
  <2> QED BY <2>2, <2>3
<1> HIDE DEF l0, l1
<1>5. l0 - Len(StatusLine(d)) = l1 /\ l0 - 0 = l0 /\ l1 - 0 = l1
  BY <1>3, <1>4
<1> QED BY <1>1, <1>3, <1>5, Zenon DEF l0, l1

\* The end of a head is followed by the entity, or is the end of the reply.
LEMMA HeadEnds ==
  ASSUME NEW d, Ordinary(d), conn \in Conns, Told(d, 5), conn.state = "HEADER",
         conn' = EndOfHeaders([conn EXCEPT !.line = <<>>]), c' = c,
         d = script.calls[c], script' = script, cookie' = cookie,
         calls'[c].content = <<>>, calls'[c].footer = 0, Counted(d, 0)',
         at' = "buffer" \/ conn'.state # "DONE"
  PROVE  /\ Left(d, Entity(d))' /\ conn' \in Conns /\ conn'.line = <<>>
         /\ conn'.state \in {"DATA", "CHUNKED", "DONE"}
<1> DEFINE s == [conn EXCEPT !.line = <<>>]
<1>1. /\ s \in Conns /\ s.line = <<>> /\ s.state = "HEADER" /\ s.has_body = conn.has_body
      /\ s.is_chunked = conn.is_chunked /\ s.content_length = conn.content_length
  <2>1. <<>> \in Seq(Units)
    OBVIOUS
  <2> QED BY <2>1 DEF Conns
<1>2. conn' = EndOfHeaders(s)
  OBVIOUS
<1> HIDE DEF s
<1>3. /\ s.has_body <=> HasEntity(d) /\ ~(d.framing = "length" /\ d.body = <<>>)
      /\ s.is_chunked <=> d.framing = "chunked"
      /\ s.content_length = IF d.framing = "length" THEN Len(d.body) ELSE Infinite
      /\ d.cookie # "" => cookie = <<d.cookie>>
  <2>1. 5 = 5 /\ 5 >= 3
    OBVIOUS
  <2> QED BY <1>1, <2>1, Zenon DEF Told
<1>4. {"DATA", "CHUNKED", "DONE"} \subseteq States /\ 0 \in 0..Infinite /\ Infinite \in Nat
  <2>1. Infinite \in Nat
    BY SizesAssumption DEF Infinite
  <2> QED BY <2>1 DEF States
<1>5. d.body \in Seq(Units) /\ Len(d.body) \in Nat /\ Len(d.body) < Infinite
  BY BodySize
<1>6. Begun(d)' /\ Len(calls'[c].content) = 0
  <2>1. Len(calls'[c].content) = 0 /\ First(d.body, 0) = <<>>
    BY <1>5, Ends0
  <2>2. 0 \in 0..Len(d.body)
    BY <1>5
  <2> QED BY <2>1, <2>2 DEF Begun, Content
<1>7. Len(Entity(d)) <= Len(Entity(d))
  BY ReplyShape
<1>8. CASE s.has_body /\ s.is_chunked
  <2>1. conn' = [s EXCEPT !.content_length = 0, !.state = "CHUNKED"]
    BY <1>2, <1>8 DEF EndOfHeaders
  <2>2. conn' \in Conns /\ conn'.line = <<>> /\ conn'.state = "CHUNKED"
        /\ conn'.content_length = 0
    BY <1>1, <1>4, <2>1 DEF Conns
  <2>3. HasEntity(d) /\ d.framing = "chunked" /\ Entity(d) = ChunksFrom(d)[0]
    BY <1>3, <1>8, ReplyShape
  <2>4. InChunks(d, Entity(d))'
    <3>1. 0 \in 0..Len(Chunks(d)) /\ conn'.content_length = Ends(d, 0)
      BY <2>2, ChunksLeft
    <3>2. Len(calls'[c].content) = conn'.content_length
      BY <1>6, <2>2
    <3> QED BY <1>6, <2>3, <3>1, <3>2, Zenon DEF InChunks, Content
  <2>5. PastHead(d)'
    BY <1>3, <2>3 DEF PastHead
  <2>6. calls'[c'].footer = 0
    OBVIOUS
  <2> QED BY <1>7, <2>2, <2>4, <2>5, <2>6, Zenon DEF Left
<1>9. CASE s.has_body /\ ~s.is_chunked
  <2>1. conn' = [s EXCEPT !.state = "DATA"]
    BY <1>2, <1>9 DEF EndOfHeaders
  <2>2. conn' \in Conns /\ conn'.line = <<>> /\ conn'.state = "DATA"
        /\ conn'.content_length = s.content_length
    BY <1>1, <1>4, <2>1 DEF Conns
  <2>3. /\ HasEntity(d) /\ d.framing # "chunked" /\ Entity(d) = d.body
        /\ ~(d.framing = "length" /\ d.body = <<>>)
    BY <1>3, <1>9, ReplyShape
  <2>4. d.framing \in {"length", "eof"}
    BY <2>3 DEF Ordinary
  <2>5. InData(d, Entity(d))'
    <3>1. Entity(d) = Rest(d.body, Len(calls'[c].content))
      BY <1>5, <1>6, <2>3, Ends0
    <3>2. \/ d.framing = "length" /\ conn'.content_length = Len(d.body)
          \/ d.framing = "eof" /\ conn'.content_length = Infinite
      BY <1>3, <2>2, <2>4
    <3>3. Len(calls'[c].content) < conn'.content_length
      <4>1. CASE d.framing = "length"
        <5>1. d.body # <<>>
          BY <2>3, <4>1
        <5>2. Len(d.body) > 0
          BY <1>5, <5>1
        <5> QED BY <1>6, <3>2, <4>1, <5>2
      <4>2. CASE d.framing = "eof"
        BY <1>4, <1>5, <1>6, <3>2, <4>2
      <4> QED BY <2>4, <4>1, <4>2
    <3> QED BY <1>6, <2>2, <3>1, <3>2, <3>3, Zenon DEF InData, Content
  <2>6. PastHead(d)'
    BY <1>3, <2>3 DEF PastHead
  <2>7. calls'[c'].footer = 0
    OBVIOUS
  <2> QED BY <1>7, <2>2, <2>5, <2>6, <2>7, Zenon DEF Left
<1>10. CASE ~s.has_body
  <2>1. conn' = [s EXCEPT !.state = "DONE"]
    <3>1. conn' = [s EXCEPT !.state = IF @ = "CONTINUE" THEN "HEADER" ELSE "DONE"]
      BY <1>2, <1>10 DEF EndOfHeaders
    <3> QED BY <1>1, <3>1
  <2>2. conn' \in Conns /\ conn'.line = <<>> /\ conn'.state = "DONE"
    BY <1>1, <1>4, <2>1 DEF Conns
  <2>3. ~HasEntity(d) \/ (d.framing = "length" /\ d.body = <<>>)
    BY <1>3, <1>10
  <2>4. Entity(d) = <<>> /\ (IF HasEntity(d) THEN d.body ELSE <<>>) = <<>>
        /\ (IF HasEntity(d) THEN Len(Footers(d)) ELSE 0) = 0
    <3>1. CASE ~HasEntity(d)
      BY <3>1, ReplyShape
    <3>2. CASE HasEntity(d) /\ d.framing = "length" /\ d.body = <<>>
      <4>1. Footers(d) = <<>> /\ Entity(d) = d.body
        BY <3>2, FootersLeft, ReplyShape
      <4> QED BY <3>2, <4>1
    <3> QED BY <2>3, <3>1, <3>2
  <2>5. Answered(c)'
    <3>1. /\ calls'[c].status = d.status
          /\ calls'[c].header > Len(HeadFrom(d)[1]) - 0
          /\ calls'[c].issued = 1 => calls'[c].header <= Len(HeadFrom(d)[0]) - 0
      BY Zenon DEF Counted
    <3>2. /\ HeaderUnits(d) = Len(HeadFrom(d)[0])
          /\ HeaderUnits(d) - Len(StatusLine(d)) = Len(HeadFrom(d)[1])
          /\ HeaderUnits(d) - 0 = HeaderUnits(d)
          /\ Len(HeadFrom(d)[1]) - 0 = Len(HeadFrom(d)[1])
      BY StatusUnits
    <3> QED BY <2>4, <3>1, <3>2, Zenon DEF Answered
  <2> QED BY <1>3, <2>2, <2>4, <2>5 DEF Left
<1> QED BY <1>8, <1>9, <1>10

\* The reply d has a header line that sets a cookie.
SetsCookie(d) == d.cookie # ""

\* The cookie of the session stays as it is, or becomes that of the reply d.
CookieStep(d) == cookie' = cookie \/ (SetsCookie(d) /\ cookie' = <<d.cookie>>)

\* A line of the head tells what it is there for, and nothing else.
LEMMA LineTold ==
  ASSUME NEW d, Ordinary(d), NEW k \in 1..4, HasLine(d, k + 1), Told(d, k),
         conn \in Conns, conn.state = "HEADER",
         conn' = Header([conn EXCEPT !.line = <<>>], HeadWords(d, k + 1)),
         cookie' = CookieHeader(HeadWords(d, k + 1))
  PROVE  /\ Told(d, k + 1)' /\ conn' \in Conns /\ conn'.state = "HEADER" /\ conn'.line = <<>>
         /\ CookieStep(d)
<1> DEFINE s == [conn EXCEPT !.line = <<>>]
<1> DEFINE w == HeadWords(d, k + 1)
<1>1. /\ s \in Conns /\ s.line = <<>> /\ s.state = "HEADER" /\ s.has_body = conn.has_body
      /\ s.is_chunked = conn.is_chunked /\ s.content_length = conn.content_length
  <2>1. <<>> \in Seq(Units)
    OBVIOUS
  <2> QED BY <2>1 DEF Conns
<1>2. conn' = Header(s, w) /\ cookie' = CookieHeader(w)
  OBVIOUS
<1> HIDE DEF s, w
<1>3. CASE k = 1
  <2>1. w = <<"content-type:", "text/html">>
    <3>1. 1 + 1 = 2 /\ HeadWords(d, 2) = <<"content-type:", "text/html">>
      BY DEF HeadWords
    <3> QED BY <1>3, <3>1, Zenon DEF w
  <2>2. conn' = s /\ cookie' = cookie
    BY <1>2, <2>1 DEF Header, CookieHeader
  <2>3. Told(d, 1)
    BY <1>3, Zenon
  <2>4. 1 # 5 /\ 2 # 5 /\ ~(2 >= 3)
    OBVIOUS
  <2>5. Told(d, 2)'
    BY <1>1, <2>2, <2>3, <2>4, Zenon DEF Told
  <2>6. 1 + 1 = 2
    OBVIOUS
  <2> QED BY <1>1, <1>3, <2>2, <2>5, <2>6, Zenon DEF CookieStep
<1>4. CASE k = 2
  <2>1. w = <<"set-cookie:", d.cookie>>
    <3>1. 2 + 1 = 3 /\ HeadWords(d, 3) = <<"set-cookie:", d.cookie>>
      BY DEF HeadWords
    <3> QED BY <1>4, <3>1, Zenon DEF w
  <2>2. conn' = s /\ cookie' = <<d.cookie>>
    BY <1>2, <2>1 DEF Header, CookieHeader
  <2>3. Told(d, 2)
    BY <1>4, Zenon
  <2>4. 2 # 5 /\ 3 # 5
    OBVIOUS
  <2>5. Told(d, 3)'
    BY <1>1, <2>2, <2>3, <2>4, Zenon DEF Told
  <2>6. 2 + 1 = 3
    OBVIOUS
  <2>7. SetsCookie(d)
    <3>1. HasLine(d, 3)
      BY <1>4, <2>6, Zenon
    <3> QED BY <3>1, CookieLine, Zenon DEF SetsCookie
  <2> QED BY <1>1, <1>4, <2>2, <2>5, <2>6, <2>7, Zenon DEF CookieStep
<1>5. CASE k = 3
  <2>1. w = <<"location:", d.location>>
    <3>1. 3 + 1 = 4 /\ HeadWords(d, 4) = <<"location:", d.location>>
      BY DEF HeadWords
    <3> QED BY <1>5, <3>1, Zenon DEF w
  <2>2. conn' = s /\ cookie' = cookie
    BY <1>2, <2>1 DEF Header, CookieHeader
  <2>3. Told(d, 3)
    BY <1>5, Zenon
  <2>4. 3 # 5 /\ 4 # 5 /\ 3 >= 3
    OBVIOUS
  <2>5. Told(d, 4)'
    BY <1>1, <2>2, <2>3, <2>4, Zenon DEF Told
  <2>6. 3 + 1 = 4
    OBVIOUS
  <2> QED BY <1>1, <1>5, <2>2, <2>5, <2>6, Zenon DEF CookieStep
<1>6. CASE k = 4
  <2>0. 4 + 1 = 5
    OBVIOUS
  <2>1. d.framing = "length" \/ d.framing = "chunked"
    <3>1. HasLine(d, 5)
      BY <1>6, <2>0, Zenon
    <3>2. HasLine(d, 5) <=> d.framing # "eof"
      BY FramingLine
    <3> QED BY <3>1, <3>2 DEF Ordinary
  <2>2. Told(d, 4)
    BY <1>6, Zenon
  <2>3. 4 # 5 /\ 4 >= 3 /\ 5 = 5
    OBVIOUS
  <2>4. CASE d.framing = "length"
    <3> DEFINE size == Len(d.body)
    <3>1. w = <<"content-length:", ToString(size)>>
      <4>1. HeadWords(d, 5) = <<"content-length:", ToString(size)>>
        BY <2>4 DEF HeadWords
      <4> QED BY <1>6, <2>0, <4>1, Zenon DEF w
    <3>2. /\ size \in 0..(MaxSize - 1) /\ size \in 0..Infinite /\ (size = 0 <=> d.body = <<>>)
      BY BodySize
    <3>3. ToString(size) \in Numbers /\ Value[ToString(size)] = size
      BY <3>2, NumberRead
    <3> HIDE DEF size
    <3>4. Argument(w) = size
      <4>1. Len(w) = 2 /\ w[2] = ToString(size)
        BY <3>1
      <4> QED BY <3>3, <4>1 DEF Argument
    <3>5. conn' = [s EXCEPT !.content_length = size, !.has_body = @ /\ size # 0]
      <4>1. w[1] = "content-length:" /\ w # <<"transfer-encoding:", "chunked">>
        BY <3>1
      <4> QED BY <1>2, <3>4, <4>1 DEF Header
    <3>6. cookie' = cookie
      BY <1>2, <3>1 DEF CookieHeader
    <3>7. /\ conn' \in Conns /\ conn'.content_length = size
          /\ conn'.has_body <=> s.has_body /\ size # 0
          /\ conn'.state = s.state /\ conn'.line = s.line /\ conn'.is_chunked = s.is_chunked
      <4>1. PICK body \in BOOLEAN : body <=> s.has_body /\ size # 0
        OBVIOUS
      <4>2. conn' = [s EXCEPT !.content_length = size, !.has_body = body]
        BY <1>1, <3>5, <4>1 DEF Conns
      <4> QED BY <1>1, <3>2, <4>1, <4>2 DEF Conns
    <3>8. "length" # "chunked"
      OBVIOUS
    <3>9. Told(d, 5)'
      BY <1>1, <2>2, <2>3, <2>4, <3>2, <3>6, <3>7, <3>8, Zenon DEF Told, size
    <3> QED BY <1>1, <1>6, <2>0, <3>6, <3>7, <3>9, Zenon DEF CookieStep
  <2>5. CASE d.framing = "chunked"
    <3>1. w = <<"transfer-encoding:", "chunked">>
      <4>1. HeadWords(d, 5) = <<"transfer-encoding:", "chunked">>
        BY <2>5 DEF HeadWords
      <4> QED BY <1>6, <2>0, <4>1, Zenon DEF w
    <3>2. conn' = [s EXCEPT !.is_chunked = TRUE] /\ cookie' = cookie
      BY <1>2, <3>1 DEF Header, CookieHeader
    <3>3. /\ conn' \in Conns /\ conn'.is_chunked = TRUE /\ conn'.has_body = s.has_body
          /\ conn'.state = s.state /\ conn'.line = s.line
          /\ conn'.content_length = s.content_length
      BY <1>1, <3>2 DEF Conns
    <3>4. "chunked" # "length"
      OBVIOUS
    <3>5. Told(d, 5)'
      BY <1>1, <2>2, <2>3, <2>5, <3>2, <3>3, <3>4, Zenon DEF Told
    <3> QED BY <1>1, <1>6, <2>0, <3>2, <3>3, <3>5, Zenon DEF CookieStep
  <2> QED BY <2>1, <2>4, <2>5
<1>7. k = 1 \/ k = 2 \/ k = 3 \/ k = 4
  OBVIOUS
<1> QED BY <1>3, <1>4, <1>5, <1>6, <1>7

\* parse_headers takes the next line of the head, or the empty one that ends it, with what
\* the handlers of EV_CALL_RECV_HDR make of it.
LEMMA HeadersStep ==
  ASSUME ParserInv, Regular(script), LineMax >= 4, parse_headers
  PROVE  ParserInv' /\ CookieStep(script.calls[c])
<1>1. PICK d : d = script.calls[c]
  OBVIOUS
<1>2. at = "buffer" /\ buf # <<>> /\ conn.state \in {"HEADER", "CONTINUE"}
  BY DEF parse_headers, Parsing
<1>3. Typed /\ Placed /\ Pending /\ done < sent
  BY <1>2 DEF ParserInv, Placed
<1>4. /\ c \in 1..NumCalls /\ c <= sent /\ Ordinary(d)
      /\ DOMAIN calls = 1..NumCalls /\ DOMAIN calls[c] = Fields
      /\ calls[c].header \in Nat /\ calls[c].issued \in Nat /\ calls[c].issued >= 1
      /\ Stream[c] \in Seq(Units)
  BY <1>1, <1>2, <1>3, Present
<1>5. PICK m \in Seq(Units), t \in Seq(Units) :
        /\ Unsent(m) /\ Left(d, t)
        /\ Cat(conn.line, Cat(buf, Cat(net.wire, m))) = Cat(t, Stream[c])
  BY <1>1, <1>2, <1>3, Present
<1>6. InHead(d, t) /\ conn.state = "HEADER"
  BY <1>2, <1>5 DEF Left, Between
<1>7. PICK k \in 1..5 :
        /\ k = 5 \/ HasLine(d, k + 1)
        /\ t = Cat(HeadFrom(d)[k], Entity(d))
        /\ Counted(d, Len(HeadFrom(d)[k]) - Len(conn.line))
        /\ Told(d, k)
  BY <1>4, <1>6, HeadPlace
<1> DEFINE h == HeadFrom(d)[k]
<1> DEFINE x == Len(h) - Len(conn.line)
<1>8. h \in Seq(Units) /\ Len(h) \in Nat /\ Len(conn.line) \in Nat /\ conn \in Conns
      /\ Entity(d) \in Seq(Units)
  <2>1. k \in 0..5
    OBVIOUS
  <2>2. h \in Seq(Units) /\ Entity(d) \in Seq(Units)
    BY <1>4, <2>1, HeadLeft, ReplyShape
  <2> HIDE DEF h
  <2>3. Len(h) \in Nat
    BY <2>2
  <2>4. Len(conn.line) \in Nat
    BY <1>3, TypedParts
  <2> QED BY <1>3, <2>2, <2>3, <2>4 DEF Typed
<1>9. calls[c].content = <<>> /\ calls[c].footer = 0
  <2>1. c \in c..NumCalls
    BY <1>4
  <2> QED BY <1>3, <1>6, <2>1 DEF Pending
<1>10. PICK g : g = get_line(buf)
  OBVIOUS
<1>11. /\ UNCHANGED <<script, sent, done, net, verdict>> /\ buf' = g.rest
       /\ at' = IF buf' = <<>> /\ conn'.state # "DONE" THEN "loop" ELSE "buffer"
       /\ c' = c
  BY <1>10 DEF parse_headers, Consume, c
<1> DEFINE counted == [calls EXCEPT ![c].header = @ + g.used]
<1>12. ASSUME calls' = counted \/ \E p : calls' = [counted EXCEPT ![c].page = p],
              g.used \in Nat
       PROVE  /\ DOMAIN calls' = DOMAIN calls /\ DOMAIN calls'[c] = Fields
              /\ \A i \in 1..NumCalls : i # c => calls'[i] = calls[i]
              /\ calls'[c].header = calls[c].header + g.used
              /\ calls'[c].status = calls[c].status /\ calls'[c].issued = calls[c].issued
              /\ calls'[c].content = <<>> /\ calls'[c].footer = 0
              /\ calls'[c].header \in Nat
  <2>1. CASE calls' = counted
    BY <1>4, <1>9, <1>12, <2>1 DEF Fields
  <2>2. CASE \E p : calls' = [counted EXCEPT ![c].page = p]
    <3>1. PICK p : calls' = [counted EXCEPT ![c].page = p]
      BY <2>2
    <3>2. /\ DOMAIN counted = DOMAIN calls /\ DOMAIN counted[c] = Fields
          /\ \A i \in 1..NumCalls : i # c => counted[i] = calls[i]
          /\ counted[c].header = calls[c].header + g.used
          /\ counted[c].status = calls[c].status /\ counted[c].issued = calls[c].issued
          /\ counted[c].content = <<>> /\ counted[c].footer = 0
      BY <1>4, <1>9 DEF Fields
    <3> HIDE DEF counted
    <3>3. /\ DOMAIN calls' = DOMAIN calls /\ DOMAIN calls'[c] = Fields
          /\ \A i \in 1..NumCalls : i # c => calls'[i] = calls[i]
          /\ calls'[c].header = counted[c].header
          /\ calls'[c].status = counted[c].status /\ calls'[c].issued = counted[c].issued
          /\ calls'[c].content = <<>> /\ calls'[c].footer = 0
      BY <1>4, <3>1, <3>2 DEF Fields
    <3> QED BY <1>4, <1>12, <3>2, <3>3
  <2> QED BY <1>12, <2>1, <2>2
<1> HIDE DEF counted
<1>13. ASSUME ~g.ok, g.rest = <<>>, g.line \in Seq(Units), g.used \in Nat,
              Len(g.line) = Len(conn.line) + g.used,
              Len(g.line) < LineMax, \A i \in 1..Len(g.line) : g.line[i] # "lf",
              Cat(g.line, Cat(net.wire, m)) = Cat(t, Stream[c])
       PROVE  ParserInv' /\ CookieStep(d)
  <2>1. conn' = [conn EXCEPT !.line = g.line] /\ calls' = counted /\ cookie' = cookie
    BY <1>10, <1>13, Zenon DEF parse_headers, counted
  <2>2. /\ conn' \in Conns /\ conn'.state = "HEADER" /\ conn'.line = g.line
        /\ conn'.has_body = conn.has_body /\ conn'.is_chunked = conn.is_chunked
        /\ conn'.content_length = conn.content_length
    BY <1>6, <1>8, <1>13, <2>1 DEF Conns
  <2>3. /\ DOMAIN calls' = DOMAIN calls /\ DOMAIN calls'[c] = Fields
        /\ \A i \in 1..NumCalls : i # c => calls'[i] = calls[i]
        /\ calls'[c].header = calls[c].header + g.used
        /\ calls'[c].status = calls[c].status /\ calls'[c].issued = calls[c].issued
        /\ calls'[c].content = <<>> /\ calls'[c].footer = 0
        /\ calls'[c].header \in Nat
    BY <1>12, <1>13, <2>1
  <2>4. Counted(d, Len(h) - Len(conn.line))'
    <3> DEFINE y == Len(h) - Len(conn'.line)
    <3>1. x \in Int /\ g.used \in Int /\ y \in Int /\ y = x - g.used
      <4>1. Len(conn'.line) = Len(conn.line) + g.used
        BY <1>13, <2>2
      <4> DEFINE a == Len(h)
      <4> DEFINE b == Len(conn.line)
      <4> DEFINE e == Len(conn'.line)
      <4>2. a \in Nat /\ b \in Nat /\ e = b + g.used /\ g.used \in Nat
        BY <1>8, <1>13, <4>1
      <4> HIDE DEF a, b, e
      <4>3. a - b \in Int /\ g.used \in Int /\ a - e \in Int /\ a - e = a - b - g.used
        BY <4>2
      <4> QED BY <4>3, Zenon DEF a, b, e
    <3>2. Counted(d, x)
      BY <1>7
    <3> HIDE DEF x, y
    <3>3. ASSUME NEW z \in Int, z = y PROVE Counted(d, z)'
      BY <1>4, <1>11, <2>3, <3>1, <3>2, <3>3, CountOn
    <3> QED BY <3>1, <3>3, Zenon DEF y
  <2>5. Told(d, k)'
    BY <1>7, <2>1, <2>2, Zenon DEF Told
  <2>6. Left(d, t)'
    <3>1. InHead(d, t)'
      BY <1>7, <2>4, <2>5, Zenon DEF InHead
    <3> QED BY <2>2, <3>1 DEF Left
  <2>7. Cat(conn'.line, Cat(buf', Cat(net.wire, m))) = Cat(t, Stream[c])
    <3>1. Cat(net.wire, m) \in Seq(Units)
      BY <1>3, TypedParts, CatType
    <3> QED BY <1>11, <1>13, <2>2, <3>1, CatEmpty
  <2>8. Len(conn'.line) < LineMax /\ \A i \in 1..Len(conn'.line) : conn'.line[i] # "lf"
    BY <1>13, <2>2
  <2>9. buf' \in Seq(Units) /\ conn'.state \notin {"CONNECTED", "STATUS"}
    BY <1>11, <1>13, <2>2
  <2>10. ParserInv'
    BY <1>1, <1>2, <1>5, <1>11, <2>2, <2>3, <2>6, <2>7, <2>8, <2>9, Consumed
  <2> QED BY <2>1, <2>10, Zenon DEF CookieStep
<1>14. CASE k = 5
  <2>1. t = Cat(Cat(<<>>, d.end), Entity(d)) /\ d.end \in {CrLf, <<"lf">>}
        /\ <<>> \in Seq(Words) /\ Len(<<>>) + Len(d.end) <= LineMax /\ Len(d.end) = Len(h)
        /\ Len(<<>>) + Len(d.end) = Len(h)
    <3>1. h = d.end /\ d.end \in {CrLf, <<"lf">>}
      BY <1>4, <1>14, HeadLeft
    <3>2. d.end \in Seq(Units)
      BY <1>8, <3>1, Zenon
    <3>3. Cat(<<>>, d.end) = d.end
      BY <3>2, CatEmpty
    <3>4. t = Cat(h, Entity(d))
      BY <1>7, Zenon
    <3>5. Len(d.end) = 2 \/ Len(d.end) = 1
      BY <3>1 DEF CrLf
    <3>6. LineMax \in Nat /\ <<>> \in Seq(Words) /\ Len(<<>>) = 0
      BY SizesAssumption
    <3>7. Len(<<>>) + Len(d.end) <= LineMax /\ Len(<<>>) + Len(d.end) = Len(d.end)
      <4>1. \A z, a : z = 0 /\ (a = 2 \/ a = 1) => z + a <= LineMax /\ z + a = a
        BY <3>6
      <4> QED BY <3>5, <3>6, <4>1, Zenon
    <3> HIDE DEF h
    <3>8. Len(d.end) = Len(h)
      BY <3>1
    <3>9. t = Cat(Cat(<<>>, d.end), Entity(d))
      BY <3>1, <3>3, <3>4, Zenon
    <3> QED BY <3>1, <3>6, <3>7, <3>8, <3>9, Zenon
  <2>2. LineRead(g, m, Len(h), <<>>, Entity(d), t, Stream[c])
    <3>1. Cat(conn.line, Cat(buf, Cat(net.wire, m))) = Cat(t, Stream[c])
      BY <1>5, Zenon
    <3> HIDE DEF h
    <3>2. Len(h) = Len(<<>>) + Len(d.end) /\ Len(h) <= LineMax
      BY <2>1, Zenon
    <3> QED BY <1>2, <1>3, <1>4, <1>8, <1>10, <2>1, <3>1, <3>2, LineNext
  <2>3. g.used \in Nat \ {0} /\ g.rest \in Seq(Units)
    BY <2>2 DEF LineRead
  <2>4. CASE g.ok
    <3>1. /\ conn' = EndOfHeaders([conn EXCEPT !.line = <<>>]) /\ calls' = counted
          /\ cookie' = cookie /\ g.used = Len(h) - Len(conn.line)
          /\ Cat(g.rest, Cat(net.wire, m)) = Cat(Entity(d), Stream[c])
      <4>1. /\ g.line = <<>> /\ g.used = Len(h) - Len(conn.line)
            /\ Cat(g.rest, Cat(net.wire, m)) = Cat(Entity(d), Stream[c])
        BY <2>2, <2>4 DEF LineRead
      <4> QED BY <1>10, <2>4, <4>1, Zenon DEF parse_headers, counted
    <3>2. /\ DOMAIN calls' = DOMAIN calls /\ DOMAIN calls'[c] = Fields
          /\ \A i \in 1..NumCalls : i # c => calls'[i] = calls[i]
          /\ calls'[c].header = calls[c].header + g.used
          /\ calls'[c].status = calls[c].status /\ calls'[c].issued = calls[c].issued
          /\ calls'[c].content = <<>> /\ calls'[c].footer = 0
          /\ calls'[c].header \in Nat
      BY <1>12, <2>3, <3>1
    <3>3. Counted(d, 0)'
      <4>1. x \in Int /\ g.used \in Int /\ 0 \in Int /\ 0 = x - g.used
        <5> HIDE DEF h
        <5> QED BY <1>8, <3>1
      <4>2. Counted(d, x)
        BY <1>7
      <4> HIDE DEF x
      <4> QED BY <1>4, <1>11, <3>2, <4>1, <4>2, CountOn
    <3>4. at' = "buffer" \/ conn'.state # "DONE"
      BY <1>11
    <3>5. Told(d, 5) /\ script' = script
      BY <1>7, <1>11, <1>14, Zenon
    <3>6. /\ Left(d, Entity(d))' /\ conn' \in Conns /\ conn'.line = <<>>
          /\ conn'.state \in {"DATA", "CHUNKED", "DONE"}
      BY <1>1, <1>4, <1>6, <1>8, <1>11, <3>1, <3>2, <3>3, <3>4, <3>5, HeadEnds
    <3>7. Cat(conn'.line, Cat(buf', Cat(net.wire, m))) = Cat(Entity(d), Stream[c])
      <4>1. Cat(g.rest, Cat(net.wire, m)) \in Seq(Units)
        BY <1>3, <2>3, TypedParts, CatType
      <4> QED BY <1>11, <3>1, <3>6, <4>1, CatEmpty
    <3>8. Len(conn'.line) < LineMax /\ \A i \in 1..Len(conn'.line) : conn'.line[i] # "lf"
      BY <3>6, SizesAssumption
    <3>9. buf' \in Seq(Units) /\ conn'.state \notin {"CONNECTED", "STATUS", "HEADER"}
      BY <1>11, <2>3, <3>6
    <3>10. ParserInv'
      BY <1>1, <1>2, <1>5, <1>8, <1>11, <3>2, <3>6, <3>7, <3>8, <3>9, Consumed
    <3> QED BY <1>1, <3>1, <3>10, Zenon DEF CookieStep
  <2>5. CASE ~g.ok
    <3>1. /\ g.rest = <<>> /\ g.line \in Seq(Units) /\ Len(g.line) = Len(conn.line) + g.used
          /\ Len(g.line) < LineMax /\ \A i \in 1..Len(g.line) : g.line[i] # "lf"
          /\ Cat(g.line, Cat(net.wire, m)) = Cat(t, Stream[c]) /\ g.used \in Nat
      BY <2>2, <2>5 DEF LineRead
    <3> QED BY <1>1, <1>13, <2>5, <3>1, Zenon
  <2> QED BY <2>4, <2>5
<1>15. CASE k # 5
  <2> DEFINE w == HeadWords(d, k + 1)
  <2> DEFINE T == Cat(HeadFrom(d)[k + 1], Entity(d))
  <2> DEFINE r == HeadFrom(d)[k + 1]
  <2>0. k \in 1..4 /\ k \in 0..4 /\ HasLine(d, k + 1) /\ k + 1 \in 1..5
    BY <1>7, <1>15
  <2>1. /\ t = Cat(Cat(w, CrLf), T) /\ w \in Seq(Words) /\ Len(w) = 2 /\ Len(CrLf) = 2
        /\ T \in Seq(Units) /\ Len(h) = Len(r) + 4 /\ Len(r) \in Nat
    <3>1. /\ Cat(HeadFrom(d)[k], Entity(d))
              = Cat(Cat(HeadWords(d, k + 1), CrLf), Cat(HeadFrom(d)[k + 1], Entity(d)))
          /\ HeadWords(d, k + 1) \in Seq(Words) /\ Len(HeadWords(d, k + 1)) = 2
          /\ Len(CrLf) = 2 /\ Cat(HeadFrom(d)[k + 1], Entity(d)) \in Seq(Units)
          /\ Len(HeadFrom(d)[k]) = Len(HeadFrom(d)[k + 1]) + 4
          /\ Len(HeadFrom(d)[k + 1]) \in Nat /\ Len(HeadFrom(d)[k + 1]) > 0
      BY <1>4, <2>0, HeadNext
    <3> QED BY <1>7, <3>1, Zenon
  <2>2. w # <<>> /\ 4 = Len(w) + Len(CrLf) /\ 4 <= LineMax
    <3> HIDE DEF w
    <3>1. w # <<>>
      <4>1. Len(w) = 2
        BY <2>1
      <4>2. Len(<<>>) = 0 /\ 2 # 0
        OBVIOUS
      <4> QED BY <4>1, <4>2, Zenon
    <3>2. 4 <= LineMax
      BY SizesAssumption
    <3> QED BY <2>1, <3>1, <3>2
  <2>3. LineRead(g, m, 4, w, T, t, Stream[c])
    <3>1. CrLf \in {CrLf, <<"lf">>}
      OBVIOUS
    <3> HIDE DEF w, T
    <3> QED BY <1>2, <1>3, <1>4, <1>5, <1>10, <2>1, <2>2, <3>1, LineNext
  <2> HIDE DEF T
  <2>4. g.used \in Nat \ {0} /\ g.rest \in Seq(Units)
    <3> HIDE DEF w
    <3> QED BY <2>3 DEF LineRead
  <2>5. CASE g.ok
    <3>1. /\ g.line = w /\ g.used = 4 - Len(conn.line)
          /\ Cat(g.rest, Cat(net.wire, m)) = Cat(T, Stream[c])
      <4> HIDE DEF w
      <4> QED BY <2>3, <2>5 DEF LineRead
    <3>2. /\ conn' = Header([conn EXCEPT !.line = <<>>], w)
          /\ calls' = [counted EXCEPT ![c].page = PageHeader(@, w)]
          /\ cookie' = CookieHeader(w)
      <4> HIDE DEF w
      <4> QED BY <1>10, <2>2, <2>5, <3>1, Zenon DEF parse_headers, counted
    <3>3. \E p : calls' = [counted EXCEPT ![c].page = p]
      BY <3>2, Zenon
    <3>4. /\ DOMAIN calls' = DOMAIN calls /\ DOMAIN calls'[c] = Fields
          /\ \A i \in 1..NumCalls : i # c => calls'[i] = calls[i]
          /\ calls'[c].header = calls[c].header + g.used
          /\ calls'[c].status = calls[c].status /\ calls'[c].issued = calls[c].issued
          /\ calls'[c].content = <<>> /\ calls'[c].footer = 0
          /\ calls'[c].header \in Nat
      BY <1>12, <2>4, <3>3
    <3>5. /\ Told(d, k + 1)' /\ conn' \in Conns /\ conn'.state = "HEADER"
          /\ conn'.line = <<>> /\ CookieStep(d)
      BY <1>4, <1>6, <1>7, <1>8, <2>0, <3>2, LineTold
    <3>6. Counted(d, Len(HeadFrom(d)[k + 1]) - Len(conn.line))'
      <4> DEFINE y == Len(r) - Len(conn'.line)
      <4>1. Len(conn'.line) = 0
        BY <3>5
      <4>2. x \in Int /\ g.used \in Int /\ y \in Int /\ y = x - g.used
        <5> HIDE DEF h, r
        <5> QED BY <1>8, <2>1, <3>1, <4>1
      <4>3. Counted(d, x)
        BY <1>7
      <4> HIDE DEF x, y
      <4>4. ASSUME NEW z \in Int, z = y PROVE Counted(d, z)'
        BY <1>4, <1>11, <3>4, <4>2, <4>3, <4>4, CountOn
      <4> QED BY <4>2, <4>4, Zenon DEF y, r
    <3>7. Left(d, T)'
      <4>1. InHead(d, T)'
        BY <2>0, <3>5, <3>6, Zenon DEF InHead, T
      <4> QED BY <3>5, <4>1 DEF Left
    <3>8. Cat(conn'.line, Cat(buf', Cat(net.wire, m))) = Cat(T, Stream[c])
      <4>1. Cat(g.rest, Cat(net.wire, m)) \in Seq(Units)
        BY <1>3, <2>4, TypedParts, CatType
      <4> QED BY <1>11, <3>1, <3>5, <4>1, CatEmpty
    <3>9. Len(conn'.line) < LineMax /\ \A i \in 1..Len(conn'.line) : conn'.line[i] # "lf"
      BY <3>5, SizesAssumption
    <3>10. buf' \in Seq(Units) /\ conn'.state \notin {"CONNECTED", "STATUS"}
      BY <1>11, <2>4, <3>5
    <3>11. ParserInv'
      BY <1>1, <1>2, <1>5, <1>11, <2>1, <3>4, <3>5, <3>7, <3>8, <3>9, <3>10, Consumed
    <3> QED BY <1>1, <3>5, <3>11, Zenon
  <2>6. CASE ~g.ok
    <3>1. /\ g.rest = <<>> /\ g.line \in Seq(Units) /\ Len(g.line) = Len(conn.line) + g.used
          /\ Len(g.line) < LineMax /\ \A i \in 1..Len(g.line) : g.line[i] # "lf"
          /\ Cat(g.line, Cat(net.wire, m)) = Cat(t, Stream[c]) /\ g.used \in Nat
      <4> HIDE DEF w
      <4> QED BY <2>3, <2>6 DEF LineRead
    <3> QED BY <1>1, <1>13, <2>6, <3>1, Zenon
  <2> QED BY <2>5, <2>6
<1> QED BY <1>14, <1>15

-----------------------------------------------------------------------------
(* The entity *)

\* The content grows by what is next in the body.
LEMMA Onward ==
  ASSUME NEW s \in Seq(Units), NEW e \in 0..Len(s), NEW k \in 0..e, NEW n \in 0..(e - k)
  PROVE  /\ k + n \in 0..e /\ k + n \in 0..Len(s) /\ k \in 0..Len(s)
         /\ Cat(First(s, k), First(Rest(First(s, e), k), n)) = First(s, k + n)
         /\ Rest(Rest(First(s, e), k), n) = Rest(First(s, e), k + n)
         /\ Len(First(s, k + n)) = k + n /\ First(s, k + n) \in Seq(Units)
         /\ Rest(First(s, e), k) \in Seq(Units) /\ Len(Rest(First(s, e), k)) = e - k
<1> DEFINE r == Rest(First(s, e), k)
<1> DEFINE q == Rest(First(s, e), k + n)
<1> DEFINE f == First(s, e)
<1>1. /\ k + n \in 0..e /\ k + n \in 0..Len(s) /\ k \in 0..Len(s) /\ k \in 0..(k + n)
  OBVIOUS
<1>2. /\ r \in Seq(Units) /\ Len(r) = e - k /\ f = Cat(First(s, k), r)
  BY Middle
<1>3. /\ q \in Seq(Units) /\ f = Cat(First(s, k + n), q)
  BY <1>1, Middle
<1>4. /\ First(s, k) \in Seq(Units) /\ Len(First(s, k)) = k
      /\ First(s, k + n) \in Seq(Units) /\ Len(First(s, k + n)) = k + n
  BY <1>1, Halves
<1> HIDE DEF r, q, f
<1>5. n \in 0..Len(r)
  BY <1>2
<1>6. /\ First(r, n) \in Seq(Units) /\ Len(First(r, n)) = n /\ Rest(r, n) \in Seq(Units)
      /\ r = Cat(First(r, n), Rest(r, n))
  BY <1>2, <1>5, Halves
<1> DEFINE a == Cat(First(s, k), First(r, n))
<1>7. f = Cat(a, Rest(r, n))
  <2>1. f = Cat(First(s, k), Cat(First(r, n), Rest(r, n)))
    BY <1>2, <1>6, Zenon
  <2> QED BY <1>4, <1>6, <2>1, CatAssoc
<1>8. a \in Seq(Units) /\ Len(a) = k + n
  <2>1. a \in Seq(Units) /\ Len(a) = Len(First(s, k)) + Len(First(r, n))
    BY <1>4, <1>6, CatType
  <2> QED BY <1>4, <1>6, <2>1, Zenon
<1> HIDE DEF a
<1>9. Cat(a, Rest(r, n)) = Cat(First(s, k + n), q)
  BY <1>3, <1>7, Zenon
<1>10. Len(a) = Len(First(s, k + n))
  BY <1>4, <1>8, Zenon
<1>11. a = First(s, k + n) /\ Rest(r, n) = q
  BY <1>3, <1>4, <1>6, <1>8, <1>9, <1>10, CatCut
<1> QED BY <1>1, <1>2, <1>4, <1>11, Zenon DEF r, q, f, a

\* What parse_data leaves when it takes n units at place k of a body, up to e of which
\* come before y
DataGot(d, e, k, n, w, y) ==
  /\ Len(Data) = n /\ n \in Nat /\ k \in Nat /\ k + n <= e
  /\ calls'[c].content = First(d.body, k + n) /\ Len(calls'[c].content) = k + n
  /\ Begun(d)'
  /\ DOMAIN calls' = DOMAIN calls /\ DOMAIN calls'[c] = Fields
  /\ \A i \in 1..NumCalls : i # c => calls'[i] = calls[i]
  /\ calls'[c].status = calls[c].status /\ calls'[c].issued = calls[c].issued
  /\ calls'[c].header = calls[c].header /\ calls'[c].footer = calls[c].footer
  /\ UNCHANGED <<script, sent, done, net, verdict, cookie>>
  /\ buf' \in Seq(Units) /\ (n < Len(buf) => buf' # <<>>)
  /\ at' = IF buf' = <<>> /\ conn'.state # "DONE" THEN "loop" ELSE "buffer"
  /\ Cat(buf', w) = Cat(Rest(First(d.body, e), k + n), y)

\* parse_data takes n units, those that are next in the body.
LEMMA DataTaken ==
  ASSUME NEW d, Ordinary(d), NEW e \in 0..Len(d.body), Begun(d),
         NEW k, k = Len(Content), k <= e, Needed \in Nat,
         NEW n, n = Least(Len(buf), Needed), n <= e - k,
         buf \in Seq(Units), DOMAIN calls = 1..NumCalls, c \in 1..NumCalls,
         DOMAIN calls[c] = Fields,
         NEW w \in Seq(Units), NEW y \in Seq(Units),
         Cat(buf, w) = Cat(Rest(First(d.body, e), k), y), parse_data
  PROVE  DataGot(d, e, k, n, w, y)
<1> DEFINE f == First(d.body, e)
<1> DEFINE r == Rest(f, k)
<1>1. d.body \in Seq(Units) /\ Len(d.body) \in Nat
  BY BodySize
<1>2. k \in 0..e /\ Content = First(d.body, k) /\ k \in Nat /\ e \in Nat
  BY <1>1 DEF Begun
<1>3. n \in Nat /\ n \in 0..Len(buf) /\ n \in 0..(e - k)
  <2>1. \A a, b, x : a \in Nat /\ b \in Nat /\ x \in Nat /\ Least(a, b) <= x =>
          Least(a, b) \in Nat /\ Least(a, b) \in 0..a /\ Least(a, b) \in 0..x
    BY DEF Least
  <2>2. Len(buf) \in Nat
    OBVIOUS
  <2>3. e - k \in Nat
    BY <1>2
  <2> QED BY <2>1, <2>2, <2>3, Zenon
<1>4. /\ k + n \in 0..e /\ k + n \in 0..Len(d.body)
      /\ Cat(First(d.body, k), First(r, n)) = First(d.body, k + n)
      /\ Rest(r, n) = Rest(f, k + n)
      /\ Len(First(d.body, k + n)) = k + n /\ First(d.body, k + n) \in Seq(Units)
      /\ r \in Seq(Units) /\ Len(r) = e - k
  BY <1>1, <1>2, <1>3, Onward
<1> HIDE DEF r, f
<1>5. First(buf, n) = First(r, n) /\ Cat(Rest(buf, n), w) = Cat(Rest(r, n), y)
  <2>1. n <= Len(r) /\ Cat(buf, w) = Cat(r, y)
    BY <1>3, <1>4 DEF r, f
  <2> QED BY <1>3, <1>4, <2>1, TakenOff
<1>6. Data = First(buf, n) /\ Len(Data) = n
  <2>1. Data = First(buf, n)
    BY Zenon DEF Data, First
  <2>2. Len(First(buf, n)) = n
    BY <1>3, Halves
  <2> QED BY <2>1, <2>2
<1>7. /\ calls' = [calls EXCEPT ![c].content = @ \o Data,
                                ![c].page = call_recv_data(@, Data)]
      /\ buf' = SubSeq(buf, n + 1, Len(buf))
      /\ UNCHANGED <<script, sent, done, net, verdict, cookie>>
      /\ at' = IF buf' = <<>> /\ conn'.state # "DONE" THEN "loop" ELSE "buffer"
  BY <1>6 DEF parse_data, Consume
<1>8. /\ DOMAIN calls' = DOMAIN calls /\ DOMAIN calls'[c] = Fields
      /\ \A i \in 1..NumCalls : i # c => calls'[i] = calls[i]
      /\ calls'[c].status = calls[c].status /\ calls'[c].issued = calls[c].issued
      /\ calls'[c].header = calls[c].header /\ calls'[c].footer = calls[c].footer
  BY <1>7 DEF Fields
<1>9. calls'[c].content = First(d.body, k + n)
  <2>1. calls'[c].content = calls[c].content \o Data
    BY <1>7 DEF Fields
  <2>2. calls'[c].content = Cat(First(d.body, k), First(r, n))
    BY <1>2, <1>5, <1>6, <2>1, Zenon DEF Cat, Content
  <2> QED BY <1>4, <2>2, Zenon
<1>10. Len(calls'[c].content) = k + n
  BY <1>4, <1>9, Zenon
<1>11. Begun(d)'
  <2>1. c' = c
    BY <1>7 DEF c
  <2> QED BY <1>4, <1>9, <1>10, <2>1, Zenon DEF Begun, Content
<1>12. buf' = Rest(buf, n) /\ buf' \in Seq(Units) /\ Len(buf') = Len(buf) - n
  <2>1. buf' = Rest(buf, n)
    BY <1>7, Zenon DEF Rest
  <2>2. Rest(buf, n) \in Seq(Units) /\ Len(Rest(buf, n)) = Len(buf) - n
    BY <1>3, Halves
  <2> QED BY <2>1, <2>2, Zenon
<1>13. n < Len(buf) => buf' # <<>>
  <2>1. Len(buf) \in Nat /\ Len(<<>>) = 0
    OBVIOUS
  <2>2. n < Len(buf) => Len(buf') # 0
    <3>1. \A a, b : a \in Nat /\ b \in Nat /\ a < b => b - a # 0
      OBVIOUS
    <3> QED BY <1>3, <1>12, <2>1, <3>1, Zenon
  <2> QED BY <2>1, <2>2, Zenon
<1>14. Cat(buf', w) = Cat(Rest(f, k + n), y)
  BY <1>4, <1>5, <1>12, Zenon
<1>15. k + n <= e
  BY <1>2, <1>3
<1> QED BY <1>2, <1>3, <1>6, <1>7, <1>8, <1>9, <1>10, <1>11, <1>12, <1>13, <1>14, <1>15,
           Zenon DEF f, DataGot

\* What is known of the head stays known while the entity is read.
LEMMA PastHeadKept ==
  ASSUME NEW d, PastHead(d), c' = c, cookie' = cookie,
         calls'[c].status = calls[c].status, calls'[c].issued = calls[c].issued,
         calls'[c].header = calls[c].header
  PROVE  PastHead(d)'
<1>1. Counted(d, 0)'
  BY Zenon DEF PastHead, Counted
<1> QED BY <1>1, Zenon DEF PastHead

\* The entity has been taken, and the call is answered.
LEMMA ReplyDone ==
  ASSUME NEW d, Ordinary(d), d = script.calls[c], script' = script, c' = c, PastHead(d)',
         calls'[c].content = d.body, calls'[c].footer = Len(Footers(d))
  PROVE  Answered(c)' /\ (d.cookie # "" => cookie' = <<d.cookie>>)
<1>1. /\ calls'[c].status = d.status
      /\ calls'[c].header > Len(HeadFrom(d)[1]) - 0
      /\ calls'[c].issued = 1 => calls'[c].header <= Len(HeadFrom(d)[0]) - 0
  BY Zenon DEF PastHead, Counted
<1>2. /\ HeaderUnits(d) = Len(HeadFrom(d)[0])
      /\ HeaderUnits(d) - Len(StatusLine(d)) = Len(HeadFrom(d)[1])
      /\ HeaderUnits(d) - 0 = HeaderUnits(d)
      /\ Len(HeadFrom(d)[1]) - 0 = Len(HeadFrom(d)[1])
  BY StatusUnits
<1>3. HasEntity(d) /\ (d.cookie # "" => cookie' = <<d.cookie>>)
  BY Zenon DEF PastHead
<1> QED BY <1>1, <1>2, <1>3, Zenon DEF Answered

\* parse_footers takes the next footer, or the empty line that ends the reply.
LEMMA FootersStep ==
  ASSUME ParserInv, Regular(script), LineMax >= 4, parse_footers
  PROVE  ParserInv'
<1>1. PICK d : d = script.calls[c]
  OBVIOUS
<1>2. at = "buffer" /\ buf # <<>> /\ conn.state = "FOOTER"
  BY DEF parse_footers, Parsing
<1>3. Typed /\ Placed /\ done < sent
  BY <1>2 DEF ParserInv, Placed
<1>4. /\ c \in 1..NumCalls /\ c <= sent /\ Ordinary(d)
      /\ DOMAIN calls = 1..NumCalls /\ DOMAIN calls[c] = Fields
      /\ calls[c].header \in Nat /\ calls[c].issued \in Nat /\ calls[c].issued >= 1
      /\ Stream[c] \in Seq(Units)
  BY <1>1, <1>2, <1>3, Present
<1>5. PICK m \in Seq(Units), t \in Seq(Units) :
        /\ Unsent(m) /\ Left(d, t)
        /\ Cat(conn.line, Cat(buf, Cat(net.wire, m))) = Cat(t, Stream[c])
  BY <1>1, <1>2, <1>3, Present
<1>6. InFooters(d, t) /\ PastHead(d) /\ Len(t) <= Len(Entity(d))
  BY <1>2, <1>5 DEF Left, Between
<1> DEFINE F == Len(Footers(d))
<1>7. /\ d.framing = "chunked" /\ calls[c].content = d.body
      /\ \E j \in 0..d.footers : t = FootersFrom(d)[j]
      /\ calls[c].footer = F - Len(t) + Len(conn.line)
  BY <1>6 DEF InFooters, Content
<1>8. PICK j \in 0..d.footers : t = FootersFrom(d)[j]
  BY <1>7
<1>9. /\ conn \in Conns /\ Len(conn.line) \in Nat /\ Len(t) \in Nat /\ F \in Nat
      /\ Len(Entity(d)) \in Nat /\ d.footers \in Nat
  <2>1. conn \in Conns /\ Len(conn.line) \in Nat
    BY <1>3, TypedParts DEF Typed
  <2>2. F \in Nat /\ d.footers \in Nat
    BY <1>4, FootersLeft
  <2>3. Len(Entity(d)) \in Nat
    BY <1>4, ReplyShape
  <2> QED BY <2>1, <2>2, <2>3
<1> HIDE DEF F
<1>10. PICK g : g = get_line(buf)
  OBVIOUS
<1>11. /\ UNCHANGED <<script, sent, done, net, verdict, cookie>> /\ buf' = g.rest
       /\ at' = IF buf' = <<>> /\ conn'.state # "DONE" THEN "loop" ELSE "buffer"
       /\ c' = c
       /\ conn' = [conn EXCEPT !.line = IF g.ok THEN <<>> ELSE g.line,
                               !.state = IF g.ok /\ g.line = <<>> THEN "DONE" ELSE @]
       /\ calls' = [calls EXCEPT ![c].footer = @ + g.used]
  BY <1>10 DEF parse_footers, Consume, c
<1>12. /\ DOMAIN calls' = DOMAIN calls /\ DOMAIN calls'[c] = Fields
       /\ \A i \in 1..NumCalls : i # c => calls'[i] = calls[i]
       /\ calls'[c].header = calls[c].header
       /\ calls'[c].status = calls[c].status /\ calls'[c].issued = calls[c].issued
       /\ calls'[c].content = d.body /\ calls'[c].footer = calls[c].footer + g.used
       /\ calls'[c].header \in Nat
  BY <1>4, <1>7, <1>11 DEF Fields
<1>13. PastHead(d)'
  BY <1>6, <1>11, <1>12, PastHeadKept
<1>14. Cat(net.wire, m) \in Seq(Units)
  BY <1>3, TypedParts, CatType
<1>15. ASSUME ~g.ok, g.rest = <<>>, g.line \in Seq(Units), g.used \in Nat,
              Len(g.line) = Len(conn.line) + g.used,
              Len(g.line) < LineMax, \A i \in 1..Len(g.line) : g.line[i] # "lf",
              Cat(g.line, Cat(net.wire, m)) = Cat(t, Stream[c])
       PROVE  ParserInv'
  <2>1. /\ conn' \in Conns /\ conn'.state = "FOOTER" /\ conn'.line = g.line
    BY <1>2, <1>9, <1>11, <1>15 DEF Conns
  <2>2. calls'[c].footer = F - Len(t) + Len(conn'.line)
    <3>2. calls'[c].footer = (F - Len(t) + Len(conn.line)) + g.used
      BY <1>7, <1>12, Zenon
    <3>3. Len(conn'.line) = Len(conn.line) + g.used
      BY <1>15, <2>1
    <3> DEFINE f == calls'[c].footer
    <3> DEFINE x == Len(conn.line)
    <3> DEFINE y == Len(conn'.line)
    <3> DEFINE b == Len(t)
    <3> DEFINE u == g.used
    <3>4. f = (F - b + x) + u /\ y = x + u /\ F \in Nat /\ b \in Nat /\ x \in Nat /\ u \in Nat
      BY <1>9, <1>15, <3>2, <3>3, Zenon
    <3> HIDE DEF f, x, y, b, u
    <3>5. f = F - b + y
      BY <3>4
    <3> QED BY <3>5, Zenon DEF f, b, y
  <2>3. InFooters(d, t)'
    BY <1>7, <1>8, <1>11, <1>12, <2>2, Zenon DEF InFooters, Content, F
  <2>4. Left(d, t)'
    BY <1>6, <1>13, <2>1, <2>3, Zenon DEF Left
  <2>5. Cat(conn'.line, Cat(buf', Cat(net.wire, m))) = Cat(t, Stream[c])
    BY <1>11, <1>14, <1>15, <2>1, CatEmpty
  <2>6. Len(conn'.line) < LineMax /\ \A i \in 1..Len(conn'.line) : conn'.line[i] # "lf"
    BY <1>15, <2>1
  <2>7. buf' \in Seq(Units) /\ conn'.state \notin {"CONNECTED", "STATUS", "HEADER"}
    BY <1>11, <1>15, <2>1
  <2> QED BY <1>1, <1>2, <1>5, <1>11, <1>12, <2>1, <2>4, <2>5, <2>6, <2>7, Consumed
<1>16. CASE j = d.footers
  <2>1. /\ t = Cat(Cat(<<>>, CrLf), <<>>) /\ <<>> \in Seq(Words) /\ <<>> \in Seq(Units)
        /\ 2 = Len(<<>>) + Len(CrLf) /\ 2 <= LineMax /\ Len(t) = 2
    <3>1. CrLf \in Seq(Units) /\ Len(CrLf) = 2 /\ <<>> \in Seq(Words) /\ <<>> \in Seq(Units)
      <4>1. <<>> \in Seq(Words) /\ <<>> \in Seq(Units)
        OBVIOUS
      <4> QED BY <4>1, LineType
    <3>2. t = CrLf
      BY <1>4, <1>8, <1>16, FootersLeft
    <3>3. Cat(Cat(<<>>, CrLf), <<>>) = CrLf
      BY <3>1, CatEmpty
    <3>4. 2 = Len(<<>>) + Len(CrLf) /\ 2 <= LineMax
      BY <3>1, SizesAssumption
    <3> QED BY <3>1, <3>2, <3>3, <3>4
  <2>2. LineRead(g, m, 2, <<>>, <<>>, t, Stream[c])
    <3>1. CrLf \in {CrLf, <<"lf">>}
      OBVIOUS
    <3> QED BY <1>2, <1>3, <1>4, <1>5, <1>10, <2>1, <3>1, LineNext
  <2>3. g.used \in Nat \ {0} /\ g.rest \in Seq(Units)
    BY <2>2 DEF LineRead
  <2>4. CASE g.ok
    <3>1. /\ g.line = <<>> /\ g.used = 2 - Len(conn.line)
          /\ Cat(g.rest, Cat(net.wire, m)) = Cat(<<>>, Stream[c])
      BY <2>2, <2>4 DEF LineRead
    <3>2. conn' = [conn EXCEPT !.line = <<>>, !.state = "DONE"]
      BY <1>11, <2>4, <3>1
    <3>3. conn' \in Conns /\ conn'.state = "DONE" /\ conn'.line = <<>>
      <4>1. "DONE" \in States /\ <<>> \in Seq(Units)
        BY DEF States
      <4> QED BY <1>9, <3>2, <4>1 DEF Conns
    <3>4. calls'[c].footer = F
      <4>1. calls'[c].footer = (F - 2 + Len(conn.line)) + (2 - Len(conn.line))
        BY <1>7, <1>12, <2>1, <3>1, Zenon
      <4>2. \A a, x : a \in Nat /\ x \in Nat => (a - 2 + x) + (2 - x) = a
        OBVIOUS
      <4> QED BY <1>9, <4>1, <4>2, Zenon
    <3>5. Left(d, <<>>)'
      <4>1. Answered(c)' /\ (d.cookie # "" => cookie' = <<d.cookie>>)
        BY <1>1, <1>4, <1>11, <1>12, <1>13, <3>4, ReplyDone DEF F
      <4> QED BY <1>11, <3>3, <4>1 DEF Left
    <3>6. Cat(conn'.line, Cat(buf', Cat(net.wire, m))) = Cat(<<>>, Stream[c])
      <4>1. Cat(g.rest, Cat(net.wire, m)) \in Seq(Units)
        BY <1>14, <2>3, CatType
      <4> QED BY <1>11, <3>1, <3>3, <4>1, CatEmpty
    <3>7. Len(conn'.line) < LineMax /\ \A i \in 1..Len(conn'.line) : conn'.line[i] # "lf"
      BY <3>3, SizesAssumption
    <3>8. buf' \in Seq(Units) /\ conn'.state \notin {"CONNECTED", "STATUS", "HEADER"}
      BY <1>11, <2>3, <3>3
    <3> QED BY <1>1, <1>2, <1>5, <1>11, <1>12, <2>1, <3>3, <3>5, <3>6, <3>7, <3>8, Consumed
  <2>5. CASE ~g.ok
    <3>1. /\ g.rest = <<>> /\ g.line \in Seq(Units) /\ Len(g.line) = Len(conn.line) + g.used
          /\ Len(g.line) < LineMax /\ \A i \in 1..Len(g.line) : g.line[i] # "lf"
          /\ Cat(g.line, Cat(net.wire, m)) = Cat(t, Stream[c]) /\ g.used \in Nat
      BY <2>2, <2>5 DEF LineRead
    <3> QED BY <1>15, <2>5, <3>1
  <2> QED BY <2>4, <2>5
<1>17. CASE j # d.footers
  <2> DEFINE T == FootersFrom(d)[j + 1]
  <2> DEFINE w == <<"footer">>
  <2>0. j \in 0..(d.footers - 1) /\ j + 1 \in 0..d.footers
    BY <1>9, <1>17
  <2>1. /\ t = Cat(Cat(w, CrLf), T) /\ w \in Seq(Words) /\ Len(w) = 1 /\ Len(CrLf) = 2
        /\ T \in Seq(Units) /\ Len(t) = 3 + Len(T)
    <3>1. w \in Seq(Words) /\ Len(w) = 1 /\ T \in Seq(Units) /\ t = Cat(Line(w), T)
      BY <1>4, <1>8, <2>0, FootersLeft
    <3> HIDE DEF w, T
    <3>2. /\ CrLf \in Seq(Units) /\ Len(CrLf) = 2 /\ Line(w) = Cat(w, CrLf)
          /\ Line(w) \in Seq(Units) /\ Len(Line(w)) = Len(w) + 2
      BY <3>1, LineType
    <3>3. Len(t) = Len(Line(w)) + Len(T)
      BY <3>1, <3>2, CatType
    <3>4. 1 + 2 = 3
      OBVIOUS
    <3> QED BY <3>1, <3>2, <3>3, <3>4, Zenon
  <2>2. w # <<>> /\ 3 = Len(w) + Len(CrLf) /\ 3 <= LineMax
    BY <2>1, SizesAssumption
  <2> HIDE DEF T, w
  <2>3. LineRead(g, m, 3, w, T, t, Stream[c])
    <3>1. CrLf \in {CrLf, <<"lf">>}
      OBVIOUS
    <3> QED BY <1>2, <1>3, <1>4, <1>5, <1>10, <2>1, <2>2, <3>1, LineNext
  <2>4. g.used \in Nat \ {0} /\ g.rest \in Seq(Units)
    BY <2>3 DEF LineRead
  <2>5. CASE g.ok
    <3>1. /\ g.line = w /\ g.used = 3 - Len(conn.line)
          /\ Cat(g.rest, Cat(net.wire, m)) = Cat(T, Stream[c])
      BY <2>3, <2>5 DEF LineRead
    <3>2. conn' = [conn EXCEPT !.line = <<>>, !.state = @]
      BY <1>11, <2>2, <2>5, <3>1
    <3>3. conn' \in Conns /\ conn'.state = "FOOTER" /\ conn'.line = <<>>
      <4>1. <<>> \in Seq(Units)
        OBVIOUS
      <4> QED BY <1>2, <1>9, <3>2, <4>1 DEF Conns
    <3>4. calls'[c].footer = F - Len(T) + Len(conn'.line) /\ Len(T) <= Len(Entity(d))
      <4>1. calls'[c].footer = (F - Len(t) + Len(conn.line)) + (3 - Len(conn.line))
        BY <1>7, <1>12, <3>1, Zenon
      <4> DEFINE f == calls'[c].footer
      <4> DEFINE x == Len(conn.line)
      <4> DEFINE y == Len(conn'.line)
      <4> DEFINE b == Len(t)
      <4> DEFINE l == Len(T)
      <4> DEFINE e == Len(Entity(d))
      <4>2. l \in Nat /\ y = 0
        BY <2>1, <3>3
      <4>3. /\ f = (F - b + x) + (3 - x) /\ b = 3 + l /\ b <= e
            /\ F \in Nat /\ b \in Nat /\ x \in Nat /\ e \in Nat
        BY <1>6, <1>9, <2>1, <4>1, Zenon
      <4> HIDE DEF f, x, y, b, l, e
      <4>4. f = F - l + y /\ l <= e
        BY <4>2, <4>3
      <4> QED BY <4>4, Zenon DEF f, l, y, e
    <3>5. Left(d, T)'
      <4>1. InFooters(d, T)'
        BY <1>7, <1>11, <1>12, <2>0, <3>4, Zenon DEF InFooters, Content, F, T
      <4> QED BY <1>13, <3>3, <3>4, <4>1, Zenon DEF Left
    <3>6. Cat(conn'.line, Cat(buf', Cat(net.wire, m))) = Cat(T, Stream[c])
      <4>1. Cat(g.rest, Cat(net.wire, m)) \in Seq(Units)
        BY <1>14, <2>4, CatType
      <4> QED BY <1>11, <3>1, <3>3, <4>1, CatEmpty
    <3>7. Len(conn'.line) < LineMax /\ \A i \in 1..Len(conn'.line) : conn'.line[i] # "lf"
      BY <3>3, SizesAssumption
    <3>8. buf' \in Seq(Units) /\ conn'.state \notin {"CONNECTED", "STATUS", "HEADER"}
      BY <1>11, <2>4, <3>3
    <3> QED BY <1>1, <1>2, <1>5, <1>11, <1>12, <2>1, <3>3, <3>5, <3>6, <3>7, <3>8, Consumed
  <2>6. CASE ~g.ok
    <3>1. /\ g.rest = <<>> /\ g.line \in Seq(Units) /\ Len(g.line) = Len(conn.line) + g.used
          /\ Len(g.line) < LineMax /\ \A i \in 1..Len(g.line) : g.line[i] # "lf"
          /\ Cat(g.line, Cat(net.wire, m)) = Cat(t, Stream[c]) /\ g.used \in Nat
      BY <2>3, <2>6 DEF LineRead
    <3> QED BY <1>15, <2>6, <3>1
  <2> QED BY <2>5, <2>6
<1> QED BY <1>16, <1>17

\* A number that a size_t holds is itself.
LEMMA Remainder == \A x \in 0..(MaxSize - 1) : x % MaxSize = x
<1>1. MaxSize \in Nat \ {0}
  BY SizesAssumption
<1> QED BY <1>1

\* A difference that a size_t holds is what the subtraction of two gives.
LEMMA SizeLeft ==
  ASSUME conn \in Conns, Len(Content) \in Nat, Len(Content) <= conn.content_length
  PROVE  Needed = conn.content_length - Len(Content) /\ Needed \in Nat
<1> DEFINE a == conn.content_length
<1> DEFINE b == Len(Content)
<1>1. a \in 0..Infinite /\ Infinite = MaxSize - 1 /\ MaxSize \in Nat \ {0} /\ b \in Nat /\ b <= a
  BY SizesAssumption DEF Conns, Infinite
<1>2. Needed = (a - b) % MaxSize
  BY Zenon DEF Needed, Content
<1> HIDE DEF a, b
<1>3. a - b \in 0..(MaxSize - 1)
  BY <1>1
<1>5. Needed = a - b /\ a - b \in Nat
  BY <1>2, <1>3, Remainder
<1> QED BY <1>5, Zenon DEF a, b

\* reply_data takes what has come of a content whose length is known or that the end of
\* the connection ends.
LEMMA DataStep ==
  ASSUME ParserInv, Regular(script), LineMax >= 4, reply_data
  PROVE  ParserInv'
<1>1. PICK d : d = script.calls[c]
  OBVIOUS
<1>2. at = "buffer" /\ buf # <<>> /\ conn.state = "DATA"
  BY DEF reply_data, Parsing
<1>3. Typed /\ Placed /\ done < sent
  BY <1>2 DEF ParserInv, Placed
<1>4. /\ c \in 1..NumCalls /\ c <= sent /\ Ordinary(d)
      /\ DOMAIN calls = 1..NumCalls /\ DOMAIN calls[c] = Fields
      /\ calls[c].header \in Nat /\ calls[c].issued \in Nat /\ calls[c].issued >= 1
      /\ Stream[c] \in Seq(Units)
  BY <1>1, <1>2, <1>3, Present
<1>5. PICK m \in Seq(Units), t \in Seq(Units) :
        /\ Unsent(m) /\ Left(d, t)
        /\ Cat(conn.line, Cat(buf, Cat(net.wire, m))) = Cat(t, Stream[c])
  BY <1>1, <1>2, <1>3, Present
<1>6. InData(d, t) /\ PastHead(d) /\ Len(t) <= Len(Entity(d)) /\ calls[c].footer = 0
  BY <1>2, <1>5 DEF Left, Between
<1>60. PICK k : k = Len(Content)
  OBVIOUS
<1> DEFINE e == Len(d.body)
<1> DEFINE n == Least(Len(buf), Needed)
<1> DEFINE size == conn.content_length
<1>61. PICK w : w = Cat(net.wire, m)
  OBVIOUS
<1>7. /\ \/ d.framing = "length" /\ size = e
         \/ d.framing = "eof" /\ size = Infinite
      /\ k \in 0..e /\ k < size /\ conn.line = <<>> /\ t = Rest(d.body, k) /\ Begun(d)
  BY <1>6, <1>60, Zenon DEF InData, Begun
<1>8. /\ conn \in Conns /\ buf \in Seq(Units) /\ Len(buf) \in Nat /\ net.wire \in Seq(Units)
      /\ w \in Seq(Units)
  <2>1. conn \in Conns /\ buf \in Seq(Units) /\ net.wire \in Seq(Units)
    BY <1>3, TypedParts DEF Typed
  <2>2. w \in Seq(Units)
    BY <1>61, <2>1, CatType
  <2> QED BY <2>1, <2>2
<1>9. /\ d.body \in Seq(Units) /\ e \in Nat /\ e \in 0..e /\ e < Infinite
      /\ Infinite \in Nat /\ k \in Nat
  <2>1. d.body \in Seq(Units) /\ e \in Nat /\ e < Infinite /\ Infinite \in Nat
    BY <1>4, BodySize
  <2> HIDE DEF e
  <2> QED BY <1>7, <2>1
<1>10. Needed = size - k /\ Needed \in Nat
  BY <1>7, <1>8, <1>9, <1>60, SizeLeft
<1>11. First(d.body, e) = d.body /\ Rest(d.body, e) = <<>> /\ t = Rest(First(d.body, e), k)
       /\ Len(t) = e - k
  <2>1. First(d.body, e) = d.body /\ Rest(d.body, e) = <<>>
    BY <1>9, Ends0
  <2>2. Len(Rest(d.body, k)) = e - k
    BY <1>7, <1>9, Halves
  <2> HIDE DEF e
  <2> QED BY <1>7, <2>1, <2>2
<1>12. Cat(buf, w) = Cat(t, Stream[c])
  <2>1. Cat(buf, w) \in Seq(Units)
    BY <1>8, CatType
  <2> QED BY <1>5, <1>7, <1>61, <2>1, CatEmpty
<1> HIDE DEF e
<1>13. n <= e - k
  <2>1. CASE d.framing = "length"
    <3>1. Needed = e - k
      BY <1>7, <1>10, <2>1
    <3> QED BY <1>8, <1>10, <3>1 DEF Least
  <2>2. CASE d.framing = "eof"
    <3>1. UntilClosed(d)
      BY <1>6, <2>2 DEF PastHead, UntilClosed
    <3> DEFINE r == Cat(buf, net.wire)
    <3>2. r \in Seq(Units) /\ Cat(r, m) = Cat(t, Stream[c])
      <4>1. Cat(Cat(buf, net.wire), m) = Cat(buf, Cat(net.wire, m))
        BY <1>8, CatAssoc
      <4>2. r \in Seq(Units)
        BY <1>8, CatType
      <4> QED BY <1>12, <1>61, <4>1, <4>2, Zenon
    <3> HIDE DEF r
    <3>3. Served >= c
      <4>1. Len(t) <= Len(Entity(script.calls[c]))
        BY <1>1, <1>6, Zenon
      <4> QED BY <1>3, <1>5, <3>2, <4>1, Arrived
    <3>4. m = Stream[c]
      <4>1. UntilClosed(script.calls[c])
        BY <1>1, <3>1, Zenon
      <4> QED BY <1>3, <1>5, <3>3, <4>1, LastOne
    <3>5. Len(buf) <= Len(t)
      <4>1. Len(Cat(buf, w)) = Len(buf) + Len(w) /\ Len(w) = Len(net.wire) + Len(m)
        BY <1>8, <1>61, CatType
      <4>2. Len(Cat(t, Stream[c])) = Len(t) + Len(m)
        BY <1>4, <3>4, CatType
      <4>3. Len(net.wire) \in Nat /\ Len(m) \in Nat /\ Len(t) \in Nat
        BY <1>8
      <4>4. Len(buf) + (Len(net.wire) + Len(m)) = Len(t) + Len(m)
        BY <1>12, <4>1, <4>2, Zenon
      <4> QED BY <1>8, <4>3, <4>4
    <3>6. Len(buf) <= e - k
      BY <1>11, <3>5, Zenon
    <3> QED BY <1>7, <1>8, <1>9, <1>10, <3>6 DEF Least
  <2> QED BY <1>7, <2>1, <2>2
<1>14. /\ conn' = [conn EXCEPT !.state = IF Len(Data) = Needed THEN "DONE" ELSE @] /\ parse_data
  BY DEF reply_data
<1>15. PICK p : p = n
  OBVIOUS
<1> HIDE DEF n
<1>16. /\ Len(Data) = p /\ p \in Nat /\ k \in Nat /\ k + p <= e
       /\ calls'[c].content = First(d.body, k + p) /\ Len(calls'[c].content) = k + p
       /\ Begun(d)'
       /\ DOMAIN calls' = DOMAIN calls /\ DOMAIN calls'[c] = Fields
       /\ \A i \in 1..NumCalls : i # c => calls'[i] = calls[i]
       /\ calls'[c].status = calls[c].status /\ calls'[c].issued = calls[c].issued
       /\ calls'[c].header = calls[c].header /\ calls'[c].footer = calls[c].footer
       /\ UNCHANGED <<script, sent, done, net, verdict, cookie>>
       /\ buf' \in Seq(Units) /\ (p < Len(buf) => buf' # <<>>)
       /\ at' = IF buf' = <<>> /\ conn'.state # "DONE" THEN "loop" ELSE "buffer"
       /\ Cat(buf', w) = Cat(Rest(First(d.body, e), k + p), Stream[c])
  <2>1. k <= e
    BY <1>7, <1>9
  <2>2. e \in 0..Len(d.body) /\ k = Len(Content)
    BY <1>9, <1>60, Zenon DEF e
  <2>3. p = Least(Len(buf), Needed) /\ p <= e - k
    BY <1>13, <1>15, Zenon DEF n
  <2>4. Cat(buf, w) = Cat(Rest(First(d.body, e), k), Stream[c])
    BY <1>11, <1>12, Zenon
  <2>5. Needed \in Nat /\ Begun(d) /\ buf \in Seq(Units) /\ w \in Seq(Units) /\ parse_data
        /\ Ordinary(d) /\ DOMAIN calls = 1..NumCalls /\ DOMAIN calls[c] = Fields
        /\ c \in 1..NumCalls /\ Stream[c] \in Seq(Units)
    BY <1>4, <1>7, <1>8, <1>10, <1>14, Zenon
  <2>6. PICK y \in Seq(Units) : y = Stream[c]
    BY <2>5
  <2>7. Cat(buf, w) = Cat(Rest(First(d.body, e), k), y)
    BY <2>4, <2>6, Zenon
  <2>8. PICK x : x = e
    OBVIOUS
  <2> HIDE DEF e
  <2>9. k <= x /\ x \in 0..Len(d.body) /\ p <= x - k
        /\ Cat(buf, w) = Cat(Rest(First(d.body, x), k), y)
    BY <2>1, <2>2, <2>3, <2>7, <2>8, Zenon
  <2>10. k = Len(Content) /\ p = Least(Len(buf), Needed)
    BY <2>2, <2>3, Zenon
  <2>11. DataGot(d, x, k, p, w, y)
    BY <2>5, <2>9, <2>10, DataTaken
  <2> QED BY <2>6, <2>8, <2>11, Zenon DEF DataGot
<1> DEFINE T == Rest(First(d.body, e), k + p)
<1>17. PastHead(d)' /\ c' = c
  <2>1. c' = c
    BY <1>16 DEF c
  <2> QED BY <1>6, <1>16, <2>1, PastHeadKept
<1>18. /\ T \in Seq(Units) /\ T = Rest(d.body, k + p) /\ Len(T) <= Len(Entity(d))
       /\ k + p = e => T = <<>>
  <2>1. T = Rest(d.body, k + p)
    BY <1>11, Zenon
  <2>2. k + p \in 0..e /\ k + p >= k
    BY <1>9, <1>16
  <2>3. T \in Seq(Units) /\ Len(T) = e - (k + p)
    BY <1>9, <2>1, <2>2, Halves DEF e
  <2>4. Len(T) <= Len(t)
    <3>1. e - (k + p) <= e - k
      BY <1>9, <1>16
    <3> QED BY <1>11, <2>3, <3>1, Zenon
  <2>5. Len(T) <= Len(Entity(d))
    <3>1. Len(T) \in Nat /\ Len(t) \in Nat /\ Len(Entity(d)) \in Nat
      <4> HIDE DEF T
      <4> QED BY <1>4, <2>3, ReplyShape
    <3> HIDE DEF T
    <3> QED BY <1>6, <2>4, <3>1
  <2>6. k + p = e => T = <<>>
    BY <1>11, <2>1, Zenon
  <2> QED BY <2>1, <2>3, <2>5, <2>6
<1> HIDE DEF T
<1>19. Cat(buf', w) = Cat(T, Stream[c]) /\ Cat(buf', w) \in Seq(Units)
  BY <1>8, <1>16, CatType DEF T
<1>20. calls'[c].header \in Nat /\ calls'[c].footer = 0
  BY <1>4, <1>6, <1>16
<1>21. CASE p = Needed
  <2>1. d.framing = "length"
    <3>1. CASE d.framing = "eof"
      <4>1. p = Infinite - k
        BY <1>7, <1>10, <1>21, <3>1
      <4> QED BY <1>9, <1>16, <4>1
    <3> QED BY <1>7, <3>1
  <2>2. k + p = e
    <3>1. p = e - k
      BY <1>7, <1>10, <1>21, <2>1
    <3> QED BY <1>9, <3>1
  <2>3. conn' \in Conns /\ conn'.state = "DONE" /\ conn'.line = <<>>
    <3>1. conn' = [conn EXCEPT !.state = "DONE"] /\ "DONE" \in States
      BY <1>14, <1>16, <1>21 DEF States
    <3> QED BY <1>7, <1>8, <3>1 DEF Conns
  <2>4. calls'[c].content = d.body
    BY <1>11, <1>16, <2>2, Zenon
  <2>5. calls'[c].footer = Len(Footers(d))
    <3>1. Footers(d) = <<>>
      BY <1>4, <2>1, FootersLeft
    <3> QED BY <1>20, <3>1
  <2>6. Left(d, T)'
    <3>1. Answered(c)' /\ (d.cookie # "" => cookie' = <<d.cookie>>)
      BY <1>1, <1>4, <1>16, <1>17, <2>4, <2>5, ReplyDone
    <3> QED BY <1>16, <1>17, <1>18, <2>2, <2>3, <3>1 DEF Left
  <2>7. Cat(conn'.line, Cat(buf', Cat(net.wire, m))) = Cat(T, Stream[c])
    BY <1>19, <1>61, <2>3, CatEmpty
  <2>8. Len(conn'.line) < LineMax /\ \A i \in 1..Len(conn'.line) : conn'.line[i] # "lf"
    BY <2>3, SizesAssumption
  <2>9. conn'.state \notin {"CONNECTED", "STATUS", "HEADER"}
    BY <2>3
  <2> QED BY <1>1, <1>2, <1>5, <1>16, <1>18, <1>20, <2>3, <2>6, <2>7, <2>8, <2>9, Consumed
<1>22. CASE p # Needed
  <2>1. conn' \in Conns /\ conn'.state = "DATA" /\ conn'.line = <<>>
        /\ conn'.content_length = size
    <3>1. conn' = conn
      <4>1. conn' = [conn EXCEPT !.state = @]
        BY <1>14, <1>16, <1>22
      <4> QED BY <1>8, <4>1 DEF Conns
    <3> QED BY <1>2, <1>7, <1>8, <3>1
  <2>2. k + p < size
    <3>1. p <= Needed
      BY <1>8, <1>10, <1>15 DEF n, Least
    <3>2. size \in Nat
      BY <1>7, <1>9
    <3>3. PICK z : z = size
      OBVIOUS
    <3>4. z \in Nat /\ p < z - k /\ p \in Nat /\ k \in Nat
      BY <1>9, <1>10, <1>16, <1>22, <3>1, <3>2, <3>3
    <3>5. k + p < z
      BY <3>4
    <3> QED BY <3>3, <3>5, Zenon
  <2>3. InData(d, T)'
    <3>1. Len(calls'[c].content) < conn'.content_length
      BY <1>16, <2>1, <2>2, Zenon
    <3>2. T = Rest(d.body, Len(calls'[c].content))
      BY <1>16, <1>18, Zenon
    <3>3. \/ d.framing = "length" /\ conn'.content_length = Len(d.body)
          \/ d.framing = "eof" /\ conn'.content_length = Infinite
      BY <1>7, <2>1, Zenon DEF e
    <3> QED BY <1>16, <1>17, <2>1, <3>1, <3>2, <3>3, Zenon DEF InData, Content
  <2>4. Left(d, T)'
    BY <1>17, <1>18, <1>20, <2>1, <2>3, Zenon DEF Left
  <2>5. Cat(conn'.line, Cat(buf', Cat(net.wire, m))) = Cat(T, Stream[c])
    BY <1>19, <1>61, <2>1, CatEmpty
  <2>6. Len(conn'.line) < LineMax /\ \A i \in 1..Len(conn'.line) : conn'.line[i] # "lf"
    BY <2>1, SizesAssumption
  <2>7. conn'.state \notin {"CONNECTED", "STATUS", "HEADER"}
    BY <2>1
  <2> QED BY <1>1, <1>2, <1>5, <1>16, <1>18, <1>20, <2>1, <2>4, <2>5, <2>6, <2>7, Consumed
<1> QED BY <1>21, <1>22

\* The line that begins a chunk
LEMMA SizeLine ==
  ASSUME NEW n \in 0..(MaxSize - 1), NEW t \in Seq(Units)
  PROVE  /\ <<ToString(n)>> \in Seq(Words) /\ Len(<<ToString(n)>>) = 1
         /\ Cat(Line(<<ToString(n)>>), t) = Cat(Cat(<<ToString(n)>>, CrLf), t)
         /\ <<ToString(n)>> # <<>> /\ <<ToString(n)>>[1] \in Numbers
         /\ Value[<<ToString(n)>>[1]] = n
<1> DEFINE x == ToString(n)
<1>1. x \in Words /\ x \in Numbers /\ Value[x] = n
  BY NumberRead
<1> HIDE DEF x
<1>2. <<x>> \in Seq(Words) /\ Len(<<x>>) = 1 /\ <<x>> # <<>> /\ <<x>>[1] = x
  BY <1>1
<1>3. Line(<<x>>) = Cat(<<x>>, CrLf)
  BY <1>2, LineType
<1> QED BY <1>1, <1>2, <1>3, Zenon DEF x

\* xfer_chunked takes what has come of a chunk, the end of the line after it, or the size of
\* the next one.
LEMMA ChunksStep ==
  ASSUME ParserInv, Regular(script), LineMax >= 4, xfer_chunked
  PROVE  ParserInv'
<1>1. PICK d : d = script.calls[c]
  OBVIOUS
<1>2. at = "buffer" /\ buf # <<>> /\ conn.state = "CHUNKED"
  BY DEF xfer_chunked, Parsing
<1>3. Typed /\ Placed /\ done < sent
  BY <1>2 DEF ParserInv, Placed
<1>4. /\ c \in 1..NumCalls /\ c <= sent /\ Ordinary(d)
      /\ DOMAIN calls = 1..NumCalls /\ DOMAIN calls[c] = Fields
      /\ calls[c].header \in Nat /\ calls[c].issued \in Nat /\ calls[c].issued >= 1
      /\ Stream[c] \in Seq(Units)
  BY <1>1, <1>2, <1>3, Present
<1>5. PICK m \in Seq(Units), t \in Seq(Units) :
        /\ Unsent(m) /\ Left(d, t)
        /\ Cat(conn.line, Cat(buf, Cat(net.wire, m))) = Cat(t, Stream[c])
  BY <1>1, <1>2, <1>3, Present
<1>6. InChunks(d, t) /\ PastHead(d) /\ Len(t) <= Len(Entity(d)) /\ calls[c].footer = 0
  BY <1>2, <1>5 DEF Left, Between
<1>7. PICK k, size, w, y : k = Len(Content) /\ size = conn.content_length
                           /\ w = Cat(net.wire, m) /\ y = Stream[c]
  OBVIOUS
<1>8. PICK i \in 0..Len(Chunks(d)) :
        /\ size = Ends(d, i)
        /\ \/ /\ k <= size /\ conn.line = <<>>
              /\ t = Cat(Rest(First(d.body, size), k), Cat(CrLf, ChunksFrom(d)[i]))
           \/ /\ k = size
              /\ t \in {Cat(CrLf, ChunksFrom(d)[i]), ChunksFrom(d)[i]}
  BY <1>6, <1>7, Zenon DEF InChunks
<1>9. d.framing = "chunked" /\ Begun(d) /\ k \in 0..Len(d.body) /\ Content = First(d.body, k)
  BY <1>6, <1>7, Zenon DEF InChunks, Begun
<1>10. /\ conn \in Conns /\ buf \in Seq(Units) /\ net.wire \in Seq(Units) /\ w \in Seq(Units)
       /\ y \in Seq(Units)
  <2>1. conn \in Conns /\ buf \in Seq(Units) /\ net.wire \in Seq(Units)
    BY <1>3, TypedParts DEF Typed
  <2>2. w \in Seq(Units)
    BY <1>7, <2>1, CatType
  <2> QED BY <1>4, <1>7, <2>1, <2>2
<1>11. /\ d.body \in Seq(Units) /\ Len(d.body) \in Nat /\ Len(d.body) < Infinite
       /\ Infinite = MaxSize - 1 /\ MaxSize \in Nat \ {0}
  BY <1>4, BodySize
<1>12. /\ Len(Chunks(d)) \in Nat /\ ChunksFrom(d)[i] \in Seq(Units) /\ CrLf \in Seq(Units)
       /\ Len(CrLf) = 2 /\ size \in 0..Len(d.body)
  <2>1. Len(Chunks(d)) \in Nat /\ ChunksFrom(d)[i] \in Seq(Units)
    BY <1>4, ChunksLeft
  <2>2. CrLf \in Seq(Units) /\ Len(CrLf) = 2
    <3>1. <<>> \in Seq(Words)
      OBVIOUS
    <3> QED BY <3>1, LineType
  <2>3. size \in 0..Len(d.body)
    <3>1. i \in Nat
      BY <2>1
    <3> QED BY <1>8, <1>11, <3>1 DEF Ends, Least
  <2> QED BY <2>1, <2>2, <2>3
<1> DEFINE z == Cat(CrLf, ChunksFrom(d)[i])
<1>13. z \in Seq(Units) /\ Len(z) = 2 + Len(ChunksFrom(d)[i])
  BY ZenonT(60), <1>12, CatType
<1>14. c' = c /\ UNCHANGED <<script, sent, done, net, verdict, cookie>>
       /\ at' = IF buf' = <<>> /\ conn'.state # "DONE" THEN "loop" ELSE "buffer"
  BY DEF xfer_chunked, parse_data, Consume, c
<1>15. Cat(conn.line, Cat(buf, w)) = Cat(t, y)
  BY <1>5, <1>7, Zenon
<1> DEFINE le == Len(Entity(d))
<1>16. le \in Nat /\ Len(t) <= le /\ Len(t) \in Nat
  BY <1>4, <1>5, <1>6, ReplyShape
<1>20. CASE k < size
  <2>1. /\ conn.line = <<>>
        /\ t = Cat(Rest(First(d.body, size), k), z)
    <3>1. k # size
      BY <1>9, <1>12, <1>20
    <3> QED BY <1>8, <3>1, Zenon
  <2>2. parse_data /\ conn' = conn
    BY <1>7, <1>20 DEF xfer_chunked, Content
  <2>3. Needed = size - k /\ Needed \in Nat
    <3>1. Len(Content) \in Nat /\ Len(Content) <= conn.content_length
      BY <1>7, <1>9, <1>12, <1>20
    <3> QED BY <1>7, <1>10, <3>1, SizeLeft
  <2>4. PICK p : p = Least(Len(buf), Needed)
    OBVIOUS
  <2>5. p <= size - k
    <3>1. Len(buf) \in Nat
      BY <1>10
    <3> QED BY <2>3, <2>4, <3>1 DEF Least
  <2>6. PICK x : x = Cat(z, y)
    OBVIOUS
  <2> HIDE DEF z
  <2>7. /\ Rest(First(d.body, size), k) \in Seq(Units)
        /\ Len(Rest(First(d.body, size), k)) = size - k
    <3>1. k \in 0..size
      BY <1>9, <1>12, <1>20
    <3> QED BY <1>11, <1>12, <3>1, Middle
  <2>8. Cat(buf, w) = Cat(Rest(First(d.body, size), k), x) /\ x \in Seq(Units)
    <3>1. Cat(buf, w) \in Seq(Units)
      BY <1>10, CatType
    <3>2. Cat(buf, w) = Cat(t, y)
      BY <1>15, <2>1, <3>1, CatEmpty
    <3>3. Cat(Cat(Rest(First(d.body, size), k), z), y)
            = Cat(Rest(First(d.body, size), k), Cat(z, y))
      BY <1>10, <1>13, <2>7, CatAssoc
    <3>4. x \in Seq(Units)
      BY <1>10, <1>13, <2>6, CatType
    <3> QED BY <2>1, <2>6, <3>2, <3>3, <3>4, Zenon
  <2>9. DataGot(d, size, k, p, w, x)
    <3>1. k <= size /\ size \in 0..Len(d.body) /\ k = Len(Content)
      BY <1>7, <1>9, <1>12, <1>20
    <3>2. Needed \in Nat /\ Begun(d) /\ buf \in Seq(Units) /\ w \in Seq(Units) /\ parse_data
          /\ Ordinary(d) /\ DOMAIN calls = 1..NumCalls /\ DOMAIN calls[c] = Fields
          /\ c \in 1..NumCalls
      BY <1>4, <1>9, <1>10, <2>2, <2>3, Zenon
    <3> QED BY <2>4, <2>5, <2>8, <3>1, <3>2, DataTaken
  <2>10. /\ Len(Data) = p /\ p \in Nat /\ k \in Nat /\ k + p <= size
         /\ calls'[c].content = First(d.body, k + p) /\ Len(calls'[c].content) = k + p
         /\ Begun(d)'
         /\ DOMAIN calls' = DOMAIN calls /\ DOMAIN calls'[c] = Fields
         /\ \A n \in 1..NumCalls : n # c => calls'[n] = calls[n]
         /\ calls'[c].status = calls[c].status /\ calls'[c].issued = calls[c].issued
         /\ calls'[c].header = calls[c].header /\ calls'[c].footer = calls[c].footer
         /\ buf' \in Seq(Units)
         /\ Cat(buf', w) = Cat(Rest(First(d.body, size), k + p), x)
    BY <2>9, Zenon DEF DataGot
  <2> DEFINE r == Rest(First(d.body, size), k + p)
  <2> DEFINE T == Cat(r, z)
  <2>11. r \in Seq(Units) /\ Len(r) = size - (k + p)
    <3>1. k + p \in 0..size
      BY <1>12, <2>10
    <3> QED BY <1>11, <1>12, <3>1, Middle
  <2> HIDE DEF r
  <2>12. T \in Seq(Units) /\ Len(T) = Len(r) + Len(z)
    BY <1>13, <2>11, CatType
  <2>13. Cat(buf', w) = Cat(T, y)
    <3>1. Cat(Cat(r, z), y) = Cat(r, Cat(z, y))
      BY <1>10, <1>13, <2>11, CatAssoc
    <3> QED BY <2>6, <2>10, <3>1, Zenon DEF r
  <2> HIDE DEF T
  <2>14. Len(T) <= Len(Entity(d))
    <3>1. Len(t) = (size - k) + Len(z)
      BY <1>13, <2>1, <2>7, CatType
    <3>2. Len(z) \in Nat /\ size \in Nat
      BY <1>12, <1>13
    <3>3. Len(T) = (size - (k + p)) + Len(z)
      BY <2>11, <2>12, Zenon
    <3> HIDE DEF le
    <3>4. Len(T) <= le
      BY <1>16, <2>10, <3>1, <3>2, <3>3
    <3> QED BY <3>4 DEF le
  <2>15. PastHead(d)'
    BY <1>6, <1>14, <2>10, PastHeadKept
  <2>16. InChunks(d, T)'
    <3>1. /\ i \in 0..Len(Chunks(d)) /\ conn'.content_length = Ends(d, i)
          /\ Len(calls'[c].content) <= conn'.content_length /\ conn'.line = <<>>
          /\ T = Cat(Rest(First(d.body, conn'.content_length), Len(calls'[c].content)), z)
      BY <1>7, <1>8, <2>1, <2>2, <2>10, Zenon DEF T, r
    <3> QED BY <1>9, <1>14, <2>10, <3>1, Zenon DEF InChunks, Content, z
  <2>17. Left(d, T)'
    <3>1. conn'.state = "CHUNKED" /\ calls'[c'].footer = 0
      BY <1>2, <1>6, <1>14, <2>2, <2>10, Zenon
    <3> QED BY <2>14, <2>15, <2>16, <3>1, Zenon DEF Left
  <2>18. Cat(conn'.line, Cat(buf', Cat(net.wire, m))) = Cat(T, Stream[c])
    <3>1. Cat(buf', w) \in Seq(Units)
      BY <1>10, <2>10, CatType
    <3> QED BY <1>7, <2>1, <2>2, <2>13, <3>1, CatEmpty
  <2>19. Len(conn'.line) < LineMax /\ (\A n \in 1..Len(conn'.line) : conn'.line[n] # "lf")
         /\ conn' \in Conns
    BY <1>10, <2>1, <2>2, SizesAssumption
  <2>20. conn'.state \notin {"CONNECTED", "STATUS", "HEADER"} /\ calls'[c].header \in Nat
    BY <1>2, <1>4, <2>2, <2>10
  <2> QED BY <1>1, <1>2, <1>5, <1>14, <2>10, <2>12, <2>17, <2>18, <2>19, <2>20, Consumed
<1> DEFINE number(g) == g.line # <<>> /\ g.line[1] \in Numbers
<1>21. CASE ~(k < size)
  <2>1. k = size /\ t \in {z, ChunksFrom(d)[i]}
    <3>1. CASE /\ k <= size /\ conn.line = <<>>
               /\ t = Cat(Rest(First(d.body, size), k), z)
      <4>1. k = size
        BY <1>9, <1>12, <1>21, <3>1
      <4>2. Rest(First(d.body, size), k) = <<>>
        <5>1. k \in 0..size /\ size - k = 0
          BY <1>9, <1>12, <4>1
        <5>2. Rest(First(d.body, size), k) \in Seq(Units)
              /\ Len(Rest(First(d.body, size), k)) = 0
          BY <1>11, <1>12, <5>1, Middle
        <5>3. \A q \in Seq(Units) : Len(q) = 0 => q = <<>>
          OBVIOUS
        <5> QED BY <5>2, <5>3
      <4>3. t = z
        <5> HIDE DEF z
        <5>1. Cat(<<>>, z) = z
          BY <1>13, CatEmpty
        <5> QED BY <3>1, <4>2, <5>1, Zenon
      <4> QED BY <4>1, <4>3
    <3>2. CASE k = size /\ t \in {z, ChunksFrom(d)[i]}
      BY <3>2
    <3> QED BY <1>8, <3>1, <3>2, Zenon
  <2> HIDE DEF z
  <2>2. PICK g : g = get_line(buf)
    OBVIOUS
  <2>3. /\ conn' = IF ~g.ok THEN [conn EXCEPT !.line = g.line]
                   ELSE IF ~number(g) THEN [conn EXCEPT !.line = <<>>]
                   ELSE [conn EXCEPT !.line = <<>>,
                           !.content_length = (@ + Value[g.line[1]]) % MaxSize,
                           !.state = IF Value[g.line[1]] = 0 THEN "FOOTER" ELSE @]
        /\ buf' = g.rest /\ calls' = calls
    <3>1. ~(Len(calls[c].content) < conn.content_length)
      BY <1>7, <1>21, Zenon DEF Content
    <3> QED BY <2>2, <3>1, Zenon DEF xfer_chunked, Consume, number
  <2> HIDE DEF number
  <2>4. PastHead(d)'
    BY <1>6, <1>14, <2>3, PastHeadKept
  <2>5. Begun(d)' /\ Len(Content)' = k /\ Content' = Content
    BY <1>7, <1>9, <1>14, <2>3, Zenon DEF Begun, Content
  <2>6. ASSUME NEW T \in Seq(Units), Left(d, T)', conn' \in Conns, Len(conn'.line) < LineMax,
               \A n \in 1..Len(conn'.line) : conn'.line[n] # "lf",
               conn'.state \in {"CHUNKED", "FOOTER"}, g.rest \in Seq(Units),
               Cat(conn'.line, Cat(g.rest, w)) = Cat(T, y)
        PROVE  ParserInv'
    <3>1. Cat(conn'.line, Cat(buf', Cat(net.wire, m))) = Cat(T, Stream[c])
      BY <1>7, <2>3, <2>6, Zenon
    <3>2. DOMAIN calls' = DOMAIN calls /\ DOMAIN calls'[c] = Fields
          /\ \A n \in 1..NumCalls : n # c => calls'[n] = calls[n]
      BY <1>4, <2>3, Zenon
    <3>3. calls'[c].issued = calls[c].issued /\ calls'[c].header \in Nat /\ buf' \in Seq(Units)
      BY <1>4, <2>3, <2>6, Zenon
    <3>4. conn'.state \notin {"CONNECTED", "STATUS", "HEADER"}
      BY <2>6
    <3> QED BY <1>1, <1>2, <1>5, <1>14, <2>6, <3>1, <3>2, <3>3, <3>4, Consumed
  <2>7. ASSUME NEW T \in Seq(Units), g.ok, Left(d, T)', conn' \in Conns, conn'.line = <<>>,
               conn'.state \in {"CHUNKED", "FOOTER"}, g.rest \in Seq(Units),
               Cat(g.rest, Cat(net.wire, m)) = Cat(T, y)
        PROVE  ParserInv'
    <3>1. Cat(conn'.line, Cat(g.rest, w)) = Cat(T, y)
      <4>1. Cat(g.rest, w) \in Seq(Units)
        BY <1>10, <2>7, CatType
      <4> QED BY <1>7, <2>7, <4>1, CatEmpty
    <3>2. Len(conn'.line) < LineMax /\ \A n \in 1..Len(conn'.line) : conn'.line[n] # "lf"
      BY <2>7, SizesAssumption
    <3> QED BY <2>6, <2>7, <3>1, <3>2
  <2>8. ASSUME ~g.ok, g.rest = <<>>, g.line \in Seq(Units),
               Len(g.line) < LineMax, \A n \in 1..Len(g.line) : g.line[n] # "lf",
               Cat(g.line, Cat(net.wire, m)) = Cat(t, y)
        PROVE  ParserInv'
    <3>1. /\ conn' \in Conns /\ conn'.state = "CHUNKED" /\ conn'.line = g.line
          /\ conn'.content_length = size
      <4>1. conn' = [conn EXCEPT !.line = g.line]
        BY <2>3, <2>8
      <4> QED BY <1>2, <1>7, <1>10, <2>8, <4>1 DEF Conns
    <3>2. InChunks(d, t)'
      BY <1>8, <1>9, <2>1, <2>5, <3>1, Zenon DEF InChunks, z
    <3>3. Left(d, t)'
      <4>1. calls'[c'].footer = 0
        BY <1>6, <1>14, <2>3, Zenon
      <4> QED BY <1>6, <2>4, <3>1, <3>2, <4>1, Zenon DEF Left
    <3>4. Cat(conn'.line, Cat(g.rest, w)) = Cat(t, y)
      BY <1>7, <1>10, <2>8, <3>1, CatEmpty
    <3>5. g.rest \in Seq(Units)
      BY <2>8
    <3> QED BY <1>5, <2>6, <2>8, <3>1, <3>3, <3>4, <3>5
  <2>9. calls'[c'].footer = 0
    BY <1>6, <1>14, <2>3, Zenon
  <2>10. CASE t = z
    <3> DEFINE T == ChunksFrom(d)[i]
    <3>1. /\ t = Cat(Cat(<<>>, CrLf), T) /\ <<>> \in Seq(Words)
          /\ 2 = Len(<<>>) + Len(CrLf) /\ 2 <= LineMax /\ CrLf \in {CrLf, <<"lf">>}
      <4>1. Cat(<<>>, CrLf) = CrLf
        BY <1>12, CatEmpty
      <4>2. <<>> \in Seq(Words) /\ 2 = Len(<<>>) + Len(CrLf) /\ 2 <= LineMax
        BY <1>12, SizesAssumption
      <4> QED BY <2>10, <4>1, <4>2, Zenon DEF z
    <3>2. T \in Seq(Units) /\ Len(T) <= Len(Entity(d))
      <4>1. T \in Seq(Units) /\ Len(t) = 2 + Len(T)
        BY <1>12, <1>13, <2>10, Zenon
      <4> HIDE DEF le, T
      <4>2. Len(T) <= le
        BY <1>16, <4>1
      <4> QED BY <4>1, <4>2 DEF le
    <3> HIDE DEF T
    <3>3. LineRead(g, m, 2, <<>>, T, t, y)
      BY <1>2, <1>3, <1>4, <1>5, <1>7, <1>10, <2>2, <3>1, <3>2, LineNext
    <3>4. g.rest \in Seq(Units)
      BY <3>3 DEF LineRead
    <3>5. CASE g.ok
      <4>1. g.line = <<>> /\ Cat(g.rest, Cat(net.wire, m)) = Cat(T, y)
        BY <3>3, <3>5 DEF LineRead
      <4>2. conn' = [conn EXCEPT !.line = <<>>]
        BY <2>3, <3>5, <4>1 DEF number
      <4>3. /\ conn' \in Conns /\ conn'.state = "CHUNKED" /\ conn'.line = <<>>
            /\ conn'.content_length = size
        <5>1. <<>> \in Seq(Units)
          OBVIOUS
        <5> QED BY <1>2, <1>7, <1>10, <4>2, <5>1 DEF Conns
      <4>4. InChunks(d, T)'
        <5>1. T \in {Cat(CrLf, ChunksFrom(d)[i]), ChunksFrom(d)[i]}
          BY DEF T
        <5> QED BY <1>8, <1>9, <2>1, <2>5, <4>3, <5>1, Zenon DEF InChunks
      <4>5. Left(d, T)'
        BY <2>4, <2>9, <3>2, <4>3, <4>4, Zenon DEF Left
      <4> QED BY <2>7, <3>2, <3>4, <3>5, <4>1, <4>3, <4>5
    <3>6. CASE ~g.ok
      <4>1. /\ g.rest = <<>> /\ g.line \in Seq(Units)
            /\ Len(g.line) < LineMax /\ \A n \in 1..Len(g.line) : g.line[n] # "lf"
            /\ Cat(g.line, Cat(net.wire, m)) = Cat(t, y)
        BY <3>3, <3>6 DEF LineRead
      <4> QED BY <2>8, <3>6, <4>1
    <3> QED BY <3>5, <3>6
  <2>11. CASE t = ChunksFrom(d)[i] /\ i = Len(Chunks(d))
    <3>1. PICK T \in Seq(Units) : T = Footers(d)
      BY <1>4, FootersLeft
    <3>2. PICK o : o = <<"0">>
      OBVIOUS
    <3>3. /\ t = Cat(Cat(o, CrLf), T) /\ o \in Seq(Words) /\ Len(o) = 1
          /\ o # <<>> /\ o[1] \in Numbers /\ Value[o[1]] = 0
      <4>1. t = Cat(Line(o), T)
        BY <1>4, <2>11, <3>1, <3>2, ChunksLeft
      <4>2. 0 \in 0..(MaxSize - 1) /\ o = <<ToString(0)>>
        BY <1>11, <3>2, DigitsAssumption
      <4> QED BY <4>1, <4>2, SizeLine
    <3>4. 3 = Len(o) + Len(CrLf) /\ 3 <= LineMax /\ CrLf \in {CrLf, <<"lf">>}
      BY <1>12, <3>3, SizesAssumption
    <3>5. LineRead(g, m, 3, o, T, t, y)
      BY <1>2, <1>3, <1>4, <1>5, <1>7, <1>10, <2>2, <3>3, <3>4, LineNext
    <3>6. g.rest \in Seq(Units)
      BY <3>5 DEF LineRead
    <3>7. Len(T) <= Len(Entity(d)) /\ Len(T) \in Nat
      <4>1. Cat(o, CrLf) \in Seq(Units) /\ Len(Cat(o, CrLf)) \in Nat
        <5>1. Cat(o, CrLf) = Line(o) /\ Line(o) \in Seq(Units)
          BY <3>3, LineType
        <5> QED BY <5>1
      <4>2. Len(t) = Len(Cat(o, CrLf)) + Len(T)
        BY <3>3, <4>1, CatType
      <4>3. Len(T) \in Nat
        OBVIOUS
      <4> HIDE DEF le
      <4>4. Len(T) <= le
        BY <1>16, <4>1, <4>2, <4>3
      <4> QED BY <4>3, <4>4 DEF le
    <3>8. CASE g.ok
      <4>1. g.line = o /\ Cat(g.rest, Cat(net.wire, m)) = Cat(T, y)
        BY <3>5, <3>8 DEF LineRead
      <4>2. conn' = [conn EXCEPT !.line = <<>>, !.content_length = (@ + 0) % MaxSize,
                                 !.state = "FOOTER"]
        BY <2>3, <3>3, <3>8, <4>1 DEF number
      <4>3. (size + 0) % MaxSize = size /\ size \in 0..Infinite
        <5>1. size + 0 = size /\ size \in 0..(MaxSize - 1)
          BY <1>11, <1>12
        <5> QED BY <1>11, <5>1, Remainder
      <4>4. /\ conn' \in Conns /\ conn'.state = "FOOTER" /\ conn'.line = <<>>
        <5>1. <<>> \in Seq(Units) /\ "FOOTER" \in States
          BY DEF States
        <5>2. conn' = [conn EXCEPT !.line = <<>>, !.content_length = size, !.state = "FOOTER"]
          BY <1>7, <1>10, <4>2, <4>3 DEF Conns
        <5> QED BY <1>7, <1>10, <4>3, <5>1, <5>2 DEF Conns
      <4>5. InFooters(d, T)'
        <5>1. Content = d.body
          <6>1. k = Len(d.body)
            BY <1>4, <1>8, <2>1, <2>11, ChunksLeft
          <6>2. First(d.body, Len(d.body)) = d.body
            BY <1>11, Ends0
          <6> QED BY <1>9, <6>1, <6>2, Zenon
        <5>2. 0 \in 0..d.footers /\ T = FootersFrom(d)[0]
          BY <1>4, <1>9, <3>1, FootersLeft
        <5>3. calls'[c'].footer = Len(Footers(d)) - Len(T) + Len(conn'.line)
          <6>1. Len(T) - Len(T) + Len(conn'.line) = 0
            BY <3>7, <4>4
          <6> QED BY <2>9, <3>1, <6>1, Zenon
        <5> QED BY <1>9, <2>5, <5>1, <5>2, <5>3, Zenon DEF InFooters
      <4>6. Left(d, T)'
        BY <2>4, <3>7, <4>4, <4>5, Zenon DEF Left
      <4> QED BY <2>7, <3>6, <3>8, <4>1, <4>4, <4>6
    <3>9. CASE ~g.ok
      <4>1. /\ g.rest = <<>> /\ g.line \in Seq(Units)
            /\ Len(g.line) < LineMax /\ \A n \in 1..Len(g.line) : g.line[n] # "lf"
            /\ Cat(g.line, Cat(net.wire, m)) = Cat(t, y)
        BY <3>5, <3>9 DEF LineRead
      <4> QED BY <2>8, <3>9, <4>1
    <3> QED BY <3>8, <3>9
  <2>12. CASE t = ChunksFrom(d)[i] /\ i # Len(Chunks(d))
    <3>1. i \in 0..(Len(Chunks(d)) - 1) /\ i + 1 \in 0..Len(Chunks(d))
      BY <1>12, <2>12
    <3>2. PICK e, f : e = Ends(d, i + 1) /\ f = ChunksFrom(d)[i + 1]
      OBVIOUS
    <3>3. /\ e \in 0..Len(d.body) /\ e - size \in 1..2 /\ f \in Seq(Units)
          /\ t = Cat(Line(<<ToString(e - size)>>),
                     Cat(Rest(First(d.body, e), size), Cat(CrLf, f)))
      <4>1. Ends(d, i + 1) \in 0..Len(d.body) /\ Ends(d, i + 1) - Ends(d, i) \in 1..2
        BY <1>4, <3>1, ChunkEnds
      <4>2. ChunksFrom(d)[i + 1] \in Seq(Units)
        BY <1>4, <3>1, ChunksLeft
      <4>3. ChunksFrom(d)[i] =
                Cat(Line(<<ToString(Ends(d, i + 1) - Ends(d, i))>>),
                    Cat(Rest(First(d.body, Ends(d, i + 1)), Ends(d, i)),
                        Cat(CrLf, ChunksFrom(d)[i + 1])))
        BY <1>4, <3>1, ChunksLeft
      <4> QED BY <1>8, <2>12, <3>2, <4>1, <4>2, <4>3, Zenon
    <3>4. PICK n : n = e - size
      OBVIOUS
    <3>5. n \in 0..(MaxSize - 1) /\ n # 0 /\ size \in 0..e /\ size + n = e
          /\ e \in 0..(MaxSize - 1) /\ e \in 0..Infinite
      <4>1. n \in 1..2 /\ size \in Nat /\ e \in Nat /\ n = e - size /\ e <= Len(d.body)
        BY <1>12, <3>3, <3>4
      <4> QED BY <1>11, <4>1
    <3>6. PICK T : T = Cat(Rest(First(d.body, e), size), Cat(CrLf, f))
      OBVIOUS
    <3>7. T \in Seq(Units)
      <4>1. Rest(First(d.body, e), size) \in Seq(Units)
        BY <1>11, <3>3, <3>5, Middle
      <4>2. Cat(CrLf, f) \in Seq(Units)
        BY <1>12, <3>3, CatType
      <4> QED BY <3>6, <4>1, <4>2, CatType
    <3>8. PICK o : o = <<ToString(n)>>
      OBVIOUS
    <3>9. /\ t = Cat(Cat(o, CrLf), T) /\ o \in Seq(Words) /\ Len(o) = 1
          /\ o # <<>> /\ o[1] \in Numbers /\ Value[o[1]] = n
      <4>1. t = Cat(Line(<<ToString(n)>>), T)
        BY <3>3, <3>4, <3>6, Zenon
      <4> QED BY <3>5, <3>7, <3>8, <4>1, SizeLine
    <3>10. 3 = Len(o) + Len(CrLf) /\ 3 <= LineMax /\ CrLf \in {CrLf, <<"lf">>}
      BY <1>12, <3>9, SizesAssumption
    <3>11. LineRead(g, m, 3, o, T, t, y)
      BY <1>2, <1>3, <1>4, <1>5, <1>7, <1>10, <2>2, <3>7, <3>9, <3>10, LineNext
    <3>12. g.rest \in Seq(Units)
      BY <3>11 DEF LineRead
    <3>13. Len(T) <= Len(Entity(d)) /\ Len(T) \in Nat
      <4>1. Cat(o, CrLf) \in Seq(Units) /\ Len(Cat(o, CrLf)) \in Nat
        <5>1. Cat(o, CrLf) = Line(o) /\ Line(o) \in Seq(Units)
          BY <3>9, LineType
        <5> QED BY <5>1
      <4>2. Len(t) = Len(Cat(o, CrLf)) + Len(T)
        BY <3>7, <3>9, <4>1, CatType
      <4>3. Len(T) \in Nat
        BY <3>7
      <4> HIDE DEF le
      <4>4. Len(T) <= le
        BY <1>16, <4>1, <4>2, <4>3
      <4> QED BY <4>3, <4>4 DEF le
    <3>14. CASE g.ok
      <4>1. g.line = o /\ Cat(g.rest, Cat(net.wire, m)) = Cat(T, y)
        BY <3>11, <3>14 DEF LineRead
      <4>2. conn' = [conn EXCEPT !.line = <<>>, !.content_length = (@ + n) % MaxSize,
                                 !.state = @]
        BY <2>3, <3>5, <3>9, <3>14, <4>1 DEF number
      <4>3. (size + n) % MaxSize = e
        <5>1. size + n = e /\ e \in 0..(MaxSize - 1)
          BY <3>5
        <5> QED BY <5>1, Remainder
      <4>4. /\ conn' \in Conns /\ conn'.state = "CHUNKED" /\ conn'.line = <<>>
            /\ conn'.content_length = e
        <5>1. <<>> \in Seq(Units)
          OBVIOUS
        <5>2. conn' = [conn EXCEPT !.line = <<>>, !.content_length = e]
          BY <1>7, <1>10, <4>2, <4>3 DEF Conns
        <5> QED BY <1>2, <1>10, <3>5, <5>1, <5>2 DEF Conns
      <4>5. InChunks(d, T)'
        <5>1. k <= conn'.content_length
          BY <2>1, <3>5, <4>4
        <5>2. T = Cat(Rest(First(d.body, conn'.content_length), k), Cat(CrLf, f))
          BY <2>1, <3>6, <4>4, Zenon
        <5> QED BY <1>9, <2>5, <3>1, <3>2, <4>4, <5>1, <5>2, Zenon DEF InChunks
      <4>6. Left(d, T)'
        BY <2>4, <2>9, <3>13, <4>4, <4>5, Zenon DEF Left
      <4> QED BY <2>7, <3>7, <3>12, <3>14, <4>1, <4>4, <4>6
    <3>15. CASE ~g.ok
      <4>1. /\ g.rest = <<>> /\ g.line \in Seq(Units)
            /\ Len(g.line) < LineMax /\ \A j \in 1..Len(g.line) : g.line[j] # "lf"
            /\ Cat(g.line, Cat(net.wire, m)) = Cat(t, y)
        BY <3>11, <3>15 DEF LineRead
      <4> QED BY <2>8, <3>15, <4>1
    <3> QED BY <3>14, <3>15
  <2> QED BY <2>1, <2>10, <2>11, <2>12
<1> QED BY <1>20, <1>21

-----------------------------------------------------------------------------
(* The steps between two replies *)

\* The place in a reply does not move when nothing of the parser's changes.
LEMMA LeftKept ==
  ASSUME NEW d, NEW t, Left(d, t), script' = script, c' = c, conn' = conn,
         calls'[c] = calls[c], cookie' = cookie,
         at' = at \/ (conn.state # "DONE")
  PROVE  Left(d, t)'
<1>1. conn.state = "DONE" => at' = at
  OBVIOUS
<1>2. Between' <=> Between
  BY <1>1 DEF Between
<1>3. ASSUME NEW x PROVE Counted(d, x)' <=> Counted(d, x)
  BY Zenon DEF Counted
<1>4. ASSUME NEW k PROVE Told(d, k)' <=> Told(d, k)
  BY Zenon DEF Told
<1>5. InHead(d, t)' <=> InHead(d, t)
  BY <1>3, <1>4, Zenon DEF InHead
<1>6. PastHead(d)' <=> PastHead(d)
  BY <1>3, Zenon DEF PastHead
<1>7. Begun(d)' <=> Begun(d)
  BY Zenon DEF Begun, Content
<1>8. Content' = Content
  BY Zenon DEF Content
<1>9. InData(d, t)' <=> InData(d, t)
  BY <1>7, <1>8, Zenon DEF InData
<1>10. InChunks(d, t)' <=> InChunks(d, t)
  BY <1>7, <1>8, Zenon DEF InChunks
<1>11. InFooters(d, t)' <=> InFooters(d, t)
  BY <1>8, Zenon DEF InFooters
<1>12. Answered(c)' <=> Answered(c)
  BY Zenon DEF Answered
<1>13. CASE Between /\ t = Encode(d)
  BY <1>2, <1>13, Zenon DEF Left
<1>14. CASE conn.state = "HEADER" /\ InHead(d, t)
  BY <1>5, <1>14, Zenon DEF Left
<1>15. CASE /\ Len(t) <= Len(Entity(d)) /\ PastHead(d)
            /\ \/ conn.state = "DATA" /\ InData(d, t) /\ calls[c].footer = 0
               \/ conn.state = "CHUNKED" /\ InChunks(d, t) /\ calls[c].footer = 0
               \/ conn.state = "FOOTER" /\ InFooters(d, t)
  BY <1>6, <1>9, <1>10, <1>11, <1>15, Zenon DEF Left
<1>16. CASE /\ conn.state = "DONE" /\ at = "buffer" /\ conn.line = <<>> /\ t = <<>>
            /\ Answered(c) /\ (d.cookie # "" => cookie = <<d.cookie>>)
  BY <1>1, <1>12, <1>16, Zenon DEF Left
<1> QED BY <1>13, <1>14, <1>15, <1>16, Zenon DEF Left

\* A reply has been taken, and the next one begins.
LEMMA NextReply ==
  ASSUME ParserInv, Regular(script), done < sent, at # "closed",
         NEW m \in Seq(Units), Unsent(m), Cat(buf, Cat(net.wire, m)) = Stream[c],
         Answered(c), conn' \in Conns, conn'.line = <<>>, done' = done + 1,
         UNCHANGED <<script, calls, sent, net, buf>>, verdict' = "none",
         at' = IF done' = NumCalls THEN "closed" ELSE IF buf = <<>> THEN "loop" ELSE "buffer",
         at' = "buffer" => done' < sent,
         \/ conn'.state = "STATUS"
         \/ conn'.state = "DONE" /\ buf = <<>> /\ net.eof /\ net.wire = <<>>
  PROVE  ParserInv'
<1>1. Typed /\ Placed /\ Pending /\ \A i \in 1..done : Answered(i)
  BY DEF ParserInv
<1>2. /\ NumCalls \in Nat /\ done \in 0..NumCalls /\ sent \in done..NumCalls
      /\ Served' = Served /\ NumCalls' = NumCalls /\ Stream' = Stream
      /\ c' = c + 1 /\ c = done + 1 /\ c \in 1..NumCalls
  <2>1. NumCalls \in Nat /\ done \in 0..NumCalls /\ sent \in done..NumCalls
    BY <1>1, Counters
  <2>2. NumCalls' = NumCalls /\ c' = c + 1 /\ c = done + 1 /\ Served' = Served
    BY DEF NumCalls, c, Served
  <2>3. Stream' = Stream
    BY DEF Stream, NumCalls
  <2> QED BY <2>1, <2>2, <2>3
<1>3. Between' \/ at' = "closed"
  BY DEF Between
<1>4. Typed'
  <2>1. done' \in 0..NumCalls /\ sent \in done'..NumCalls
    BY <1>2
  <2>2. at' \in {"loop", "buffer", "closed"}
    OBVIOUS
  <2>3. /\ script' \in Scripts /\ net' \in Nets /\ buf' \in Seq(Units)
        /\ DOMAIN calls' = 1..NumCalls /\ \A i \in 1..NumCalls : DOMAIN calls'[i] = Fields
    BY <1>1 DEF Typed
  <2> QED BY <1>2, <2>1, <2>2, <2>3 DEF Typed
<1>5. Placed'
  <2>1. at' = "loop" => buf' = <<>>
    OBVIOUS
  <2>2. Len(conn'.line) < LineMax /\ \A i \in 1..Len(conn'.line) : conn'.line[i] # "lf"
    BY SizesAssumption
  <2>3. net'.base <= done' /\ Served' <= sent'
    <3>1. net.base <= done /\ Served <= sent /\ net.base \in Nat
      BY <1>1, Counters
    <3> QED BY <1>2, <3>1
  <2>4. at' = "buffer" \/ ~Between' =>
          done' < sent' \/ (at' = "closed" /\ done' = NumCalls')
    BY <1>2, <1>3
  <2>5. conn'.state = "DONE" /\ at' = "loop" => net'.eof /\ net'.wire = <<>>
    OBVIOUS
  <2> QED BY <2>1, <2>2, <2>3, <2>4, <2>5 DEF Placed
<1>6. Pending'
  <2> SUFFICES ASSUME NEW i \in (c + 1)..NumCalls
               PROVE  /\ calls[i].header \in Nat /\ calls[i].issued \in Nat
                      /\ i <= sent => calls[i].issued >= 1
                      /\ calls[i].content = <<>> /\ calls[i].footer = 0
                      /\ (calls[i].issued = 0 \/ (calls[i].issued = 1 /\ i <= sent)) =>
                           calls[i].header = 0
    BY <1>2, Zenon DEF Pending
  <2>1. i \in c..NumCalls /\ i > c
    BY <1>2
  <2> QED BY <1>1, <2>1, Zenon DEF Pending
<1>7. InStep'
  <2> SUFFICES ASSUME at' # "closed", done' < NumCalls'
               PROVE  (\E q, t \in Seq(Units) :
                         /\ Unsent(q) /\ Left(script.calls[c], t)
                         /\ Cat(conn.line, Cat(buf, Cat(net.wire, q))) = Cat(t, Stream[c]))'
    BY Zenon DEF InStep
  <2>1. c \in 0..(NumCalls - 1) /\ c + 1 \in 1..NumCalls
    BY <1>2
  <2>2. PICK d : d = script.calls[c + 1]
    OBVIOUS
  <2>3. /\ Stream[c] = Cat(Encode(d), Stream[c + 1]) /\ Stream[c] \in Seq(Units)
        /\ Ordinary(d)
    <3>1. c \in 0..NumCalls
      BY <1>2
    <3>2. Ordinary(d)
      BY <2>1, <2>2, StreamLeft
    <3>3. Stream[c] \in Seq(Units)
      BY <3>1, StreamLeft
    <3>4. Stream[c] = Cat(Encode(script.calls[c + 1]), Stream[c + 1])
      BY <2>1, StreamLeft
    <3> QED BY <2>2, <3>2, <3>3, <3>4, Zenon
  <2>4. Unsent(m)'
    BY <1>2, Zenon DEF Unsent
  <2>5. Left(d, Encode(d))' /\ Encode(d) \in Seq(Units)
    <3>1. Between'
      BY <1>3
    <3> QED BY <2>3, <3>1, ReplyShape, Zenon DEF Left
  <2>6. Cat(conn'.line, Cat(buf', Cat(net'.wire, m))) = Cat(Encode(d), Stream[c + 1])
    <3>1. Cat(<<>>, Stream[c]) = Stream[c]
      BY <2>3, CatEmpty
    <3> QED BY <2>3, <3>1, Zenon
  <2>7. (script.calls[c])' = d /\ (Stream[c])' = Stream[c + 1]
    BY <1>2, <2>2, Zenon
  <2>8. Left(script.calls[c], Encode(d))'
    BY <2>5, <2>7, Zenon
  <2> QED BY <2>4, <2>5, <2>6, <2>7, <2>8, Zenon
<1>8. ASSUME NEW i \in 1..(done + 1) PROVE Answered(i)'
  <2>1. i \in 1..done \/ i = c
    BY <1>2
  <2>2. Answered(i)
    BY <1>1, <2>1, Zenon
  <2> QED BY <2>2, Zenon DEF Answered
<1> QED BY <1>4, <1>5, <1>6, <1>7, <1>8, Zenon DEF ParserInv

\* recv_done turns to the next call, whose reply begins with the units that are left.
LEMMA DoneStep ==
  ASSUME ParserInv, Regular(script), recv_done
  PROVE  ParserInv'
<1>1. PICK d : d = script.calls[c]
  OBVIOUS
<1>2. at = "buffer" /\ conn.state = "DONE" /\ verdict = "none"
  BY DEF recv_done
<1>3. Typed /\ Placed /\ done < sent
  BY <1>2 DEF ParserInv, Placed
<1>4. c \in 1..NumCalls /\ c <= sent /\ Ordinary(d) /\ Stream[c] \in Seq(Units)
  BY <1>1, <1>2, <1>3, Present
<1>5. PICK m \in Seq(Units), t \in Seq(Units) :
        /\ Unsent(m) /\ Left(d, t)
        /\ Cat(conn.line, Cat(buf, Cat(net.wire, m))) = Cat(t, Stream[c])
  BY <1>1, <1>2, <1>3, Present
<1>6. conn.line = <<>> /\ t = <<>> /\ Answered(c)
  BY <1>2, <1>5 DEF Left, Between
<1>7. conn \in Conns /\ buf \in Seq(Units) /\ net.wire \in Seq(Units)
  BY <1>3, TypedParts DEF Typed
<1>8. Cat(buf, Cat(net.wire, m)) = Stream[c]
  <2>1. Cat(buf, Cat(net.wire, m)) \in Seq(Units)
    BY <1>7, CatType
  <2> QED BY <1>4, <1>5, <1>6, <2>1, CatEmpty
<1>9. /\ done' = done + 1 /\ conn' = [conn EXCEPT !.state = "STATUS", !.successful = TRUE]
      /\ at' = IF done' = NumCalls THEN "closed" ELSE IF buf = <<>> THEN "loop" ELSE "buffer"
      /\ verdict' = IF buf = <<>> \/ done' < sent \/ done' = NumCalls THEN verdict ELSE "assert"
      /\ UNCHANGED <<script, calls, sent, net, buf>>
  BY DEF recv_done, RecvDone
<1>10. conn' \in Conns /\ conn'.state = "STATUS" /\ conn'.line = <<>>
  <2>1. "STATUS" \in States
    BY DEF States
  <2> QED BY <1>6, <1>7, <1>9, <2>1 DEF Conns
<1>11. buf # <<>> => done' < sent
  <2>1. SUFFICES ASSUME buf # <<>> PROVE c < sent
    BY <1>9 DEF c
  <2> DEFINE r == Cat(buf, net.wire)
  <2>2. r \in Seq(Units) /\ Len(r) = Len(buf) + Len(net.wire)
    BY <1>7, CatType
  <2>3. Cat(r, m) = Stream[c]
    BY <1>7, <1>8, CatAssoc
  <2> HIDE DEF r
  <2>4. r # <<>>
    <3>1. Len(buf) \in Nat \ {0} /\ Len(net.wire) \in Nat
      BY <1>7, <2>1
    <3>2. Len(r) # 0
      BY <2>2, <3>1
    <3> QED BY <3>2
  <2>5. c \in 0..NumCalls
    BY <1>4
  <2> QED BY <1>3, <1>5, <2>2, <2>3, <2>4, <2>5, Owed
<1>12. verdict' = "none" /\ (at' = "buffer" => done' < sent)
  BY <1>2, <1>9, <1>11
<1> QED BY <1>2, <1>3, <1>5, <1>6, <1>8, <1>9, <1>10, <1>12, NextReply

\* A sequence in which a line ends
HasLf(s) == \E i \in 1..Len(s) : s[i] = "lf"

\* An end of line in a part is one in the whole.
LEMMA LfWithin ==
  \A s, t \in Seq(Units) : HasLf(s) \/ HasLf(t) => HasLf(Cat(s, t))
<1> SUFFICES ASSUME NEW s \in Seq(Units), NEW t \in Seq(Units), HasLf(s) \/ HasLf(t)
             PROVE  HasLf(Cat(s, t))
  OBVIOUS
<1>1. /\ Len(Cat(s, t)) = Len(s) + Len(t) /\ Len(s) \in Nat /\ Len(t) \in Nat
      /\ \A i \in 1..Len(s) : Cat(s, t)[i] = s[i]
      /\ \A i \in 1..Len(t) : Cat(s, t)[Len(s) + i] = t[i]
  <2>1. Len(Cat(s, t)) = Len(s) + Len(t)
    BY CatType
  <2>2. /\ \A i \in 1..Len(s) : Cat(s, t)[i] = s[i]
        /\ \A i \in 1..Len(t) : Cat(s, t)[Len(s) + i] = t[i]
    BY CatAt, Zenon
  <2>3. Len(s) \in Nat /\ Len(t) \in Nat
    OBVIOUS
  <2> QED BY <2>1, <2>2, <2>3
<1>2. CASE HasLf(s)
  <2>1. PICK i \in 1..Len(s) : s[i] = "lf"
    BY <1>2 DEF HasLf
  <2>2. i \in 1..Len(Cat(s, t)) /\ Cat(s, t)[i] = "lf"
    BY <1>1, <2>1
  <2> QED BY <2>2 DEF HasLf
<1>3. CASE HasLf(t)
  <2>1. PICK i \in 1..Len(t) : t[i] = "lf"
    BY <1>3 DEF HasLf
  <2>2. Len(s) + i \in 1..Len(Cat(s, t)) /\ Cat(s, t)[Len(s) + i] = "lf"
    BY <1>1, <2>1
  <2> QED BY <2>2 DEF HasLf
<1> QED BY <1>2, <1>3

\* Chunks and footers end with a line.
LEMMA LfToCome ==
  ASSUME NEW d, Ordinary(d), NEW t,
         \/ InFooters(d, t)
         \/ InChunks(d, t)
  PROVE  t \in Seq(Units) => HasLf(t)
<1> SUFFICES ASSUME t \in Seq(Units) PROVE HasLf(t)
  OBVIOUS
<1>1. CrLf \in Seq(Units) /\ HasLf(CrLf)
  <2>1. CrLf \in Seq(Units) /\ 2 \in 1..Len(CrLf) /\ CrLf[2] = "lf"
    BY Literals DEF CrLf
  <2> QED BY <2>1 DEF HasLf
<1>2. ASSUME NEW w \in Seq(Words) PROVE Line(w) \in Seq(Units) /\ HasLf(Line(w))
  <2>1. w \in Seq(Units) /\ Line(w) = Cat(w, CrLf) /\ Line(w) \in Seq(Units)
    BY LineType
  <2> QED BY <1>1, <2>1, LfWithin
<1>3. CASE InFooters(d, t)
  <2>1. PICK j \in 0..d.footers : t = FootersFrom(d)[j]
    BY <1>3 DEF InFooters
  <2>2. d.footers \in Nat
    BY FootersLeft
  <2>3. CASE j = d.footers
    <3>1. t = CrLf
      BY <2>1, <2>3, FootersLeft
    <3> QED BY <1>1, <3>1
  <2>4. CASE j # d.footers
    <3>1. j \in 0..(d.footers - 1) /\ j + 1 \in 0..d.footers
      BY <2>2, <2>4
    <3>2. t = Cat(Line(<<"footer">>), FootersFrom(d)[j + 1])
          /\ FootersFrom(d)[j + 1] \in Seq(Units) /\ <<"footer">> \in Seq(Words)
      BY <2>1, <3>1, FootersLeft
    <3>3. Line(<<"footer">>) \in Seq(Units) /\ HasLf(Line(<<"footer">>))
      BY <1>2, <3>2
    <3> QED BY <3>2, <3>3, LfWithin
  <2> QED BY <2>3, <2>4
<1>4. CASE InChunks(d, t)
  <2>1. PICK i \in 0..Len(Chunks(d)) :
          /\ conn.content_length = Ends(d, i)
          /\ \/ /\ Len(Content) <= conn.content_length
                /\ t = Cat(Rest(First(d.body, conn.content_length), Len(Content)),
                           Cat(CrLf, ChunksFrom(d)[i]))
             \/ t \in {Cat(CrLf, ChunksFrom(d)[i]), ChunksFrom(d)[i]}
    BY <1>4, Zenon DEF InChunks
  <2>2. ChunksFrom(d)[i] \in Seq(Units) /\ Len(Chunks(d)) \in Nat
    BY ChunksLeft
  <2>3. /\ Cat(CrLf, ChunksFrom(d)[i]) \in Seq(Units)
        /\ HasLf(Cat(CrLf, ChunksFrom(d)[i]))
    BY <1>1, <2>2, LfWithin, CatType
  <2>4. CASE t = ChunksFrom(d)[i]
    <3>1. CASE i = Len(Chunks(d))
      <4>1. t = Cat(Line(<<"0">>), Footers(d))
        BY <2>4, <3>1, ChunksLeft
      <4>2. <<"0">> \in Seq(Words) /\ Footers(d) \in Seq(Units)
        BY Literals, FootersLeft
      <4>3. Line(<<"0">>) \in Seq(Units) /\ HasLf(Line(<<"0">>))
        BY <1>2, <4>2
      <4> QED BY <4>1, <4>2, <4>3, LfWithin
    <3>2. CASE i # Len(Chunks(d))
      <4>1. i \in 0..(Len(Chunks(d)) - 1) /\ i + 1 \in 0..Len(Chunks(d))
        BY <2>2, <3>2
      <4>2. PICK e, b, f : e = Ends(d, i + 1) /\ b = Ends(d, i) /\ f = ChunksFrom(d)[i + 1]
        OBVIOUS
      <4>3. b \in 0..Len(d.body) /\ e \in 0..Len(d.body) /\ e - b \in 1..2
        BY <4>1, <4>2, ChunkEnds
      <4>4. t = Cat(Line(<<ToString(e - b)>>), Cat(Rest(First(d.body, e), b), Cat(CrLf, f)))
        BY <2>4, <4>1, <4>2, ChunksLeft
      <4>5. f \in Seq(Units)
        BY <4>1, <4>2, ChunksLeft
      <4>6. Cat(Rest(First(d.body, e), b), Cat(CrLf, f)) \in Seq(Units)
        <5>1. d.body \in Seq(Units) /\ b \in 0..e
          BY <4>3, BodySize
        <5>2. Rest(First(d.body, e), b) \in Seq(Units)
          BY <4>3, <5>1, Middle
        <5> QED BY <1>1, <4>5, <5>2, CatType
      <4>7. <<ToString(e - b)>> \in Seq(Words)
        <5>1. e - b \in 0..(MaxSize - 1)
          BY <4>3, BodySize
        <5>2. ToString(e - b) \in Words
          BY <5>1, NumberRead
        <5> QED BY <5>2
      <4>8. Line(<<ToString(e - b)>>) \in Seq(Units) /\ HasLf(Line(<<ToString(e - b)>>))
        BY <1>2, <4>7
      <4> QED BY <4>4, <4>6, <4>8, LfWithin
    <3> QED BY <3>1, <3>2
  <2>5. CASE t = Cat(CrLf, ChunksFrom(d)[i])
    BY <2>3, <2>5
  <2>6. CASE /\ Len(Content) <= conn.content_length
             /\ t = Cat(Rest(First(d.body, conn.content_length), Len(Content)),
                        Cat(CrLf, ChunksFrom(d)[i]))
    <3>1. PICK k, e : k = Len(Content) /\ e = conn.content_length
      OBVIOUS
    <3>2. k \in 0..e /\ e \in 0..Len(d.body) /\ d.body \in Seq(Units)
      <4>1. d.body \in Seq(Units) /\ Len(d.body) \in Nat
        BY BodySize
      <4>2. i \in Nat /\ e = Ends(d, i) /\ k <= e
        BY <2>1, <2>2, <2>6, <3>1
      <4>3. k \in 0..Len(d.body)
        BY <1>4, <3>1, Zenon DEF InChunks, Begun
      <4>4. e \in 0..Len(d.body)
        BY <4>1, <4>2 DEF Ends, Least
      <4> QED BY <4>1, <4>2, <4>3, <4>4
    <3>3. Rest(First(d.body, e), k) \in Seq(Units)
      BY <3>2, Middle
    <3> QED BY <2>3, <2>6, <3>1, <3>3, LfWithin
  <2> QED BY <2>1, <2>4, <2>5, <2>6, Zenon
<1> QED BY <1>3, <1>4

\* When the server has closed and everything is read, no chunk and no footer is missing.
LEMMA AllRead ==
  ASSUME Typed, Placed, Regular(script), done < sent, NEW m \in Seq(Units), Unsent(m),
         NEW t \in Seq(Units), NEW d, d = script.calls[c], Ordinary(d),
         Len(t) <= Len(Entity(d)), Cat(conn.line, m) = Cat(t, Stream[c])
  PROVE  Served >= c /\ Len(t) <= Len(conn.line) /\ ~HasLf(t)
<1>1. /\ NumCalls \in Nat /\ sent \in 0..NumCalls /\ done \in 0..NumCalls /\ c = done + 1
  BY Counters DEF c
<1>2. conn.line \in Seq(Units) /\ \A i \in 1..Len(conn.line) : conn.line[i] # "lf"
  BY TypedParts DEF Placed
<1>3. Served >= c /\ Len(m) <= Len(Stream[c])
  BY <1>2, Arrived
<1>4. Stream[c] \in Seq(Units)
  <2>1. c \in 0..NumCalls
    BY <1>1
  <2> QED BY <2>1, StreamLeft
<1>5. Len(t) <= Len(conn.line)
  <2>1. Len(Cat(conn.line, m)) = Len(conn.line) + Len(m)
    BY <1>2, CatType
  <2>2. Len(Cat(t, Stream[c])) = Len(t) + Len(Stream[c])
    BY <1>4, CatType
  <2>3. Len(conn.line) \in Nat /\ Len(m) \in Nat /\ Len(t) \in Nat /\ Len(Stream[c]) \in Nat
    BY <1>2, <1>4
  <2> QED BY <1>3, <2>1, <2>2, <2>3
<1>6. ASSUME NEW i \in 1..Len(t) PROVE t[i] # "lf"
  <2>1. i \in 1..Len(conn.line)
    BY <1>2, <1>5
  <2>2. Cat(conn.line, m)[i] = conn.line[i]
    BY <1>2, <2>1, CatAt
  <2>3. Cat(t, Stream[c])[i] = t[i]
    BY <1>4, CatAt
  <2> QED BY <1>2, <2>1, <2>2, <2>3
<1> QED BY <1>3, <1>5, <1>6 DEF HasLf

\* The end of file ends a reply that is read to its end, and has another connection
\* begin with the call that is not answered.
LEMMA EofStep ==
  ASSUME ParserInv, Regular(script), ReadEof
  PROVE  ParserInv'
<1>1. PICK d : d = script.calls[c]
  OBVIOUS
<1>2. /\ at = "loop" /\ verdict = "none" /\ done < sent /\ net.wire = <<>> /\ net.eof
      /\ UNCHANGED <<script, calls, cookie, buf, verdict>>
  BY DEF ReadEof, Waiting
<1>3. Typed /\ Placed /\ Pending /\ \A i \in 1..done : Answered(i)
  BY <1>2 DEF ParserInv
<1>4. /\ c \in 1..NumCalls /\ c <= sent /\ Ordinary(d) /\ Stream[c] \in Seq(Units)
      /\ calls[c].issued >= 1
  BY <1>1, <1>2, Present
<1>5. PICK m \in Seq(Units), t \in Seq(Units) :
        /\ Unsent(m) /\ Left(d, t)
        /\ Cat(conn.line, Cat(buf, Cat(net.wire, m))) = Cat(t, Stream[c])
  BY <1>1, <1>2, Present
<1>6. conn \in Conns /\ buf = <<>> /\ conn.line \in Seq(Units)
  BY <1>2, <1>3, TypedParts DEF Typed, Placed
<1>7. Cat(buf, Cat(net.wire, m)) = m /\ Cat(conn.line, m) = Cat(t, Stream[c])
  <2>1. Cat(buf, Cat(net.wire, m)) = m
    <3>1. Cat(<<>>, m) = m
      BY CatEmpty
    <3> QED BY <1>2, <1>6, <3>1, Zenon
  <2> QED BY <1>5, <2>1, Zenon
<1>8. /\ NumCalls \in Nat /\ done \in 0..NumCalls /\ sent \in done..NumCalls /\ c = done + 1
      /\ c' = done' + 1 /\ NumCalls' = NumCalls /\ Stream' = Stream
  <2>1. NumCalls \in Nat /\ done \in 0..NumCalls /\ sent \in done..NumCalls
    BY <1>3, Counters
  <2>2. c = done + 1 /\ c' = done' + 1 /\ NumCalls' = NumCalls
    BY <1>2 DEF c, NumCalls
  <2>3. Stream' = Stream
    BY <1>2 DEF Stream, NumCalls
  <2> QED BY <2>1, <2>2, <2>3
<1>9. CASE conn.state = "DATA"
  <2>1. /\ done' = done + 1 /\ conn' = [conn EXCEPT !.state = "DONE", !.successful = TRUE]
        /\ at' = IF done' = NumCalls THEN "closed" ELSE "loop"
        /\ UNCHANGED <<sent, net>>
    BY <1>9 DEF ReadEof, RecvDone
  <2>2. InData(d, t) /\ PastHead(d) /\ Len(t) <= Len(Entity(d)) /\ calls[c].footer = 0
    BY <1>5, <1>9 DEF Left, Between
  <2>3. conn.line = <<>> /\ t = Rest(d.body, Len(Content)) /\ Begun(d)
    BY <2>2, Zenon DEF InData
  <2>4. t = <<>>
    <3>1. Len(t) <= Len(conn.line)
      BY <1>1, <1>2, <1>3, <1>4, <1>5, <1>7, <2>2, AllRead
    <3>2. Len(conn.line) = 0
      BY <2>3
    <3>3. Len(t) = 0
      <4>1. Len(t) \in Nat
        OBVIOUS
      <4> QED BY <3>1, <3>2, <4>1
    <3>4. \A q \in Seq(Units) : Len(q) = 0 => q = <<>>
      OBVIOUS
    <3> QED BY <3>3, <3>4
  <2>5. m = Stream[c]
    <3>1. Cat(<<>>, m) = m /\ Cat(<<>>, Stream[c]) = Stream[c]
      BY <1>4, CatEmpty
    <3> QED BY <1>7, <2>3, <2>4, <3>1, Zenon
  <2>6. Len(Content) = Len(d.body) /\ Content = d.body
    <3>1. PICK k : k = Len(Content)
      OBVIOUS
    <3>2. k \in 0..Len(d.body) /\ Content = First(d.body, k)
      BY <2>3, <3>1, Zenon DEF Begun
    <3>3. d.body \in Seq(Units) /\ Len(d.body) \in Nat
      BY <1>4, BodySize
    <3>4. Len(Rest(d.body, k)) = Len(d.body) - k
      BY <3>2, <3>3, Halves
    <3>5. Len(Rest(d.body, k)) = 0
      <4>1. Rest(d.body, k) = <<>>
        BY <2>3, <2>4, <3>1, Zenon
      <4> QED BY <4>1
    <3>6. k = Len(d.body)
      BY <3>2, <3>3, <3>4, <3>5
    <3>7. First(d.body, Len(d.body)) = d.body
      BY <3>3, Ends0
    <3> QED BY <3>1, <3>2, <3>6, <3>7, Zenon
  <2>7. d.framing = "eof"
    <3>1. CASE d.framing = "length" /\ conn.content_length = Len(d.body)
      <4>1. Len(Content) < conn.content_length
        BY <2>2, Zenon DEF InData
      <4>2. Len(d.body) < Len(d.body)
        BY <2>6, <3>1, <4>1, Zenon
      <4>3. Len(d.body) \in Nat
        BY <1>4, BodySize
      <4> QED BY <4>2, <4>3
    <3>2. \/ d.framing = "length" /\ conn.content_length = Len(d.body)
          \/ d.framing = "eof"
      BY <2>2, Zenon DEF InData
    <3> QED BY <3>1, <3>2
  <2>8. Answered(c)
    <3>1. Footers(d) = <<>>
      BY <1>4, <2>7, FootersLeft
    <3>2. calls[c].footer = Len(Footers(d)) /\ calls[c].content = d.body
      BY <2>2, <2>6, <3>1 DEF Content
    <3>3. /\ calls[c].status = d.status
          /\ calls[c].header > Len(HeadFrom(d)[1]) - 0
          /\ calls[c].issued = 1 => calls[c].header <= Len(HeadFrom(d)[0]) - 0
      BY <2>2, Zenon DEF PastHead, Counted
    <3>4. /\ HeaderUnits(d) = Len(HeadFrom(d)[0])
          /\ HeaderUnits(d) - Len(StatusLine(d)) = Len(HeadFrom(d)[1])
          /\ HeaderUnits(d) - 0 = HeaderUnits(d)
          /\ Len(HeadFrom(d)[1]) - 0 = Len(HeadFrom(d)[1])
      BY <1>4, StatusUnits
    <3>5. HasEntity(d)
      BY <2>2, Zenon DEF PastHead
    <3> QED BY <1>1, <3>2, <3>3, <3>4, <3>5, Zenon DEF Answered
  <2>9. conn' \in Conns /\ conn'.state = "DONE" /\ conn'.line = <<>>
    <3>1. "DONE" \in States
      BY DEF States
    <3> QED BY <1>6, <2>1, <2>3, <3>1 DEF Conns
  <2>10. Cat(buf, Cat(net.wire, m)) = Stream[c]
    BY <1>7, <2>5, Zenon
  <2> QED BY <1>2, <1>3, <1>5, <1>6, <2>1, <2>8, <2>9, <2>10, NextReply
<1>10. CASE conn.state # "DATA"
  <2>1. /\ at' \in {"loop", "closed"} /\ conn' = NewConn /\ net' = NewNet(done, net.closes)
        /\ sent' = done /\ done' = done
    BY <1>10 DEF ReadEof
  <2>2. Between \/ conn.state = "HEADER"
    <3>1. ~HasLf(t) \/ ~(Len(t) <= Len(Entity(d)))
      BY <1>1, <1>2, <1>3, <1>4, <1>5, <1>7, AllRead
    <3>2. CASE Len(t) <= Len(Entity(d)) /\ conn.state = "CHUNKED" /\ InChunks(d, t)
      BY <1>4, <3>1, <3>2, LfToCome
    <3>3. CASE Len(t) <= Len(Entity(d)) /\ conn.state = "FOOTER" /\ InFooters(d, t)
      BY <1>4, <3>1, <3>3, LfToCome
    <3> QED BY <1>2, <1>5, <1>10, <3>2, <3>3 DEF Left
  <2>3. /\ conn'.state = "CONNECTED" /\ conn'.line = <<>> /\ conn' \in Conns
        /\ net' \in Nets /\ net'.base = done /\ net'.served = 0 /\ net'.wire = <<>>
        /\ Served' = done
    <3>1. Infinite \in Nat
      BY SizesAssumption DEF Infinite
    <3>2. conn' \in Conns /\ conn'.state = "CONNECTED" /\ conn'.line = <<>>
      <4>1. <<>> \in Seq(Units) /\ "CONNECTED" \in States /\ 0 \in 0..Infinite
        BY <3>1 DEF States
      <4> QED BY <2>1, <4>1 DEF NewConn, Conns
    <3>3. net' \in Nets /\ net'.base = done /\ net'.served = 0 /\ net'.wire = <<>>
      <4>1. net.closes \in Nat /\ done \in Nat /\ <<>> \in Seq(Units)
        BY <1>3, <1>8 DEF Typed, Nets
      <4> QED BY <2>1, <4>1 DEF NewNet, Nets
    <3>4. Served' = done
      BY <1>8, <3>3 DEF Served
    <3> QED BY <3>2, <3>3, <3>4
  <2>4. Between'
    BY <2>3 DEF Between
  <2>5. Typed'
    <3>1. done' \in 0..NumCalls /\ sent' \in done'..NumCalls
      BY <1>8, <2>1
    <3>2. /\ script' \in Scripts /\ buf' \in Seq(Units)
          /\ DOMAIN calls' = 1..NumCalls /\ \A i \in 1..NumCalls : DOMAIN calls'[i] = Fields
      BY <1>2, <1>3 DEF Typed
    <3> QED BY <1>2, <1>8, <2>1, <2>3, <3>1, <3>2 DEF Typed
  <2>6. Placed'
    <3>1. Len(conn'.line) < LineMax /\ \A i \in 1..Len(conn'.line) : conn'.line[i] # "lf"
      BY <2>3, SizesAssumption
    <3>2. net'.base <= done' /\ Served' <= sent'
      BY <1>8, <2>1, <2>3
    <3>3. conn'.state # "DONE" /\ at' # "buffer" /\ buf' = <<>>
      BY <1>2, <1>6, <2>1, <2>3
    <3> QED BY <2>4, <3>1, <3>2, <3>3 DEF Placed
  <2>7. Pending'
    <3> SUFFICES ASSUME NEW i \in c..NumCalls
                 PROVE  /\ calls[i].header \in Nat /\ calls[i].issued \in Nat
                        /\ i <= sent' => calls[i].issued >= 1
                        /\ calls[i].content = <<>> /\ calls[i].footer = 0
                        /\ (calls[i].issued = 0 \/ (calls[i].issued = 1 /\ i <= sent')) =>
                             calls[i].header = 0
      BY <1>2, <1>8, <2>1, Zenon DEF Pending
    <3>1. ~(i <= sent')
      BY <1>8, <2>1
    <3>2. i > c \/ i = c
      BY <1>8
    <3>3. calls[i].content = <<>> /\ calls[i].footer = 0
          /\ calls[i].header \in Nat /\ calls[i].issued \in Nat
      BY <1>3, <2>2, <3>2, Zenon DEF Pending
    <3>4. calls[i].issued = 0 => calls[i].header = 0
      <4>1. CASE i > c
        BY <1>3, <4>1, Zenon DEF Pending
      <4>2. CASE i = c
        BY <1>4, <4>2
      <4> QED BY <3>2, <4>1, <4>2
    <3> QED BY <3>1, <3>3, <3>4
  <2>8. InStep'
    <3>1. Stream[done] = Cat(Encode(d), Stream[c]) /\ Stream[done] \in Seq(Units)
      <4>1. done \in 0..(NumCalls - 1) /\ done \in 0..NumCalls /\ done + 1 = c
        BY <1>4, <1>8
      <4>2. Stream[done] = Cat(Encode(script.calls[done + 1]), Stream[done + 1])
        BY <4>1, StreamLeft
      <4>3. Stream[done] \in Seq(Units)
        BY <4>1, StreamLeft
      <4> QED BY <1>1, <4>1, <4>2, <4>3, Zenon
    <3>2. PICK q \in Seq(Units) : q = Stream[done]
      BY <3>1
    <3>3. Unsent(q)'
      <4>1. (net'.base + 1)..Served' = {}
        BY <1>8, <2>3
      <4> QED BY <1>8, <2>3, <3>2, <4>1, Zenon DEF Unsent
    <3>4. Left(d, Encode(d))' /\ Encode(d) \in Seq(Units)
      BY <1>4, <2>4, ReplyShape, Zenon DEF Left
    <3>5. Cat(conn'.line, Cat(buf', Cat(net'.wire, q))) = Cat(Encode(d), Stream[c])
      <4>1. Cat(<<>>, q) = q
        BY CatEmpty
      <4> QED BY <1>2, <1>6, <2>3, <3>1, <3>2, <4>1, Zenon
    <3>6. (script.calls[c])' = d /\ (Stream[c])' = Stream[c]
      BY <1>1, <1>2, <1>8, <2>1, Zenon
    <3>7. Left(script.calls[c], Encode(d))'
      BY <3>4, <3>6, Zenon
    <3> QED BY <3>3, <3>4, <3>5, <3>6, <3>7, Zenon DEF InStep
  <2>9. ASSUME NEW i \in 1..done PROVE Answered(i)'
    <3>1. Answered(i)
      BY <1>3, Zenon
    <3> QED BY <1>2, <3>1, Zenon DEF Answered
  <2> QED BY <2>1, <2>5, <2>6, <2>7, <2>8, <2>9, Zenon DEF ParserInv
<1> QED BY <1>9, <1>10

-----------------------------------------------------------------------------
(* The steps of the sessions and of the server *)

\* Send: what is sent does not touch the reply under way.
LEMMA SendStep ==
  ASSUME ParserInv, Regular(script), Send
  PROVE  ParserInv'
<1>1. Typed /\ Placed /\ InStep /\ \A i \in 1..done : Answered(i)
  BY DEF ParserInv
<1>2. /\ at = "loop" /\ verdict = "none" /\ sent < NumCalls /\ sent' = sent + 1
      /\ calls' = [calls EXCEPT ![sent + 1] = call_issue(@)]
      /\ conn' = [conn EXCEPT !.state = IF @ = "CONNECTED" THEN "STATUS" ELSE @]
      /\ UNCHANGED <<script, done, cookie, buf, at, net, verdict>>
  BY DEF Send, Waiting
<1>3. Pending
  BY <1>2 DEF ParserInv
<1>4. /\ NumCalls \in Nat /\ done \in 0..NumCalls /\ sent \in done..NumCalls /\ c = done + 1
      /\ c' = c /\ NumCalls' = NumCalls /\ Stream' = Stream /\ Served' = Served
      /\ Served \in Nat /\ Served <= sent
  <2>1. /\ NumCalls \in Nat /\ done \in 0..NumCalls /\ sent \in done..NumCalls
        /\ Served \in Nat /\ Served <= sent
    BY <1>1, Counters
  <2>2. c = done + 1 /\ c' = c /\ NumCalls' = NumCalls /\ Served' = Served
    BY <1>2 DEF c, NumCalls, Served
  <2>3. Stream' = Stream
    BY <1>2 DEF Stream, NumCalls
  <2> QED BY <2>1, <2>2, <2>3
<1>5. /\ conn \in Conns /\ DOMAIN calls = 1..NumCalls /\ sent + 1 \in 1..NumCalls
      /\ DOMAIN calls[sent + 1] = Fields
  BY <1>1, <1>2, <1>4 DEF Typed
<1>6. /\ conn' \in Conns /\ conn'.line = conn.line
      /\ conn.state # "CONNECTED" => conn' = conn
      /\ conn.state = "CONNECTED" => conn'.state = "STATUS"
  <2>1. "STATUS" \in States
    BY DEF States
  <2> QED BY <1>2, <1>5, <2>1 DEF Conns
<1>7. Between' <=> Between
  BY <1>2, <1>6 DEF Between
<1>8. /\ DOMAIN calls' = 1..NumCalls /\ DOMAIN calls'[sent + 1] = Fields
      /\ \A i \in 1..NumCalls : i # sent + 1 => calls'[i] = calls[i]
      /\ calls'[sent + 1].header = calls[sent + 1].header
      /\ calls'[sent + 1].content = calls[sent + 1].content
      /\ calls'[sent + 1].footer = calls[sent + 1].footer
      /\ calls'[sent + 1].issued = calls[sent + 1].issued + 1
  BY <1>2, <1>5 DEF call_issue, Fields
<1>9. Typed'
  <2>1. sent' \in done..NumCalls
    BY <1>2, <1>4
  <2>2. \A i \in 1..NumCalls : DOMAIN calls'[i] = Fields
    BY <1>1, <1>8 DEF Typed
  <2>3. /\ script' \in Scripts /\ net' \in Nets /\ buf' \in Seq(Units)
    BY <1>1, <1>2 DEF Typed
  <2> QED BY <1>2, <1>4, <1>6, <1>8, <2>1, <2>2, <2>3 DEF Typed
<1>10. Placed'
  <2>1. Len(conn'.line) < LineMax /\ \A i \in 1..Len(conn'.line) : conn'.line[i] # "lf"
    BY <1>1, <1>6 DEF Placed
  <2>2. net'.base <= done' /\ Served' <= sent' /\ done' < sent'
    BY <1>1, <1>2, <1>4 DEF Placed
  <2>3. conn'.state = "DONE" /\ at' = "loop" => net'.eof /\ net'.wire = <<>>
    BY <1>1, <1>2, <1>6 DEF Placed
  <2>4. buf' = <<>> /\ at' = "loop"
    BY <1>1, <1>2 DEF Placed
  <2> QED BY <2>1, <2>2, <2>3, <2>4 DEF Placed
<1>11. Pending'
  <2> SUFFICES ASSUME NEW i \in c..NumCalls
               PROVE  /\ calls'[i].header \in Nat /\ calls'[i].issued \in Nat
                      /\ i <= sent + 1 => calls'[i].issued >= 1
                      /\ (i > c \/ Between \/ conn'.state = "HEADER") =>
                           calls'[i].content = <<>> /\ calls'[i].footer = 0
                      /\ (i > c \/ Between) /\ (calls'[i].issued = 0
                                                \/ (calls'[i].issued = 1 /\ i <= sent + 1)) =>
                           calls'[i].header = 0
    BY <1>2, <1>4, <1>7, Zenon DEF Pending
  <2>1. /\ calls[i].header \in Nat /\ calls[i].issued \in Nat
        /\ i <= sent => calls[i].issued >= 1
        /\ (i > c \/ Between \/ conn.state = "HEADER") =>
             calls[i].content = <<>> /\ calls[i].footer = 0
        /\ (i > c \/ Between) /\ (calls[i].issued = 0
                                  \/ (calls[i].issued = 1 /\ i <= sent)) =>
             calls[i].header = 0
    BY <1>3, Zenon DEF Pending
  <2>2. conn'.state = "HEADER" => conn.state = "HEADER"
    BY <1>6
  <2>3. CASE i # sent + 1
    <3>1. calls'[i] = calls[i]
      <4>1. i \in 1..NumCalls
        BY <1>4
      <4> QED BY <1>8, <2>3, <4>1
    <3>2. i <= sent + 1 => i <= sent
      BY <1>4, <2>3
    <3> QED BY <2>1, <2>2, <3>1, <3>2
  <2>4. CASE i = sent + 1
    <3>1. /\ calls'[i].header = calls[i].header /\ calls'[i].content = calls[i].content
          /\ calls'[i].footer = calls[i].footer /\ calls'[i].issued = calls[i].issued + 1
      BY <1>8, <2>4, Zenon
    <3>2. calls'[i].issued \in Nat /\ calls'[i].issued >= 1
          /\ (calls'[i].issued = 1 => calls[i].issued = 0)
      BY <2>1, <3>1
    <3>3. calls'[i].issued # 0
      BY <3>2
    <3> QED BY <2>1, <2>2, <3>1, <3>2, <3>3, Zenon
  <2> QED BY <2>3, <2>4
<1>12. ASSUME NEW i \in 1..done PROVE Answered(i)'
  <2>1. calls'[i] = calls[i]
    BY <1>4, <1>8
  <2>2. Answered(i)
    BY <1>1, Zenon
  <2> QED BY <1>2, <2>1, <2>2, Zenon DEF Answered
<1>13. InStep'
  <2>1. PICK d : d = script.calls[c]
    OBVIOUS
  <2>2. done < NumCalls
    BY <1>2, <1>4
  <2>3. PICK m \in Seq(Units), t \in Seq(Units) :
          /\ Unsent(m) /\ Left(d, t)
          /\ Cat(conn.line, Cat(buf, Cat(net.wire, m))) = Cat(t, Stream[c])
    BY <1>1, <1>2, <2>1, <2>2, Zenon DEF InStep
  <2>4. Unsent(m)'
    <3>1. Served < sent => Served < sent'
      BY <1>2, <1>4
    <3> QED BY <1>2, <1>4, <2>3, <3>1, Zenon DEF Unsent
  <2>5. Left(d, t)'
    <3>1. CASE Between
      <4>1. t = Encode(d)
        BY <1>2, <2>3, <3>1 DEF Left, Between
      <4> QED BY <1>7, <3>1, <4>1, Zenon DEF Left
    <3>2. CASE ~Between
      <4>1. done < sent /\ conn' = conn
        BY <1>1, <1>2, <1>6, <3>2 DEF Placed, Between
      <4>2. calls'[c] = calls[c]
        <5>1. c # sent + 1 /\ c \in 1..NumCalls
          BY <1>4, <4>1
        <5> QED BY <1>8, <5>1
      <4> QED BY <1>2, <1>4, <2>3, <4>1, <4>2, LeftKept
    <3> QED BY <3>1, <3>2
  <2>6. Cat(conn'.line, Cat(buf', Cat(net'.wire, m))) = Cat(t, Stream[c])
    BY <1>2, <1>6, <2>3, Zenon
  <2>7. (script.calls[c])' = d /\ (Stream[c])' = Stream[c]
    BY <1>2, <1>4, <2>1, Zenon
  <2>8. Left(script.calls[c], t)'
    BY <2>5, <2>7, Zenon
  <2> QED BY <2>4, <2>6, <2>7, <2>8, Zenon DEF InStep
<1>14. done' = done
  BY <1>2
<1> QED BY <1>9, <1>10, <1>11, <1>12, <1>13, <1>14, Zenon DEF ParserInv

\* The steps that only move what has come, or is still to be sent
LEMMA Moved ==
  ASSUME ParserInv, Regular(script), UNCHANGED <<script, calls, sent, done, cookie, conn, verdict>>,
         net' \in Nets, buf' \in Seq(Units), net'.base = net.base, Served' <= sent,
         \/ /\ at' = at /\ buf' = buf
            /\ conn.state = "DONE" /\ at = "loop" => net'.eof /\ net'.wire = <<>>
         \/ at = "loop" /\ at' = "buffer" /\ conn.state # "DONE" /\ done < sent,
         at # "closed" /\ done < NumCalls =>
           \A m \in Seq(Units) : Unsent(m) =>
             \E q \in Seq(Units) :
               /\ Unsent(q)'
               /\ Cat(buf', Cat(net'.wire, q)) = Cat(buf, Cat(net.wire, m))
  PROVE  ParserInv'
<1>1. Typed /\ Placed /\ InStep /\ \A i \in 1..done : Answered(i)
  BY DEF ParserInv
<1>2. c' = c /\ NumCalls' = NumCalls /\ Stream' = Stream
  <2>1. c' = c /\ NumCalls' = NumCalls
    BY DEF c, NumCalls
  <2> QED BY <2>1 DEF Stream, NumCalls
<1>3. Between' <=> Between
  BY DEF Between
<1>4. at' = "closed" <=> at = "closed"
  OBVIOUS
<1>5. Typed'
  <2>1. at' \in {"loop", "buffer", "closed"}
    BY <1>1 DEF Typed
  <2> QED BY <1>1, <1>2, <2>1 DEF Typed
<1>6. Placed'
  <2>1. at' = "loop" => buf' = <<>>
    BY <1>1 DEF Placed
  <2>2. at' = "buffer" \/ ~Between' => done < sent \/ (at' = "closed" /\ done = NumCalls)
    BY <1>1, <1>3, <1>4 DEF Placed
  <2>3. conn.state = "DONE" /\ at' = "loop" => net'.eof /\ net'.wire = <<>>
    OBVIOUS
  <2> QED BY <1>1, <1>2, <2>1, <2>2, <2>3 DEF Placed
<1>7. Pending'
  <2>1. Pending
    BY DEF ParserInv
  <2> QED BY <1>2, <1>3, <2>1, Zenon DEF Pending
<1>8. InStep'
  <2> SUFFICES ASSUME at' # "closed", done' < NumCalls'
               PROVE  (\E q, t \in Seq(Units) :
                         /\ Unsent(q) /\ Left(script.calls[c], t)
                         /\ Cat(conn.line, Cat(buf, Cat(net.wire, q))) = Cat(t, Stream[c]))'
    BY Zenon DEF InStep
  <2>1. PICK d : d = script.calls[c]
    OBVIOUS
  <2>2. at # "closed" /\ done < NumCalls
    BY <1>2, <1>4
  <2>3. PICK m \in Seq(Units), t \in Seq(Units) :
          /\ Unsent(m) /\ Left(d, t)
          /\ Cat(conn.line, Cat(buf, Cat(net.wire, m))) = Cat(t, Stream[c])
    BY <1>1, <2>1, <2>2, Zenon DEF InStep
  <2>4. PICK q \in Seq(Units) :
          /\ Unsent(q)' /\ Cat(buf', Cat(net'.wire, q)) = Cat(buf, Cat(net.wire, m))
    BY <2>2, <2>3, Zenon
  <2>5. Left(d, t)'
    <3>1. at' = at \/ conn.state # "DONE"
      OBVIOUS
    <3> QED BY <1>2, <2>3, <3>1, LeftKept
  <2>6. (script.calls[c])' = d /\ (Stream[c])' = Stream[c]
    BY <1>2, <2>1, Zenon
  <2>7. Left(script.calls[c], t)'
    BY <2>5, <2>6, Zenon
  <2> QED BY <2>3, <2>4, <2>6, <2>7, Zenon
<1>9. ASSUME NEW i \in 1..done PROVE Answered(i)'
  <2>1. Answered(i)
    BY <1>1, Zenon
  <2> QED BY <2>1, Zenon DEF Answered
<1>10. done' = done
  OBVIOUS
<1> QED BY <1>4, <1>5, <1>6, <1>7, <1>8, <1>9, <1>10, Zenon DEF ParserInv

\* Read: the units go from the wire to the buffer.
LEMMA ReadStep ==
  ASSUME ParserInv, Regular(script), Read
  PROVE  ParserInv'
<1>1. Typed /\ Placed
  BY DEF ParserInv
<1>2. /\ at = "loop" /\ done < sent /\ at' = "buffer"
      /\ UNCHANGED <<script, calls, sent, done, cookie, conn, verdict>>
  BY DEF Read, Waiting
<1>3. PICK n \in 1..Len(net.wire) :
        /\ buf' = SubSeq(net.wire, 1, n)
        /\ net' = [net EXCEPT !.wire = SubSeq(@, n + 1, Len(@))]
  BY DEF Read
<1>4. net \in Nets /\ net.wire \in Seq(Units) /\ buf = <<>> /\ n \in 0..Len(net.wire)
  BY <1>1, <1>2 DEF Typed, Placed, Nets
<1>5. /\ buf' = First(net.wire, n) /\ net' = [net EXCEPT !.wire = Rest(net.wire, n)]
  BY <1>3, <1>4 DEF First, Rest, Nets
<1>6. /\ First(net.wire, n) \in Seq(Units) /\ Rest(net.wire, n) \in Seq(Units)
      /\ net.wire = Cat(First(net.wire, n), Rest(net.wire, n))
  BY <1>4, Halves
<1>7. /\ net' \in Nets /\ net'.base = net.base /\ net'.served = net.served
      /\ net'.eof = net.eof /\ net'.wire = Rest(net.wire, n)
  BY <1>4, <1>5, <1>6 DEF Nets
<1>8. Served' = Served /\ Served <= sent
  BY <1>1, <1>7 DEF Served, Placed
<1>9. conn.state # "DONE"
  <2>1. CASE net.wire = <<>>
    <3>1. n \in 1..0
      BY <1>3, <2>1
    <3> QED BY <3>1
  <2> QED BY <1>1, <1>2, <2>1 DEF Placed
<1>10. ASSUME NEW m \in Seq(Units), Unsent(m)
       PROVE  Unsent(m)' /\ Cat(buf', Cat(net'.wire, m)) = Cat(buf, Cat(net.wire, m))
  <2>1. Unsent(m)'
    <3>1. Stream' = Stream
      BY <1>2 DEF Stream, NumCalls
    <3> QED BY <1>2, <1>7, <1>8, <1>10, <3>1, Zenon DEF Unsent
  <2> DEFINE f == First(net.wire, n)
  <2> DEFINE r == Rest(net.wire, n)
  <2>2. f \in Seq(Units) /\ r \in Seq(Units) /\ net.wire = Cat(f, r)
        /\ buf' = f /\ net'.wire = r
    BY <1>5, <1>6, <1>7
  <2> HIDE DEF f, r
  <2>3. Cat(Cat(f, r), m) = Cat(f, Cat(r, m))
    BY <2>2, CatAssoc
  <2>4. Cat(net.wire, m) \in Seq(Units)
    BY <1>4, CatType
  <2>5. Cat(<<>>, Cat(net.wire, m)) = Cat(net.wire, m)
    BY <2>4, CatEmpty
  <2> QED BY <1>4, <2>1, <2>2, <2>3, <2>5, Zenon
<1>11. buf' \in Seq(Units) /\ Served' <= sent
  BY <1>5, <1>6, <1>8, Zenon
<1> QED BY <1>2, <1>7, <1>9, <1>10, <1>11, Moved

\* The server sends p, and what it has not sent is what was to follow it.
LEMMA ServerStep ==
  ASSUME ParserInv, Regular(script), ~net.eof,
         UNCHANGED <<script, calls, sent, done, cookie, conn, buf, at, verdict>>,
         NEW p \in Seq(Units), NEW q \in Seq(Units), NEW m, m = Stream[Served], m = Cat(p, q),
         net' \in Nets, net'.base = net.base, Served' <= sent, net'.wire = net.wire \o p,
         (\A i \in (net.base + 1)..Served : ~UntilClosed(script.calls[i])) => Unsent(q)'
  PROVE  ParserInv'
<1>1. Typed /\ Placed
  BY DEF ParserInv
<1>2. net.wire \in Seq(Units) /\ buf \in Seq(Units) /\ net'.wire = Cat(net.wire, p)
  BY <1>1, TypedParts DEF Cat
<1>3. ~(conn.state = "DONE" /\ at = "loop")
  BY <1>1 DEF Placed
<1>4. ASSUME NEW n \in Seq(Units), Unsent(n)
      PROVE  Unsent(q)' /\ Cat(buf', Cat(net'.wire, q)) = Cat(buf, Cat(net.wire, n))
  <2>1. n = m /\ \A i \in (net.base + 1)..Served : ~UntilClosed(script.calls[i])
    BY <1>4 DEF Unsent
  <2>2. Cat(Cat(net.wire, p), q) = Cat(net.wire, Cat(p, q))
    BY <1>2, CatAssoc
  <2> QED BY <1>2, <2>1, <2>2, Zenon
<1>5. buf' \in Seq(Units) /\ at' = at /\ buf' = buf
  BY <1>2
<1> QED BY <1>3, <1>4, <1>5, Moved

\* Serve: the next reply is put on the wire whole, and ends the connection if it has to.
LEMMA ServeStep ==
  ASSUME ParserInv, Regular(script), Serve
  PROVE  ParserInv'
<1>1. Typed /\ Placed
  BY DEF ParserInv
<1>2. /\ Served < sent /\ ~net.eof
      /\ net' = [net EXCEPT !.wire = @ \o Encode(Asked), !.served = @ + 1,
                            !.eof = Asked.framing = "eof" /\ HasEntity(Asked)]
      /\ UNCHANGED <<script, calls, sent, done, cookie, conn, buf, at, verdict>>
  BY DEF Serve, Unserved, Served
<1>3. /\ NumCalls \in Nat /\ sent \in done..NumCalls /\ done \in 0..NumCalls
      /\ Served \in 0..NumCalls /\ net.base \in Nat /\ net.served \in Nat
      /\ Served = net.base + net.served
  BY <1>1, Counters
<1>4. PICK k : k = Served
  OBVIOUS
<1>5. PICK e : e = script.calls[k + 1]
  OBVIOUS
<1>6. /\ k \in 0..(NumCalls - 1) /\ k + 1 \in 1..NumCalls /\ k + 1 \in 0..NumCalls
      /\ k < sent /\ Asked = e
  BY <1>2, <1>3, <1>4, <1>5 DEF Asked
<1>7. /\ Ordinary(e) /\ Stream[k + 1] \in Seq(Units)
      /\ Stream[k] = Cat(Encode(e), Stream[k + 1])
  BY <1>5, <1>6, StreamLeft
<1>8. PICK p, q : p = Encode(e) /\ q = Stream[k + 1]
  OBVIOUS
<1>9. net \in Nets /\ net.wire \in Seq(Units)
  BY <1>1 DEF Typed, Nets
<1>10. p \in Seq(Units) /\ q \in Seq(Units) /\ Stream[k] = Cat(p, q)
  BY <1>7, <1>8, ReplyShape
<1>11. /\ net'.wire = net.wire \o p /\ net'.served = net.served + 1
       /\ net'.base = net.base /\ net'.closes = net.closes
       /\ net'.eof = UntilClosed(e)
  BY <1>2, <1>6, <1>8, <1>9 DEF Nets, UntilClosed
<1>12. net' \in Nets
  <2>1. net.wire \o p \in Seq(Units)
    BY <1>9, <1>10, CatType DEF Cat
  <2>2. net.served + 1 \in Nat
    BY <1>3
  <2>3. (Asked.framing = "eof" /\ HasEntity(Asked)) \in BOOLEAN
    OBVIOUS
  <2> QED BY <1>2, <1>6, <1>8, <1>9, <2>1, <2>2, <2>3 DEF Nets
<1>13. Served' = k + 1
  BY <1>3, <1>4, <1>11 DEF Served
<1>14. Stream' = Stream
  BY <1>2 DEF Stream, NumCalls
<1>15. ASSUME \A i \in (net.base + 1)..k : ~UntilClosed(script.calls[i])
       PROVE  Unsent(q)'
  <2>1. q = (Stream[Served])'
    BY <1>8, <1>13, <1>14, Zenon
  <2>2. ASSUME NEW i \in (net.base + 1)..(k + 1), UntilClosed(script.calls[i])
        PROVE  i = k + 1 /\ net'.eof
    <3>1. i \notin (net.base + 1)..k
      BY <1>15, <2>2
    <3>2. i = k + 1
      BY <1>3, <1>4, <1>6, <3>1
    <3> QED BY <1>5, <1>11, <2>2, <3>2
  <2>3. script' = script /\ net'.base = net.base
    BY <1>2, <1>11
  <2> QED BY <1>13, <1>14, <2>1, <2>2, <2>3, Zenon DEF Unsent
<1>16. Served' <= sent
  BY <1>3, <1>6, <1>13
<1> QED BY <1>2, <1>4, <1>11, <1>12, <1>15, <1>16, <1>10, ServerStep, Zenon

\* ServerCloses: nothing of the next reply goes out, or a part of its head.
LEMMA CloseStep ==
  ASSUME ParserInv, Regular(script), ServerCloses
  PROVE  ParserInv'
<1>1. Typed /\ Placed
  BY DEF ParserInv
<1>2. ~net.eof /\ net.closes > 0
      /\ UNCHANGED <<script, calls, sent, done, cookie, conn, buf, at, verdict>>
  BY DEF ServerCloses
<1>3. PICK n \in {0} \union (IF Unserved THEN CutPoints(Asked) ELSE {}) :
        net' = [net EXCEPT !.eof = TRUE, !.closes = @ - 1,
                  !.wire = @ \o (IF n = 0 THEN <<>> ELSE SubSeq(Encode(Asked), 1, n))]
  BY DEF ServerCloses
<1>4. /\ NumCalls \in Nat /\ sent \in done..NumCalls /\ done \in 0..NumCalls
      /\ Served \in 0..NumCalls /\ Served <= sent
      /\ net.base \in Nat /\ net.served \in Nat /\ Served = net.base + net.served
  BY <1>1, Counters
<1>5. PICK k : k = Served
  OBVIOUS
<1>6. net \in Nets /\ net.wire \in Seq(Units) /\ net.closes - 1 \in Nat
  BY <1>1, <1>2 DEF Typed, Nets
<1>7. PICK p : p = IF n = 0 THEN <<>> ELSE SubSeq(Encode(Asked), 1, n)
  OBVIOUS
<1>8. /\ net'.wire = net.wire \o p /\ net'.eof = TRUE
      /\ net'.base = net.base /\ net'.served = net.served
  BY <1>3, <1>6, <1>7 DEF Nets
<1>9. ASSUME p \in Seq(Units) PROVE net' \in Nets
  <2>1. net.wire \o p \in Seq(Units)
    BY <1>6, <1>9, CatType DEF Cat
  <2> QED BY <1>3, <1>6, <1>7, <2>1 DEF Nets
<1>10. Served' = k /\ Served' <= sent
  BY <1>4, <1>5, <1>8 DEF Served
<1>11. Stream' = Stream
  BY <1>2 DEF Stream, NumCalls
<1>12. Stream[k] \in Seq(Units)
  BY <1>4, <1>5, StreamLeft
<1>13. CASE n = 0
  <2>1. p = <<>> /\ p \in Seq(Units)
    BY <1>7, <1>13
  <2>2. PICK q : q = Stream[k]
    OBVIOUS
  <2>3. q \in Seq(Units) /\ Stream[k] = Cat(p, q)
    BY <1>12, <2>1, <2>2, CatEmpty
  <2>4. ASSUME \A i \in (net.base + 1)..k : ~UntilClosed(script.calls[i])
        PROVE  Unsent(q)'
    <3>1. q = (Stream[Served])'
      BY <1>10, <1>11, <2>2, Zenon
    <3> QED BY <1>2, <1>8, <1>10, <2>4, <3>1, Zenon DEF Unsent
  <2> QED BY <1>2, <1>5, <1>8, <1>9, <1>10, <2>1, <2>3, <2>4, ServerStep, Zenon
<1>14. CASE n # 0
  <2>1. Unserved /\ n \in CutPoints(Asked)
    BY <1>3, <1>14
  <2>2. PICK e : e = script.calls[k + 1]
    OBVIOUS
  <2>3. /\ k \in 0..(NumCalls - 1) /\ k + 1 \in 1..NumCalls /\ k + 1 \in 0..NumCalls
        /\ k < sent /\ Asked = e
    BY <1>4, <1>5, <2>1, <2>2 DEF Asked, Unserved
  <2>4. /\ Ordinary(e) /\ Stream[k + 1] \in Seq(Units)
        /\ Stream[k] = Cat(Encode(e), Stream[k + 1])
    BY <2>2, <2>3, StreamLeft
  <2>5. /\ Encode(e) \in Seq(Units) /\ HeaderUnits(e) \in Nat /\ Len(Entity(e)) \in Nat
        /\ Len(Encode(e)) = HeaderUnits(e) + Len(Entity(e))
    BY <2>4, ReplyShape
  <2>6. n \in 1..(HeaderUnits(e) - 1)
    <3>1. "body" \notin script.cut
      BY DEF Regular
    <3> QED BY <2>1, <2>3, <3>1 DEF CutPoints, HeaderUnits
  <2>7. n \in 0..Len(Encode(e))
    BY <2>5, <2>6
  <2>8. p = First(Encode(e), n)
    BY <1>7, <1>14, <2>3 DEF First
  <2>9. PICK r : r = Rest(Encode(e), n)
    OBVIOUS
  <2>10. p \in Seq(Units) /\ r \in Seq(Units) /\ Encode(e) = Cat(p, r)
    BY <2>5, <2>7, <2>8, <2>9, Halves
  <2>11. PICK q : q = Cat(r, Stream[k + 1])
    OBVIOUS
  <2>12. q \in Seq(Units)
    BY <2>4, <2>10, <2>11, CatType
  <2>13. Stream[k] = Cat(p, q)
    <3>1. Cat(Cat(p, r), Stream[k + 1]) = Cat(p, Cat(r, Stream[k + 1]))
      BY <2>4, <2>10, CatAssoc
    <3> QED BY <2>4, <2>10, <2>11, <3>1, Zenon
  <2>14. ASSUME \A i \in (net.base + 1)..k : ~UntilClosed(script.calls[i])
         PROVE  Unsent(q)'
    <3>1. /\ net'.eof /\ Served' = k /\ Served' < sent' /\ net'.base = net.base
          /\ script' = script
      BY <1>2, <1>8, <1>10, <2>3
    <3>2. \E j \in 1..(HeaderUnits(e) - 1) : q = Cat(Rest(Encode(e), j), Stream[k + 1])
      BY <2>6, <2>9, <2>11, Zenon
    <3> QED BY <1>11, <2>2, <2>14, <3>1, <3>2, Zenon DEF Unsent
  <2> QED BY <1>2, <1>5, <1>8, <1>9, <1>10, <2>10, <2>12, <2>13, <2>14, ServerStep, Zenon
<1> QED BY <1>13, <1>14

\* A step that changes nothing keeps the invariant.
LEMMA StutterStep ==
  ASSUME ParserInv, UNCHANGED vars
  PROVE  ParserInv'
<1>1. UNCHANGED <<script, calls, sent, done, cookie, conn, buf, at, net, verdict>>
  BY DEF vars
<1>2. /\ c' = c /\ NumCalls' = NumCalls /\ Stream' = Stream /\ Served' = Served
      /\ (Between' <=> Between) /\ Content' = Content
  <2>1. c' = c /\ NumCalls' = NumCalls /\ Served' = Served /\ (Between' <=> Between)
    BY <1>1 DEF c, NumCalls, Served, Between
  <2>2. Stream' = Stream
    BY <1>1 DEF Stream, NumCalls
  <2>3. Content' = Content
    BY <1>1 DEF Content, c
  <2> QED BY <2>1, <2>2, <2>3
<1>3. Typed' /\ Placed'
  <2>1. Typed /\ Placed
    BY DEF ParserInv
  <2> QED BY <1>1, <1>2, <2>1, Zenon DEF Typed, Placed
<1>4. Pending'
  <2>1. Pending
    BY DEF ParserInv
  <2> QED BY <1>1, <1>2, <2>1, Zenon DEF Pending
<1>5. \A i \in 1..done' : Answered(i)'
  <2>1. \A i \in 1..done : Answered(i)
    BY DEF ParserInv
  <2> QED BY <1>1, <2>1, Zenon DEF Answered
<1>6. InStep'
  <2>1. ASSUME NEW t, Left(script.calls[c], t) PROVE Left(script.calls[c], t)'
    <3>1. PICK d : d = script.calls[c]
      OBVIOUS
    <3>2. calls'[c] = calls[c]
      BY <1>1
    <3>3. Left(d, t)'
      BY <1>1, <1>2, <2>1, <3>1, <3>2, LeftKept
    <3>4. (script.calls[c])' = d
      BY <1>1, <1>2, <3>1
    <3> QED BY <3>3, <3>4, Zenon
  <2>2. ASSUME NEW m, Unsent(m) PROVE Unsent(m)'
    BY <1>1, <1>2, <2>2, Zenon DEF Unsent
  <2>3. InStep
    BY DEF ParserInv
  <2> SUFFICES ASSUME at' # "closed", done' < NumCalls'
               PROVE  (\E m, t \in Seq(Units) :
                         /\ Unsent(m) /\ Left(script.calls[c], t)
                         /\ Cat(conn.line, Cat(buf, Cat(net.wire, m))) = Cat(t, Stream[c]))'
    BY Zenon DEF InStep
  <2>4. PICK m \in Seq(Units), t \in Seq(Units) :
          /\ Unsent(m) /\ Left(script.calls[c], t)
          /\ Cat(conn.line, Cat(buf, Cat(net.wire, m))) = Cat(t, Stream[c])
    BY <1>1, <1>2, <2>3, Zenon DEF InStep
  <2>5. Unsent(m)' /\ Left(script.calls[c], t)'
    BY <2>1, <2>2, <2>4, Zenon
  <2>6. Cat(conn'.line, Cat(buf', Cat(net'.wire, m))) = Cat(t, (Stream[c])')
    BY <1>1, <1>2, <2>4, Zenon
  <2> QED BY <2>5, <2>6, Zenon
<1> QED BY <1>3, <1>4, <1>5, <1>6, Zenon DEF ParserInv

-----------------------------------------------------------------------------
(* Every call gets its own reply *)

\* At the beginning nothing has come, and all of the stream is to be sent.
LEMMA ParserBegins ==
  ASSUME Init, Regular(script)
  PROVE  ParserInv
<1>1. NumCalls \in Nat
  BY StreamLeft
<1>2. /\ script \in Scripts /\ sent = 0 /\ done = 0 /\ cookie = <<>> /\ conn = NewConn
      /\ buf = <<>> /\ at = "loop" /\ net = NewNet(0, script.closes) /\ verdict = "none"
      /\ calls = [i \in 1..NumCalls |-> NewCall]
  BY DEF Init
<1>3. Served = 0 /\ c = 1 /\ net.base = 0 /\ net.wire = <<>> /\ net.eof = FALSE
  BY <1>2 DEF Served, NewNet, c
<1>4. Between /\ conn.state = "CONNECTED" /\ conn.line = <<>>
  BY <1>2 DEF Between, NewConn
<1>5. Typed
  <2>1. conn \in Conns
    <3>1. 0 \in 0..Infinite /\ "CONNECTED" \in States
      BY SizesAssumption DEF Infinite, States
    <3> QED BY <1>2, <3>1 DEF Conns, NewConn
  <2>2. net \in Nets
    <3>1. script.closes \in Nat
      BY DEF Regular
    <3> QED BY <1>2, <3>1 DEF Nets, NewNet
  <2>3. DOMAIN NewCall = Fields
    BY DEF NewCall, Fields
  <2> QED BY <1>1, <1>2, <2>1, <2>2, <2>3 DEF Typed
<1>6. Placed
  <2>1. Len(conn.line) < LineMax /\ \A i \in 1..Len(conn.line) : conn.line[i] # "lf"
    BY <1>4, SizesAssumption
  <2> QED BY <1>2, <1>3, <1>4, <2>1 DEF Placed
<1>7. Pending
  BY <1>2, <1>3 DEF Pending, NewCall
<1>8. InStep
  <2> SUFFICES ASSUME done < NumCalls
               PROVE  \E m, t \in Seq(Units) :
                        /\ Unsent(m) /\ Left(script.calls[c], t)
                        /\ Cat(conn.line, Cat(buf, Cat(net.wire, m))) = Cat(t, Stream[c])
    BY Zenon DEF InStep
  <2>1. /\ 0 \in 0..(NumCalls - 1) /\ 0 + 1 = 1 /\ 1 \in 1..NumCalls /\ 1 \in 0..NumCalls
        /\ 0 \in 0..NumCalls
    BY <1>1, <1>2
  <2>2. /\ Ordinary(script.calls[1]) /\ Stream[0] \in Seq(Units) /\ Stream[1] \in Seq(Units)
        /\ Stream[0] = Cat(Encode(script.calls[1]), Stream[1])
    BY <2>1, StreamLeft
  <2>3. Encode(script.calls[1]) \in Seq(Units)
    BY <2>2, ReplyShape
  <2>4. Unsent(Stream[0])
    <3>1. (net.base + 1)..Served = {}
      BY <1>3
    <3> QED BY <1>3, <3>1, Zenon DEF Unsent
  <2>5. Left(script.calls[1], Encode(script.calls[1]))
    BY <1>4, Zenon DEF Left
  <2>6. Cat(<<>>, Cat(<<>>, Cat(<<>>, Stream[0]))) = Stream[0]
    <3>1. Cat(<<>>, Stream[0]) = Stream[0]
      BY <2>2, CatEmpty
    <3> QED BY <3>1, Zenon
  <2> QED BY <1>2, <1>3, <1>4, <2>2, <2>3, <2>4, <2>5, <2>6, Zenon
<1>9. \A i \in 1..done : Answered(i)
  BY <1>2
<1> QED BY <1>5, <1>6, <1>7, <1>8, <1>9 DEF ParserInv

\* Every step of the client, the server and the connections keeps the invariant.
LEMMA ParserKept ==
  ASSUME ParserInv, Regular(script), LineMax >= 4, [Next]_vars
  PROVE  ParserInv'
<1>1. CASE Send
  BY <1>1, SendStep
<1>2. CASE Read
  BY <1>2, ReadStep
<1>3. CASE ReadEof
  BY <1>3, EofStep
<1>4. CASE parse_status_line
  BY <1>4, StatusLineStep
<1>5. CASE parse_headers
  BY <1>5, HeadersStep
<1>6. CASE parse_footers
  BY <1>6, FootersStep
<1>7. CASE reply_data
  BY <1>7, DataStep
<1>8. CASE xfer_chunked
  BY <1>8, ChunksStep
<1>9. CASE recv_done
  BY <1>9, DoneStep
<1>10. CASE Serve
  BY <1>10, ServeStep
<1>11. CASE ServerCloses
  BY <1>11, CloseStep
<1>12. CASE UNCHANGED vars
  BY <1>12, StutterStep
<1>13. CASE Idle
  BY <1>13, StutterStep DEF Idle
<1> QED
  BY <1>1, <1>2, <1>3, <1>4, <1>5, <1>6, <1>7, <1>8, <1>9, <1>10, <1>11, <1>12, <1>13
  DEF Next, Client, http_process_reply_bytes

\* do_recv and http_process_reply_bytes: the parser never loses its place.  In every
\* reachable state the line under way, the buffer, the wire and what the server has not
\* sent yet make up the rest of the present reply and the later ones.
THEOREM InStepAlways ==
  ASSUME \A s \in Scripts : Regular(s), LineMax >= 4
  PROVE  Spec => []ParserInv
<1>1. Init => ParserInv
  BY ParserBegins DEF Init
<1>2. ParserInv /\ [Next]_vars => ParserInv'
  BY ParserKept DEF ParserInv, Typed
<1> QED BY <1>1, <1>2, PTL DEF Spec

\* http.c and do_recv: however the reads cut the stream, each call gets the status, the
\* content and the footers of its own reply, also when its connection was replaced, and
\* the assertion of do_recv about what follows a reply holds.
THEOREM RepliesMatch ==
  ASSUME \A s \in Scripts : Regular(s), LineMax >= 4
  PROVE  Spec => []ReplyExact
<1>1. ParserInv => ReplyExact
  <2> SUFFICES ASSUME ParserInv PROVE ReplyExact
    OBVIOUS
  <2>1. verdict = "none" /\ \A i \in 1..done : Answered(i)
    BY DEF ParserInv, Typed
  <2> QED BY <2>1, Zenon DEF ReplyExact, Answered
<1> QED BY <1>1, InStepAlways, PTL

\* do_recv and http.c keep their variables in their types: between two polls nothing is
\* left of a read, a line under way is shorter than line_buf, and a call that has not been
\* sent has no content.
THEOREM ReplyTypeCorrect ==
  ASSUME \A s \in Scripts : Regular(s), LineMax >= 4
  PROVE  Spec => []TypeOK
<1>1. ParserInv => TypeOK
  <2> SUFFICES ASSUME ParserInv PROVE TypeOK
    OBVIOUS
  <2>1. Typed /\ Placed /\ Pending
    BY DEF ParserInv
  <2>2. /\ conn.state \in States /\ conn.content_length \in 0..Infinite
        /\ conn.has_body \in BOOLEAN /\ conn.is_chunked \in BOOLEAN
    BY <2>1 DEF Typed, Conns
  <2>3. /\ NumCalls \in Nat /\ done \in 0..NumCalls /\ sent \in done..NumCalls /\ c = done + 1
    <3>1. Regular(script)
      BY <2>1 DEF Typed
    <3> QED BY <2>1, <3>1, Counters DEF c
  <2>4. ASSUME NEW i \in DOMAIN calls, i > sent PROVE calls[i].content = <<>>
    <3>1. i \in c..NumCalls /\ (i = c => sent = done)
      BY <2>1, <2>3, <2>4 DEF Typed
    <3>2. CASE i > c
      BY <2>1, <3>1, <3>2, Zenon DEF Pending
    <3>3. CASE i = c
      <4>1. Between
        BY <2>1, <2>3, <3>1, <3>3 DEF Placed
      <4> QED BY <2>1, <3>1, <4>1, Zenon DEF Pending
    <3> QED BY <2>3, <3>1, <3>2, <3>3
  <2> QED BY <2>1, <2>2, <2>3, <2>4 DEF TypeOK, Typed, Placed
<1> QED BY <1>1, InStepAlways, PTL

-----------------------------------------------------------------------------
(* The cookies that the calls carry *)

\* The session has the last cookie of the replies that are answered, or already that
\* of a reply under way, whose call has been issued then.
CookieNow ==
  \/ cookie = CookieAfter(done)
  \/ /\ done < NumCalls /\ calls[c].issued >= 1
     /\ SetsCookie(script.calls[c]) /\ cookie = <<script.calls[c].cookie>>

Carries(i) ==
  LET call == calls[i]  own == script.calls[i].cookie
  IN /\ call.issued \in Nat /\ Len(call.cookies) <= 1
     /\ call.issued = 0 => call.cookies = <<>>
     /\ i <= sent => call.issued >= 1
     /\ ~script.piped /\ call.issued >= 1 =>
          \/ call.cookies = CookieAfter(i - 1)
          \/ CookieAfter(i - 1) = <<>> /\ call.issued > 1 /\ call.cookies = <<own>>

CookieInv == CookieNow /\ \A i \in 1..NumCalls : Carries(i)

\* The reply to a call replaces the cookie if it sets one.
LEMMA CookieNext ==
  ASSUME NEW n \in Nat
  PROVE  /\ CookieAfter(n + 1) = IF SetsCookie(script.calls[n + 1])
                                 THEN <<script.calls[n + 1].cookie>> ELSE CookieAfter(n)
         /\ Len(CookieAfter(n)) <= 1
<1> DEFINE S(m) == {i \in 1..m : SetsCookie(script.calls[i])}
<1>1. \A m : CookieAfter(m) = IF S(m) = {} THEN <<>> ELSE <<script.calls[Max(S(m))].cookie>>
  BY Zenon DEF CookieAfter, SetsCookie
<1>2. \A m, i : i \in S(m) <=> i \in 1..m /\ SetsCookie(script.calls[i])
  BY Zenon
<1> HIDE DEF S
<1>3. \A m : S(m) \subseteq Int
  BY <1>2
<1>4. Len(CookieAfter(n)) <= 1
  BY <1>1
<1>5. CookieAfter(n + 1) = IF SetsCookie(script.calls[n + 1])
                           THEN <<script.calls[n + 1].cookie>> ELSE CookieAfter(n)
  <2>1. CASE SetsCookie(script.calls[n + 1])
    <3>1. n + 1 \in S(n + 1)
      BY <1>2, <2>1
    <3>2. \A y \in S(n + 1) : n + 1 >= y /\ (y >= n + 1 => y = n + 1)
      BY <1>2
    <3>3. Max(S(n + 1)) = n + 1
      BY <3>1, <3>2 DEF Max
    <3>4. S(n + 1) # {}
      BY <3>1
    <3> QED BY <1>1, <2>1, <3>3, <3>4, Zenon
  <2>2. CASE ~SetsCookie(script.calls[n + 1])
    <3>1. \A i : i \in 1..(n + 1) <=> i \in 1..n \/ i = n + 1
      OBVIOUS
    <3>2. \A i : i \in S(n + 1) <=> i \in S(n)
      BY <1>2, <2>2, <3>1, Zenon
    <3>3. S(n + 1) = S(n)
      <4>1. S(n + 1) \subseteq Int /\ S(n) \subseteq Int
        BY <1>3
      <4> QED BY <3>2, <4>1
    <3> QED BY <1>1, <2>2, <3>3, Zenon
  <2> QED BY <2>1, <2>2
<1> QED BY <1>4, <1>5

\* A step that leaves the cookies alone, as those of the server and of the content do.
LEMMA CookiesLeft ==
  ASSUME CookieInv, done \in 0..NumCalls, NumCalls \in Nat, sent \in Nat, sent' \in Nat,
         sent' <= sent, UNCHANGED <<script, done>>,
         cookie' = cookie \/ (done < sent /\ CookieStep(script.calls[c])),
         done < sent => done < NumCalls,
         \A i \in 1..NumCalls : /\ calls'[i].issued = calls[i].issued
                                /\ calls'[i].cookies = calls[i].cookies
  PROVE  CookieInv'
<1>1. NumCalls' = NumCalls /\ c' = c /\ c = done + 1
  BY DEF NumCalls, c
<1>2. \A n : (CookieAfter(n))' = CookieAfter(n)
  BY DEF CookieAfter
<1>3. ASSUME NEW i \in 1..NumCalls PROVE Carries(i)'
  <2>1. Carries(i)
    BY DEF CookieInv
  <2>2. i <= sent' => i <= sent
    OBVIOUS
  <2>3. (CookieAfter(i - 1))' = CookieAfter(i - 1)
    BY <1>2
  <2> QED BY <2>1, <2>2, <2>3, Zenon DEF Carries
<1>4. CookieNow'
  <2>1. CookieNow
    BY DEF CookieInv
  <2>2. (CookieAfter(done))' = CookieAfter(done)
    BY <1>2
  <2>3. done < NumCalls => calls'[c].issued = calls[c].issued
    BY <1>1
  <2>4. CASE cookie' = cookie
    BY <1>1, <2>1, <2>2, <2>3, <2>4, Zenon DEF CookieNow
  <2>5. CASE cookie' # cookie
    <3>1. /\ done < NumCalls /\ SetsCookie(script.calls[c])
          /\ cookie' = <<script.calls[c].cookie>>
      BY <2>5, Zenon DEF CookieStep
    <3>3. done < sent
      BY <2>5
    <3>4. c \in 1..NumCalls /\ c <= sent
      BY <1>1, <3>1, <3>3
    <3>2. calls[c].issued >= 1
      BY <3>4 DEF CookieInv, Carries
    <3> QED BY <1>1, <2>3, <3>1, <3>2, Zenon DEF CookieNow
  <2> QED BY <2>4, <2>5
<1> QED BY <1>1, <1>3, <1>4, Zenon DEF CookieInv

\* The reply of call c is complete: the session has its cookie, if it sets one.
LEMMA CookieGot ==
  ASSUME CookieInv, done \in 0..NumCalls, NumCalls \in Nat, done' = done + 1,
         UNCHANGED <<script, calls, cookie, sent>>,
         SetsCookie(script.calls[c]) => cookie = <<script.calls[c].cookie>>
  PROVE  CookieInv'
<1>1. NumCalls' = NumCalls /\ c = done + 1
  BY DEF NumCalls, c
<1>2. \A n : (CookieAfter(n))' = CookieAfter(n)
  BY DEF CookieAfter
<1>3. ASSUME NEW i \in 1..NumCalls PROVE Carries(i)'
  <2>1. Carries(i)
    BY DEF CookieInv
  <2>2. (CookieAfter(i - 1))' = CookieAfter(i - 1)
    BY <1>2
  <2> QED BY <2>1, <2>2, Zenon DEF Carries
<1>4. cookie' = (CookieAfter(done))'
  <2>1. CookieAfter(c) = IF SetsCookie(script.calls[c]) THEN <<script.calls[c].cookie>>
                         ELSE CookieAfter(done)
    <3>1. done \in Nat /\ done + 1 = c
      BY <1>1
    <3>2. PICK n \in Nat : n = done
      BY <3>1
    <3> QED BY <3>1, <3>2, CookieNext, Zenon
  <2>2. ~SetsCookie(script.calls[c]) => cookie = CookieAfter(done)
    BY DEF CookieInv, CookieNow
  <2>3. cookie = CookieAfter(c)
    BY <2>1, <2>2
  <2>4. (CookieAfter(done))' = CookieAfter(c)
    <3>1. (CookieAfter(done))' = CookieAfter(done')
      BY DEF CookieAfter
    <3> QED BY <1>1, <3>1
  <2> QED BY <2>3, <2>4
<1> QED BY <1>1, <1>3, <1>4, Zenon DEF CookieInv, CookieNow

\* Send: call_issue gives a call the cookie that the session has, but only once.
LEMMA CookieGiven ==
  ASSUME ParserInv, Regular(script), CookieInv, Send
  PROVE  CookieInv'
<1>1. Typed /\ Placed
  BY DEF ParserInv
<1>2. /\ NumCalls \in Nat /\ done \in 0..NumCalls /\ sent \in done..NumCalls
  BY <1>1, Counters
<1>3. PICK k : k = sent + 1
  OBVIOUS
<1>4. /\ sent < NumCalls /\ (script.piped \/ sent = done) /\ sent' = k
      /\ calls' = [calls EXCEPT ![k] = call_issue(@)]
      /\ UNCHANGED <<script, done, cookie>>
  BY <1>3 DEF Send
<1>5. /\ k \in 1..NumCalls /\ DOMAIN calls = 1..NumCalls /\ DOMAIN calls[k] = Fields
  BY <1>1, <1>2, <1>3, <1>4 DEF Typed
<1>6. /\ \A i \in 1..NumCalls : i # k => calls'[i] = calls[i]
      /\ calls'[k].issued = calls[k].issued + 1
      /\ calls'[k].cookies = IF calls[k].cookies = <<>> THEN cookie ELSE calls[k].cookies
  BY <1>4, <1>5 DEF call_issue, Fields
<1>7. NumCalls' = NumCalls /\ c' = c /\ c = done + 1
  BY <1>4 DEF NumCalls, c
<1>8. \A n : (CookieAfter(n))' = CookieAfter(n)
  BY <1>4 DEF CookieAfter
<1>9. Carries(k)
  BY <1>5 DEF CookieInv
<1>10. calls[k].issued \in Nat /\ calls'[k].issued \in Nat /\ calls'[k].issued >= 1
  BY <1>6, <1>9 DEF Carries
<1>11. CookieNow'
  <2>1. CookieNow
    BY DEF CookieInv
  <2>2. (CookieAfter(done))' = CookieAfter(done)
    BY <1>4, <1>8
  <2>3. done < NumCalls /\ calls[c].issued >= 1 => calls'[c].issued >= 1
    BY <1>2, <1>6, <1>7, <1>10
  <2> QED BY <1>4, <1>7, <2>1, <2>2, <2>3, Zenon DEF CookieNow
<1>12. ASSUME NEW i \in 1..NumCalls, i # k PROVE Carries(i)'
  <2>1. Carries(i)
    BY DEF CookieInv
  <2>2. i <= sent' => i <= sent
    BY <1>2, <1>3, <1>4, <1>12
  <2>3. (CookieAfter(i - 1))' = CookieAfter(i - 1) /\ calls'[i] = calls[i]
    BY <1>6, <1>8, <1>12
  <2> QED BY <1>4, <2>1, <2>2, <2>3, Zenon DEF Carries
<1>13. Carries(k)'
  <2>1. Len(cookie) <= 1
    <3>1. done \in Nat
      BY <1>2
    <3>2. Len(CookieAfter(done)) <= 1
      BY <3>1, CookieNext, Zenon
    <3>3. cookie = CookieAfter(done) \/ cookie = <<script.calls[c].cookie>>
      BY Zenon DEF CookieInv, CookieNow
    <3>4. Len(<<script.calls[c].cookie>>) <= 1
      OBVIOUS
    <3> QED BY <3>2, <3>3, <3>4, Zenon
  <2>2. Len(calls'[k].cookies) <= 1
    BY <1>6, <1>9, <2>1 DEF Carries
  <2>3. ASSUME ~script.piped
        PROVE  \/ calls'[k].cookies = CookieAfter(k - 1)
               \/ /\ CookieAfter(k - 1) = <<>> /\ calls'[k].issued > 1
                  /\ calls'[k].cookies = <<script.calls[k].cookie>>
    <3>1. k = c /\ k - 1 = done
      BY <1>2, <1>3, <1>4, <1>7, <2>3
    <3>2. CASE calls[k].issued = 0
      <4>1. calls'[k].cookies = cookie
        BY <1>6, <1>9, <3>2 DEF Carries
      <4>2. cookie = CookieAfter(done)
        BY <3>1, <3>2 DEF CookieInv, CookieNow
      <4> QED BY <3>1, <4>1, <4>2
    <3>3. CASE calls[k].issued >= 1
      <4>1. \/ calls[k].cookies = CookieAfter(done)
            \/ CookieAfter(done) = <<>> /\ calls[k].cookies = <<script.calls[k].cookie>>
        BY <1>9, <2>3, <3>1, <3>3 DEF Carries
      <4>2. calls'[k].issued > 1
        BY <1>6, <1>10, <3>3
      <4>3. cookie = CookieAfter(done) \/ cookie = <<script.calls[k].cookie>>
        BY <3>1 DEF CookieInv, CookieNow
      <4>4. <<script.calls[k].cookie>> # <<>>
        OBVIOUS
      <4> QED BY <1>6, <3>1, <4>1, <4>2, <4>3, <4>4, Zenon
    <3> QED BY <1>10, <3>2, <3>3
  <2>4. (CookieAfter(k - 1))' = CookieAfter(k - 1) /\ calls'[k].issued # 0
    BY <1>8, <1>10
  <2> QED BY <1>4, <1>10, <2>2, <2>3, <2>4, Zenon DEF Carries
<1> QED BY <1>7, <1>11, <1>12, <1>13, Zenon DEF CookieInv

\* The functions of http.c do not touch what a call was issued with, and set the cookie
\* of the session only to that of the reply.
LEMMA CookiesOfParser ==
  ASSUME ParserInv, Regular(script), LineMax >= 4, http_process_reply_bytes
  PROVE  /\ UNCHANGED <<script, sent, done>> /\ CookieStep(script.calls[c]) /\ done < sent
         /\ \A i \in 1..NumCalls : /\ calls'[i].issued = calls[i].issued
                                   /\ calls'[i].cookies = calls[i].cookies
<1>1. Typed /\ Placed
  BY DEF ParserInv
<1>2. at = "buffer" /\ UNCHANGED <<script, sent, done>>
  BY DEF http_process_reply_bytes, parse_status_line, parse_headers, parse_footers, reply_data,
         xfer_chunked, parse_data, Parsing, Consume
<1>3. done < sent
  BY <1>1, <1>2 DEF Placed
<1>4. c \in 1..NumCalls /\ DOMAIN calls = 1..NumCalls /\ DOMAIN calls[c] = Fields
  BY <1>2, <1>3, Present
<1>5. \/ calls' = calls
      \/ \E x, y : calls' = [calls EXCEPT ![c].status = x, ![c].header = y]
      \/ \E x : calls' = [calls EXCEPT ![c].header = x]
      \/ \E x, y : calls' = [[calls EXCEPT ![c].header = x] EXCEPT ![c].page = y]
      \/ \E x : calls' = [calls EXCEPT ![c].footer = x]
      \/ \E x, y : calls' = [calls EXCEPT ![c].content = x, ![c].page = y]
  <2>1. CASE parse_status_line
    <3>1. UNCHANGED calls \/ \E x, y : calls' = [calls EXCEPT ![c].status = x, ![c].header = y]
      <4>1. PICK g, fresh :
              IF g.ok
              THEN \E status \in StatusOf(g.line) :
                     /\ conn' = [fresh EXCEPT
                          !.has_body = BodyExpected(Method, status),
                          !.state = IF status = "100" /\ Method # "HEAD"
                                    THEN "CONTINUE" ELSE "HEADER",
                          !.line = <<>>]
                     /\ calls' = [calls EXCEPT ![c].status = Reported(g.line),
                                               ![c].header = @ + g.used]
              ELSE conn' = [fresh EXCEPT !.line = g.line] /\ UNCHANGED calls
        BY <2>1, Zenon DEF parse_status_line
      <4>2. CASE g.ok
        <5>1. calls' = [calls EXCEPT ![c].status = Reported(g.line), ![c].header = @ + g.used]
          BY <4>1, <4>2
        <5> QED BY <5>1, Zenon
      <4>3. CASE ~g.ok
        BY <4>1, <4>3
      <4> QED BY <4>2, <4>3
    <3> QED BY <3>1
  <2>2. CASE parse_headers
    BY <2>2, Zenon DEF parse_headers
  <2>3. CASE parse_footers
    BY <2>3, Zenon DEF parse_footers
  <2>4. CASE parse_data
    BY <2>4, Zenon DEF parse_data
  <2>5. CASE reply_data
    BY <2>4, <2>5 DEF reply_data
  <2>6. CASE xfer_chunked
    BY <2>4, <2>6 DEF xfer_chunked
  <2> QED BY <2>1, <2>2, <2>3, <2>5, <2>6 DEF http_process_reply_bytes
<1> DEFINE Same == \A i \in 1..NumCalls : /\ calls'[i].issued = calls[i].issued
                                            /\ calls'[i].cookies = calls[i].cookies
<1>6. Same
  <2>1. CASE calls' = calls
    BY <2>1
  <2>2. ASSUME NEW x, NEW y,
               calls' = [calls EXCEPT ![c].status = x, ![c].header = y]
        PROVE  Same
    BY <1>4, <2>2 DEF Fields
  <2>3. ASSUME NEW x,
               calls' = [calls EXCEPT ![c].header = x]
        PROVE  Same
    BY <1>4, <2>3 DEF Fields
  <2>4. ASSUME NEW x, NEW y,
               calls' = [[calls EXCEPT ![c].header = x] EXCEPT ![c].page = y]
        PROVE  Same
    BY <1>4, <2>4 DEF Fields
  <2>5. ASSUME NEW x,
               calls' = [calls EXCEPT ![c].footer = x]
        PROVE  Same
    BY <1>4, <2>5 DEF Fields
  <2>6. ASSUME NEW x, NEW y,
               calls' = [calls EXCEPT ![c].content = x, ![c].page = y]
        PROVE  Same
    BY <1>4, <2>6 DEF Fields
  <2> QED BY <1>5, <2>1, <2>2, <2>3, <2>4, <2>5, <2>6
<1>7. CookieStep(script.calls[c])
  <2>1. CASE parse_headers
    BY <2>1, HeadersStep
  <2>2. CASE ~parse_headers
    <3>1. cookie' = cookie
      BY <2>2 DEF http_process_reply_bytes, parse_status_line, parse_footers, reply_data,
                  xfer_chunked, parse_data
    <3> QED BY <3>1 DEF CookieStep
  <2> QED BY <2>1, <2>2
<1> QED BY <1>2, <1>3, <1>6, <1>7

\* Every step keeps the cookies as they should be.
LEMMA CookiesKept ==
  ASSUME ParserInv, Regular(script), LineMax >= 4, CookieInv, [Next]_vars
  PROVE  CookieInv'
<1>1. Typed /\ Placed /\ Pending
  BY DEF ParserInv
<1>2. /\ NumCalls \in Nat /\ done \in 0..NumCalls /\ sent \in done..NumCalls /\ sent \in Nat
      /\ done < sent => done < NumCalls
  <2>1. NumCalls \in Nat /\ done \in 0..NumCalls /\ sent \in done..NumCalls
    BY <1>1, Counters
  <2> QED BY <2>1
<1>3. CASE UNCHANGED <<script, done, sent, cookie, calls>>
  BY <1>2, <1>3, CookiesLeft
<1>4. CASE http_process_reply_bytes
  BY <1>2, <1>4, CookiesOfParser, CookiesLeft
<1>5. CASE Send
  BY <1>5, CookieGiven
<1>6. ASSUME done < sent, at # "closed"
      PROVE  \E t : Left(script.calls[c], t)
  BY <1>6, Present
<1>7. CASE recv_done
  <2>1. /\ at = "buffer" /\ conn.state = "DONE" /\ done' = done + 1
        /\ UNCHANGED <<script, calls, sent, cookie>>
    BY <1>7 DEF recv_done, RecvDone
  <2>2. done < sent
    BY <1>1, <2>1 DEF Placed
  <2>3. SetsCookie(script.calls[c]) => cookie = <<script.calls[c].cookie>>
    <3>1. PICK t : Left(script.calls[c], t)
      BY <1>6, <2>1, <2>2
    <3> QED BY <2>1, <3>1 DEF Left, Between, SetsCookie
  <2> QED BY <1>2, <2>1, <2>3, CookieGot
<1>8. CASE ReadEof
  <2>1. /\ at = "loop" /\ done < sent /\ UNCHANGED <<script, calls, cookie>>
    BY <1>8 DEF ReadEof, Waiting
  <2>2. CASE conn.state = "DATA"
    <3>1. done' = done + 1 /\ sent' = sent
      BY <1>8, <2>2 DEF ReadEof, RecvDone
    <3>2. SetsCookie(script.calls[c]) => cookie = <<script.calls[c].cookie>>
      <4>1. PICK t : Left(script.calls[c], t)
        BY <1>6, <2>1
      <4> QED BY <2>2, <4>1 DEF Left, Between, PastHead, SetsCookie
    <3> QED BY <1>2, <2>1, <3>1, <3>2, CookieGot
  <2>3. CASE conn.state # "DATA"
    <3>1. sent' = done /\ done' = done
      BY <1>8, <2>3 DEF ReadEof
    <3>2. sent' \in Nat /\ sent' <= sent
      BY <1>2, <3>1
    <3> QED BY <1>2, <2>1, <3>1, <3>2, CookiesLeft
  <2> QED BY <2>2, <2>3
<1>9. CASE Read \/ Serve \/ ServerCloses \/ Idle \/ UNCHANGED vars
  BY <1>3, <1>9 DEF Read, Serve, ServerCloses, Idle, vars
<1> QED BY <1>4, <1>5, <1>7, <1>8, <1>9 DEF Next, Client

\* sess_cookie.c: a call carries at most one cookie, however often it is issued, and
\* without pipelining that is the last one set by the replies before it, or its own when
\* there was none and its reply was cut off.
THEOREM OneCookie ==
  ASSUME \A s \in Scripts : Regular(s), LineMax >= 4
  PROVE  Spec => []CookieSent
<1>1. Init => CookieInv
  <2> SUFFICES ASSUME Init PROVE CookieInv
    OBVIOUS
  <2>1. /\ done = 0 /\ sent = 0 /\ cookie = <<>>
        /\ calls = [i \in 1..NumCalls |-> NewCall]
    BY DEF Init
  <2>2. CookieAfter(0) = <<>>
    BY DEF CookieAfter
  <2>3. ASSUME NEW i \in 1..NumCalls PROVE Carries(i)
    <3>1. calls[i].issued = 0 /\ calls[i].cookies = <<>> /\ ~(i <= sent)
      BY <2>1, <2>3 DEF NewCall
    <3> QED BY <3>1 DEF Carries
  <2> QED BY <2>1, <2>2, <2>3 DEF CookieInv, CookieNow
<1>2. ParserInv /\ CookieInv /\ [Next]_vars => CookieInv'
  BY CookiesKept DEF ParserInv, Typed
<1>3. ParserInv /\ CookieInv => CookieSent
  <2> SUFFICES ASSUME ParserInv, CookieInv PROVE CookieSent
    OBVIOUS
  <2>1. \A i \in 1..sent : i \in 1..NumCalls /\ i <= sent
    <3>1. Regular(script)
      BY DEF ParserInv, Typed
    <3>2. sent \in done..NumCalls /\ NumCalls \in Nat /\ done \in 0..NumCalls
      BY <3>1, Counters DEF ParserInv
    <3> QED BY <3>2
  <2>2. ASSUME NEW i \in 1..sent
        PROVE  /\ Len(calls[i].cookies) <= 1
               /\ ~script.piped =>
                    \/ calls[i].cookies = CookieAfter(i - 1)
                    \/ CookieAfter(i - 1) = <<>> /\ calls[i].issued > 1
                       /\ calls[i].cookies = <<script.calls[i].cookie>>
    <3>1. Carries(i) /\ i <= sent
      BY <2>1 DEF CookieInv
    <3> QED BY <3>1, Zenon DEF Carries
  <2> QED BY <2>2, Zenon DEF CookieSent
<1> QED BY <1>1, <1>2, <1>3, InStepAlways, PTL DEF Spec
=============================================================================
