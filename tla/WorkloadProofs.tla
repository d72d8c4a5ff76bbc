--------------------------- MODULE WorkloadProofs ---------------------------
(***************************************************************************)
(* What TLAPS proves of Workload, for every command line and every number  *)
(* of sessions: as long as no assertion has failed, the memory and the     *)
(* stack are in shape (every pointer leads to a cell of its type), each    *)
(* session and each connection has exactly one holder of every reference   *)
(* it counts, is destroyed once and freed once, and the counters agree     *)
(* with what became of the sessions; httperf leaves its loop only when     *)
(* every session is over.                                                  *)
(*                                                                         *)
(* The invariant is Sound: Shape, which is about types, and Ledger, which  *)
(* is about the lives of sessions and connections.  Once an assertion has  *)
(* failed there are no further steps.                                      *)
(***************************************************************************)
EXTENDS Workload, SequenceTheorems, FiniteSetTheorems, WellFoundedInduction, TLAPS

-----------------------------------------------------------------------------
(* Sequences, of frames mostly *)

\* A sequence, of whatever elements
Sized(q) == q \in Seq({q[i] : i \in DOMAIN q})

\* The stack st after its top frame has been replaced by calls
Pushed(calls, st) == calls \o Tail(st)

\* The places of q that hold a member of X, and their number
At(X, q) == {i \in DOMAIN q : q[i] \in X}
Number(X, q) == Cardinality(At(X, q))

\* A sequence over any set is one.
LEMMA SizedIn == ASSUME NEW S, NEW q \in Seq(S) PROVE Sized(q)
<1>1. PICK n \in Nat : q \in [1..n -> S]
  BY SeqDef
<1>2. DOMAIN q = 1..n /\ q = [i \in 1..n |-> q[i]]
  BY <1>1
<1> DEFINE R == {q[i] : i \in DOMAIN q}
<1>3. q \in [1..n -> R]
  BY <1>2
<1> QED BY <1>3, SeqDef DEF Sized

\* Its length and its places.
LEMMA SizedLen ==
  ASSUME NEW q, Sized(q)
  PROVE  Len(q) \in Nat /\ DOMAIN q = 1..Len(q) /\ (q = <<>> <=> Len(q) = 0)
<1> DEFINE R == {q[i] : i \in DOMAIN q}
<1>1. q \in Seq(R)
  BY DEF Sized
<1> HIDE DEF R
<1> QED BY <1>1, LenProperties, EmptySeq

\* Calls that are made explicitly.
LEMMA SizedFew ==
  /\ Sized(<<>>)
  /\ \A a : Sized(<<a>>)
  /\ \A a, b : Sized(<<a, b>>)
  /\ \A a, b, c : Sized(<<a, b, c>>)
  /\ \A a, b, c, d : Sized(<<a, b, c, d>>)
<1>1. Sized(<<>>)
  BY SizedIn, EmptySeq
<1>2. ASSUME NEW a PROVE Sized(<<a>>)
  <2>1. <<a>> \in Seq({a})
    OBVIOUS
  <2> QED BY <2>1, SizedIn
<1>3. ASSUME NEW a, NEW b PROVE Sized(<<a, b>>)
  <2>1. <<a, b>> \in Seq({a, b})
    OBVIOUS
  <2> QED BY <2>1, SizedIn
<1>4. ASSUME NEW a, NEW b, NEW c PROVE Sized(<<a, b, c>>)
  <2>1. <<a, b, c>> \in Seq({a, b, c})
    OBVIOUS
  <2> QED BY <2>1, SizedIn
<1>5. ASSUME NEW a, NEW b, NEW c, NEW d PROVE Sized(<<a, b, c, d>>)
  <2>1. <<a, b, c, d>> \in Seq({a, b, c, d})
    OBVIOUS
  <2> QED BY <2>1, SizedIn
<1> QED BY <1>1, <1>2, <1>3, <1>4, <1>5

\* Two sequences of frames, one after the other
Cat(p, q) == p \o q

\* The concatenation is known by its length and its places.
LEMMA Joined ==
  ASSUME NEW p, NEW q, NEW r, Sized(p), Sized(q), Sized(r), Len(r) = Len(p) + Len(q),
         \A i \in 1..Len(p) : r[i] = p[i], \A i \in 1..Len(q) : r[Len(p) + i] = q[i]
  PROVE  Cat(p, q) = r
<1> DEFINE P == {p[i] : i \in DOMAIN p}
           Q == {q[i] : i \in DOMAIN q}
           R == {r[i] : i \in DOMAIN r}
           U == P \union Q \union R
<1>1. p \in Seq(U) /\ q \in Seq(U) /\ r \in Seq(U)
  <2>1. p \in Seq(P) /\ q \in Seq(Q) /\ r \in Seq(R)
    BY DEF Sized
  <2> HIDE DEF P, Q, R
  <2>2. P \subseteq U /\ Q \subseteq U /\ R \subseteq U
    OBVIOUS
  <2> HIDE DEF U
  <2> QED BY <2>1, <2>2, SeqMonotonic
<1> HIDE DEF U
<1>2. Cat(p, q) \in Seq(U) /\ Len(Cat(p, q)) = Len(p) + Len(q)
      /\ \A i \in 1..(Len(p) + Len(q)) : Cat(p, q)[i] = IF i <= Len(p) THEN p[i] ELSE q[i - Len(p)]
  BY <1>1, ConcatProperties DEF Cat
<1> DEFINE z == Cat(p, q)
<1> HIDE DEF z
<1>3. Len(p) \in Nat /\ Len(q) \in Nat
  BY SizedLen
<1>4. \A i \in 1..Len(z) : z[i] = r[i]
  <2> TAKE i \in 1..Len(z)
  <2>1. i \in 1..(Len(p) + Len(q))
    BY <1>2 DEF z
  <2>2. CASE i <= Len(p)
    BY <1>2, <1>3, <2>1, <2>2 DEF z
  <2>3. CASE ~(i <= Len(p))
    <3>1. i - Len(p) \in 1..Len(q) /\ Len(p) + (i - Len(p)) = i
      BY <1>3, <2>1, <2>3
    <3>2. r[i] = q[i - Len(p)]
      BY <3>1
    <3> QED BY <1>2, <2>1, <2>3, <3>2 DEF z
  <2> QED BY <2>2, <2>3
<1>5. z = r
  BY <1>1, <1>2, <1>4, SeqEqual DEF z
<1> QED BY <1>5 DEF z

\* A few explicit frames after others.
LEMMA JoinFew ==
  /\ \A a : Cat(<<>>, <<a>>) = <<a>>
  /\ \A a : Cat(<<a>>, <<>>) = <<a>>
  /\ \A a, b : Cat(<<a, b>>, <<>>) = <<a, b>>
  /\ \A a, b : Cat(<<a>>, <<b>>) = <<a, b>>
  /\ \A a, b, c : Cat(<<a, b>>, <<c>>) = <<a, b, c>>
  /\ \A a, b, c : Cat(<<a>>, <<b, c>>) = <<a, b, c>>
  /\ \A a, b, c, d : Cat(<<a, b>>, <<c, d>>) = <<a, b, c, d>>
  /\ \A a, b, c, d : Cat(<<a, b, c>>, <<d>>) = <<a, b, c, d>>
<1>1. ASSUME NEW a PROVE Cat(<<>>, <<a>>) = <<a>>
  <2> DEFINE x == <<>>  y == <<a>>  z == <<a>>
  <2>1. Len(x) = 0 /\ Len(y) = 1 /\ Len(z) = 1
    OBVIOUS
  <2>2. z[1] = y[1]
    OBVIOUS
  <2>3. Sized(x) /\ Sized(y) /\ Sized(z)
    BY SizedFew
  <2> HIDE DEF x, y, z
  <2>4. (\A i \in 1..Len(x) : z[i] = x[i]) /\ \A i \in 1..Len(y) : z[Len(x) + i] = y[i]
    BY <2>1, <2>2
  <2>5. Len(z) = Len(x) + Len(y)
    BY <2>1
  <2>6. Cat(x, y) = z
    BY <2>3, <2>4, <2>5, Joined
  <2> QED BY <2>6 DEF x, y, z
<1>2. ASSUME NEW a PROVE Cat(<<a>>, <<>>) = <<a>>
  <2> DEFINE x == <<a>>  y == <<>>  z == <<a>>
  <2>1. Len(x) = 1 /\ Len(y) = 0 /\ Len(z) = 1
    OBVIOUS
  <2>2. z[1] = x[1]
    OBVIOUS
  <2>3. Sized(x) /\ Sized(y) /\ Sized(z)
    BY SizedFew
  <2> HIDE DEF x, y, z
  <2>4. (\A i \in 1..Len(x) : z[i] = x[i]) /\ \A i \in 1..Len(y) : z[Len(x) + i] = y[i]
    BY <2>1, <2>2
  <2>5. Len(z) = Len(x) + Len(y)
    BY <2>1
  <2>6. Cat(x, y) = z
    BY <2>3, <2>4, <2>5, Joined
  <2> QED BY <2>6 DEF x, y, z
<1>3. ASSUME NEW a, NEW b PROVE Cat(<<a, b>>, <<>>) = <<a, b>>
  <2> DEFINE x == <<a, b>>  y == <<>>  z == <<a, b>>
  <2>1. Len(x) = 2 /\ Len(y) = 0 /\ Len(z) = 2
    OBVIOUS
  <2>2. z[1] = x[1] /\ z[2] = x[2]
    OBVIOUS
  <2>3. Sized(x) /\ Sized(y) /\ Sized(z)
    BY SizedFew
  <2> HIDE DEF x, y, z
  <2>4. (\A i \in 1..Len(x) : z[i] = x[i]) /\ \A i \in 1..Len(y) : z[Len(x) + i] = y[i]
    BY <2>1, <2>2
  <2>5. Len(z) = Len(x) + Len(y)
    BY <2>1
  <2>6. Cat(x, y) = z
    BY <2>3, <2>4, <2>5, Joined
  <2> QED BY <2>6 DEF x, y, z
<1>4. ASSUME NEW a, NEW b PROVE Cat(<<a>>, <<b>>) = <<a, b>>
  <2> DEFINE x == <<a>>  y == <<b>>  z == <<a, b>>
  <2>1. Len(x) = 1 /\ Len(y) = 1 /\ Len(z) = 2
    OBVIOUS
  <2>2. z[1] = x[1] /\ z[2] = y[1]
    OBVIOUS
  <2>3. Sized(x) /\ Sized(y) /\ Sized(z)
    BY SizedFew
  <2> HIDE DEF x, y, z
  <2>4. (\A i \in 1..Len(x) : z[i] = x[i]) /\ \A i \in 1..Len(y) : z[Len(x) + i] = y[i]
    BY <2>1, <2>2
  <2>5. Len(z) = Len(x) + Len(y)
    BY <2>1
  <2>6. Cat(x, y) = z
    BY <2>3, <2>4, <2>5, Joined
  <2> QED BY <2>6 DEF x, y, z
<1>5. ASSUME NEW a, NEW b, NEW c PROVE Cat(<<a, b>>, <<c>>) = <<a, b, c>>
  <2> DEFINE x == <<a, b>>  y == <<c>>  z == <<a, b, c>>
  <2>1. Len(x) = 2 /\ Len(y) = 1 /\ Len(z) = 3
    OBVIOUS
  <2>2. z[1] = x[1] /\ z[2] = x[2] /\ z[3] = y[1]
    OBVIOUS
  <2>3. Sized(x) /\ Sized(y) /\ Sized(z)
    BY SizedFew
  <2> HIDE DEF x, y, z
  <2>4. (\A i \in 1..Len(x) : z[i] = x[i]) /\ \A i \in 1..Len(y) : z[Len(x) + i] = y[i]
    BY <2>1, <2>2
  <2>5. Len(z) = Len(x) + Len(y)
    BY <2>1
  <2>6. Cat(x, y) = z
    BY <2>3, <2>4, <2>5, Joined
  <2> QED BY <2>6 DEF x, y, z
<1>6. ASSUME NEW a, NEW b, NEW c PROVE Cat(<<a>>, <<b, c>>) = <<a, b, c>>
  <2> DEFINE x == <<a>>  y == <<b, c>>  z == <<a, b, c>>
  <2>1. Len(x) = 1 /\ Len(y) = 2 /\ Len(z) = 3
    OBVIOUS
  <2>2. z[1] = x[1] /\ z[2] = y[1] /\ z[3] = y[2]
    OBVIOUS
  <2>3. Sized(x) /\ Sized(y) /\ Sized(z)
    BY SizedFew
  <2> HIDE DEF x, y, z
  <2>4. (\A i \in 1..Len(x) : z[i] = x[i]) /\ \A i \in 1..Len(y) : z[Len(x) + i] = y[i]
    BY <2>1, <2>2
  <2>5. Len(z) = Len(x) + Len(y)
    BY <2>1
  <2>6. Cat(x, y) = z
    BY <2>3, <2>4, <2>5, Joined
  <2> QED BY <2>6 DEF x, y, z
<1>7. ASSUME NEW a, NEW b, NEW c, NEW d PROVE Cat(<<a, b>>, <<c, d>>) = <<a, b, c, d>>
  <2> DEFINE x == <<a, b>>  y == <<c, d>>  z == <<a, b, c, d>>
  <2>1. Len(x) = 2 /\ Len(y) = 2 /\ Len(z) = 4
    OBVIOUS
  <2>2. z[1] = x[1] /\ z[2] = x[2] /\ z[3] = y[1] /\ z[4] = y[2]
    OBVIOUS
  <2>3. Sized(x) /\ Sized(y) /\ Sized(z)
    BY SizedFew
  <2> HIDE DEF x, y, z
  <2>4. (\A i \in 1..Len(x) : z[i] = x[i]) /\ \A i \in 1..Len(y) : z[Len(x) + i] = y[i]
    BY <2>1, <2>2
  <2>5. Len(z) = Len(x) + Len(y)
    BY <2>1
  <2>6. Cat(x, y) = z
    BY <2>3, <2>4, <2>5, Joined
  <2> QED BY <2>6 DEF x, y, z
<1>8. ASSUME NEW a, NEW b, NEW c, NEW d PROVE Cat(<<a, b, c>>, <<d>>) = <<a, b, c, d>>
  <2> DEFINE x == <<a, b, c>>  y == <<d>>  z == <<a, b, c, d>>
  <2>1. Len(x) = 3 /\ Len(y) = 1 /\ Len(z) = 4
    OBVIOUS
  <2>2. z[1] = x[1] /\ z[2] = x[2] /\ z[3] = x[3] /\ z[4] = y[1]
    OBVIOUS
  <2>3. Sized(x) /\ Sized(y) /\ Sized(z)
    BY SizedFew
  <2> HIDE DEF x, y, z
  <2>4. (\A i \in 1..Len(x) : z[i] = x[i]) /\ \A i \in 1..Len(y) : z[Len(x) + i] = y[i]
    BY <2>1, <2>2
  <2>5. Len(z) = Len(x) + Len(y)
    BY <2>1
  <2>6. Cat(x, y) = z
    BY <2>3, <2>4, <2>5, Joined
  <2> QED BY <2>6 DEF x, y, z
<1> QED BY <1>1, <1>2, <1>3, <1>4, <1>5, <1>6, <1>7, <1>8

\* Where the frames of a stack are after a call: those of the calls first, then
\* all of the old ones but the top.
LEMMA PushedAt ==
  ASSUME NEW calls, NEW st, Sized(calls), Sized(st), st # <<>>
  PROVE  /\ Sized(Pushed(calls, st))
         /\ Len(Pushed(calls, st)) = Len(calls) + Len(st) - 1
         /\ \A i \in 1..Len(calls) : Pushed(calls, st)[i] = calls[i]
         /\ \A i \in 2..Len(st) : Pushed(calls, st)[Len(calls) + i - 1] = st[i]
<1> DEFINE R == {calls[i] : i \in DOMAIN calls}
           T == {st[i] : i \in DOMAIN st}
           U == R \union T
<1>1. calls \in Seq(U) /\ st \in Seq(U)
  <2>1. calls \in Seq(R) /\ st \in Seq(T)
    BY DEF Sized
  <2> HIDE DEF R, T
  <2>2. R \subseteq U /\ T \subseteq U
    OBVIOUS
  <2> HIDE DEF U
  <2> QED BY <2>1, <2>2, SeqMonotonic
<1> HIDE DEF U
<1>2. Tail(st) \in Seq(U) /\ Len(Tail(st)) = Len(st) - 1
      /\ \A i \in 1..Len(Tail(st)) : Tail(st)[i] = st[i + 1]
  BY <1>1, HeadTailProperties
<1>3. Pushed(calls, st) \in Seq(U) /\ Len(Pushed(calls, st)) = Len(calls) + Len(Tail(st))
      /\ \A i \in 1..(Len(calls) + Len(Tail(st))) :
            Pushed(calls, st)[i] = IF i <= Len(calls) THEN calls[i] ELSE Tail(st)[i - Len(calls)]
  BY <1>1, <1>2, ConcatProperties DEF Pushed
<1> DEFINE p == Pushed(calls, st)  r == Tail(st)
<1> HIDE DEF p, r
<1>4. Len(calls) \in Nat /\ Len(st) \in Nat /\ Len(st) # 0
  BY <1>1, LenProperties, EmptySeq
<1>5. Sized(p)
  BY <1>3, SizedIn DEF p
<1>6. \A i \in 1..Len(calls) : p[i] = calls[i]
  BY <1>2, <1>3, <1>4 DEF p, r
<1>7. \A i \in 2..Len(st) : p[Len(calls) + i - 1] = st[i]
  <2> TAKE i \in 2..Len(st)
  <2>1. Len(calls) + i - 1 \in 1..(Len(calls) + Len(r)) /\ ~(Len(calls) + i - 1 <= Len(calls))
        /\ Len(calls) + i - 1 - Len(calls) = i - 1 /\ i - 1 \in 1..Len(r) /\ i - 1 + 1 = i
    BY <1>2, <1>4 DEF r
  <2> QED BY <1>2, <1>3, <2>1 DEF p, r
<1> QED BY <1>2, <1>3, <1>4, <1>5, <1>6, <1>7 DEF p, r

\* The same, seen from the new stack.
LEMMA PushedFrom ==
  ASSUME NEW calls, NEW st, Sized(calls), Sized(st), st # <<>>,
         NEW i \in 1..Len(Pushed(calls, st))
  PROVE  \/ i \in 1..Len(calls) /\ Pushed(calls, st)[i] = calls[i]
         \/ /\ i > Len(calls) /\ i - Len(calls) + 1 \in 2..Len(st)
            /\ Pushed(calls, st)[i] = st[i - Len(calls) + 1]
<1> DEFINE p == Pushed(calls, st)
<1> HIDE DEF p
<1>1. Len(calls) \in Nat /\ Len(st) \in Nat
  BY SizedLen
<1>2. Len(p) = Len(calls) + Len(st) - 1 /\ (\A j \in 1..Len(calls) : p[j] = calls[j])
      /\ \A j \in 2..Len(st) : p[Len(calls) + j - 1] = st[j]
  BY PushedAt DEF p
<1>3. CASE i <= Len(calls)
  BY <1>1, <1>2, <1>3 DEF p
<1>4. CASE ~(i <= Len(calls))
  <2> DEFINE j == i - Len(calls) + 1
  <2>1. j \in 2..Len(st) /\ Len(calls) + j - 1 = i
    BY <1>1, <1>2, <1>4 DEF p
  <2> QED BY <1>1, <1>2, <1>4, <2>1 DEF p
<1> QED BY <1>3, <1>4

\* A sequence has finitely many places of X, so that they can be counted.
LEMMA NumberType == ASSUME NEW X, NEW q, Sized(q) PROVE IsFiniteSet(At(X, q)) /\ Number(X, q) \in Nat
<1>1. Len(q) \in Nat /\ DOMAIN q = 1..Len(q)
  BY SizedLen
<1>2. IsFiniteSet(1..Len(q)) /\ At(X, q) \subseteq 1..Len(q)
  BY <1>1, FS_Interval DEF At
<1> QED BY <1>2, FS_Subset, FS_CardinalityType DEF Number

\* A call takes the top frame away and adds those of the calls.
LEMMA NumberPushed ==
  ASSUME NEW X, NEW calls, NEW st, Sized(calls), Sized(st), st # <<>>
  PROVE  Number(X, Pushed(calls, st))
           = Number(X, calls) + Number(X, st) - (IF st[1] \in X THEN 1 ELSE 0)
<1> DEFINE p == Pushed(calls, st)  n == Len(calls)
           T == At(X, st) \ {1}
           U == {i \in At(X, p) : i > n}
<1>1. n \in Nat /\ Len(st) \in Nat /\ Len(st) # 0 /\ DOMAIN calls = 1..n /\ DOMAIN st = 1..Len(st)
  BY SizedLen
<1>2. Sized(p) /\ Len(p) = n + Len(st) - 1 /\ (\A i \in 1..n : p[i] = calls[i])
      /\ \A i \in 2..Len(st) : p[n + i - 1] = st[i]
  BY PushedAt
<1>3. DOMAIN p = 1..Len(p) /\ \A i \in 1..Len(p) : i > n => i - n + 1 \in 2..Len(st) /\ p[i] = st[i - n + 1]
  BY <1>1, <1>2, PushedFrom, SizedLen
<1> HIDE DEF p, n
<1>4. At(X, p) = At(X, calls) \union U /\ At(X, calls) \intersect U = {}
  <2>1. \A i : i \in At(X, p) <=> i \in At(X, calls) \/ i \in U
    BY <1>1, <1>2, <1>3 DEF At
  <2>2. \A i : ~(i \in At(X, calls) /\ i \in U)
    BY <1>1 DEF At
  <2> QED BY <2>1, <2>2
<1>5. IsFiniteSet(At(X, calls)) /\ IsFiniteSet(At(X, p)) /\ IsFiniteSet(At(X, st))
  BY <1>2, NumberType
<1>6. IsFiniteSet(U) /\ IsFiniteSet(T)
  BY <1>5, FS_Subset
<1>7. Cardinality(At(X, p)) = Cardinality(At(X, calls)) + Cardinality(U)
  <2> DEFINE A == At(X, calls)  B == At(X, p)
  <2> HIDE DEF A, B, U
  <2>1. Cardinality(A \union U) = Cardinality(A) + Cardinality(U) - Cardinality(A \intersect U)
    BY <1>5, <1>6, FS_Union DEF A
  <2>2. Cardinality(A \intersect U) = 0
    BY <1>4, FS_EmptySet DEF A
  <2>3. Cardinality(A) \in Nat /\ Cardinality(U) \in Nat /\ B = A \union U
    BY <1>4, <1>5, <1>6, FS_CardinalityType DEF A, B
  <2>4. Cardinality(B) = Cardinality(A) + Cardinality(U)
    BY <2>1, <2>2, <2>3
  <2> QED BY <2>4 DEF A, B
<1>8. Cardinality(U) = Cardinality(T)
  <2> DEFINE f == [i \in T |-> n + i - 1]
  <2>1. \A i \in T : n + i - 1 \in U
    BY <1>1, <1>2, <1>3 DEF At
  <2>2. \A j \in U : j - n + 1 \in T /\ n + (j - n + 1) - 1 = j
    BY <1>1, <1>2, <1>3 DEF At
  <2>3. \A i, j \in T : n + i - 1 = n + j - 1 => i = j
    BY <1>1 DEF At
  <2> HIDE DEF T, U
  <2>4. f \in Bijection(T, U)
    BY <2>1, <2>2, <2>3 DEF Bijection, Injection, Surjection, IsInjective
  <2>5. ExistsBijection(T, U)
    BY <2>4 DEF ExistsBijection
  <2> QED BY <2>5, <1>6, FS_Bijection
<1>9. Cardinality(T) = Cardinality(At(X, st)) - (IF st[1] \in X THEN 1 ELSE 0)
  <2>1. 1 \in At(X, st) <=> st[1] \in X
    BY <1>1 DEF At
  <2>2. CASE st[1] \in X
    BY <1>5, <2>1, <2>2, FS_RemoveElement, FS_CardinalityType
  <2>3. CASE st[1] \notin X
    <3>1. T = At(X, st)
      BY <2>1, <2>3
    <3>2. Cardinality(At(X, st)) \in Nat
      BY <1>5, FS_CardinalityType
    <3> HIDE DEF T
    <3> QED BY <3>1, <3>2, <2>3
  <2> QED BY <2>2, <2>3
<1>10. Cardinality(At(X, calls)) \in Nat /\ Cardinality(At(X, st)) \in Nat
  BY <1>5, FS_CardinalityType
<1> DEFINE a == Cardinality(At(X, p))  b == Cardinality(At(X, calls))  d == Cardinality(At(X, st))
           t == Cardinality(T)  u == Cardinality(U)
<1> HIDE DEF a, b, d, t, u, T, U
<1>11. a = b + d - (IF st[1] \in X THEN 1 ELSE 0)
  BY <1>7, <1>8, <1>9, <1>10 DEF a, b, d, t, u
<1> QED BY <1>11 DEF a, b, d, Number, p

\* Calls none of which matters.
LEMMA NumberNone ==
  ASSUME NEW X, NEW q, Sized(q), \A i \in 1..Len(q) : q[i] \notin X
  PROVE  Number(X, q) = 0
<1>1. At(X, q) = {}
  BY SizedLen DEF At
<1> QED BY <1>1, FS_EmptySet DEF Number

\* One in X: there is a place for it.
LEMMA NumberSome ==
  ASSUME NEW X, NEW q, Sized(q)
  PROVE  Number(X, q) > 0 <=> \E i \in 1..Len(q) : q[i] \in X
<1>1. IsFiniteSet(At(X, q)) /\ DOMAIN q = 1..Len(q) /\ Number(X, q) \in Nat
  BY NumberType, SizedLen
<1>2. Number(X, q) = 0 <=> At(X, q) = {}
  BY <1>1, FS_EmptySet DEF Number
<1>3. At(X, q) # {} <=> \E i \in 1..Len(q) : q[i] \in X
  BY <1>1 DEF At
<1> DEFINE n == Number(X, q)
<1> HIDE DEF n
<1>4. n > 0 <=> n # 0
  BY <1>1 DEF n
<1> QED BY <1>2, <1>3, <1>4 DEF n

\* No two places hold the same: a sequence in which nothing occurs twice.
LEMMA NumberOnce ==
  ASSUME NEW q, Sized(q), \A x : Number({x}, q) <= 1
  PROVE  IsInjective(q)
<1> SUFFICES ASSUME NEW i \in DOMAIN q, NEW j \in DOMAIN q, q[i] = q[j], i # j PROVE FALSE
  BY DEF IsInjective
<1>1. {i, j} \subseteq At({q[i]}, q) /\ IsFiniteSet(At({q[i]}, q))
  BY NumberType DEF At
<1>2. Cardinality({i, j}) <= Cardinality(At({q[i]}, q))
  BY <1>1, FS_Subset
<1>3. Cardinality({i, j}) = 2
  <2>1. IsFiniteSet({i}) /\ Cardinality({i}) = 1 /\ j \notin {i} /\ {i} \union {j} = {i, j}
    BY FS_Singleton
  <2> QED BY <2>1, FS_AddElement
<1>4. Cardinality(At({q[i]}, q)) <= 1 /\ Cardinality(At({q[i]}, q)) \in Nat
  BY NumberType DEF Number
<1> QED BY <1>2, <1>3, <1>4

\* The numbers for calls that are made explicitly.
LEMMA NumberFew ==
  ASSUME NEW X
  PROVE  /\ Number(X, <<>>) = 0
         /\ \A a : Number(X, <<a>>) = IF a \in X THEN 1 ELSE 0
         /\ \A a, b : Number(X, <<a, b>>)
                        = (IF a \in X THEN 1 ELSE 0) + (IF b \in X THEN 1 ELSE 0)
         /\ \A a, b, c : Number(X, <<a, b, c>>)
                        = (IF a \in X THEN 1 ELSE 0) + (IF b \in X THEN 1 ELSE 0)
                          + (IF c \in X THEN 1 ELSE 0)
         /\ \A a, b, c, d : Number(X, <<a, b, c, d>>)
                        = (IF a \in X THEN 1 ELSE 0) + (IF b \in X THEN 1 ELSE 0)
                          + (IF c \in X THEN 1 ELSE 0) + (IF d \in X THEN 1 ELSE 0)
<1>1. Number(X, <<>>) = 0
  BY NumberNone, SizedFew
<1>2. ASSUME NEW a PROVE Number(X, <<a>>) = IF a \in X THEN 1 ELSE 0
  <2>1. At(X, <<a>>) = IF a \in X THEN {1} ELSE {}
    BY DEF At
  <2> QED BY <2>1, FS_Singleton, FS_EmptySet DEF Number
<1>3. ASSUME NEW q, Sized(q), q # <<>>, NEW r, r = Tail(q), Sized(r)
      PROVE  Number(X, q) = (IF q[1] \in X THEN 1 ELSE 0) + Number(X, r)
  <2>1. Pushed(<<>>, q) = r
    <3>1. r \in Seq({r[i] : i \in DOMAIN r})
      BY <1>3 DEF Sized
    <3>2. <<>> \o r = r
      BY <3>1, ConcatEmptySeq
    <3> QED BY <1>3, <3>2 DEF Pushed
  <2>2. Number(X, r) = Number(X, <<>>) + Number(X, q) - (IF q[1] \in X THEN 1 ELSE 0)
    <3>1. Sized(<<>>)
      BY SizedFew
    <3> DEFINE e == <<>>
    <3> HIDE DEF e
    <3>2. Number(X, Pushed(e, q)) = Number(X, e) + Number(X, q) - (IF q[1] \in X THEN 1 ELSE 0)
      BY <1>3, <3>1, NumberPushed DEF e
    <3>3. Pushed(e, q) = r
      BY <2>1 DEF e
    <3> QED BY <3>2, <3>3 DEF e
  <2>3. Number(X, r) \in Nat /\ Number(X, q) \in Nat
    BY <1>3, NumberType
  <2> DEFINE a == Number(X, q)  b == Number(X, r)
  <2> HIDE DEF a, b
  <2>4. a = (IF q[1] \in X THEN 1 ELSE 0) + b
    BY <1>1, <2>2, <2>3 DEF a, b
  <2> QED BY <2>4 DEF a, b
<1>4. ASSUME NEW a, NEW b
      PROVE  Number(X, <<a, b>>) = (IF a \in X THEN 1 ELSE 0) + (IF b \in X THEN 1 ELSE 0)
  <2>1. Tail(<<a, b>>) = <<b>> /\ <<a, b>> # <<>> /\ <<a, b>>[1] = a
    OBVIOUS
  <2>2. Number(X, <<a, b>>) = (IF a \in X THEN 1 ELSE 0) + Number(X, <<b>>)
    BY <1>3, <2>1, SizedFew
  <2> QED BY <1>2, <2>2
<1>5. ASSUME NEW a, NEW b, NEW c
      PROVE  Number(X, <<a, b, c>>) = (IF a \in X THEN 1 ELSE 0) + (IF b \in X THEN 1 ELSE 0)
                                        + (IF c \in X THEN 1 ELSE 0)
  <2>1. Tail(<<a, b, c>>) = <<b, c>> /\ <<a, b, c>> # <<>> /\ <<a, b, c>>[1] = a
    OBVIOUS
  <2>2. Number(X, <<a, b, c>>) = (IF a \in X THEN 1 ELSE 0) + Number(X, <<b, c>>)
    BY <1>3, <2>1, SizedFew
  <2> QED BY <1>4, <2>2
<1>6. ASSUME NEW a, NEW b, NEW c, NEW d
      PROVE  Number(X, <<a, b, c, d>>) = (IF a \in X THEN 1 ELSE 0) + (IF b \in X THEN 1 ELSE 0)
                                           + (IF c \in X THEN 1 ELSE 0) + (IF d \in X THEN 1 ELSE 0)
  <2>1. Tail(<<a, b, c, d>>) = <<b, c, d>> /\ <<a, b, c, d>> # <<>> /\ <<a, b, c, d>>[1] = a
    OBVIOUS
  <2>2. Number(X, <<a, b, c, d>>) = (IF a \in X THEN 1 ELSE 0) + Number(X, <<b, c, d>>)
    BY <1>3, <2>1, SizedFew
  <2> QED BY <1>5, <2>2
<1> QED BY <1>1, <1>2, <1>4, <1>5, <1>6

-----------------------------------------------------------------------------
(* The shape of the memory and of the stack: every pointer that is kept     *)
(* leads to a cell of its type                                              *)

SessFields == {"ref", "num", "failed", "timer", "ci", "completed", "created", "destroyed",
               "target", "template", "burst", "req", "uris", "fetched"}

Rings(m) == [conn : DOMAIN m.conn \union {NULL}, connected : BOOLEAN, successful : BOOLEAN,
             sent : Nat, pending : Seq(DOMAIN m.call)]

SessOK(o, m, op) ==
  /\ o = [f \in SessFields |-> o[f]]
  /\ o.ref \in Nat /\ o.num \in 1..NumSessions /\ o.completed \in Nat
  /\ o.failed \in BOOLEAN /\ o.timer \in BOOLEAN
  /\ o.ci \in [1..op.conns -> Rings(m)]
  /\ \A i \in 1..op.conns :
       o.ci[i].sent <= Len(o.ci[i].pending) /\ Len(o.ci[i].pending) <= op.piped

Conns(m, op) == [ref : Nat, state : ConnStates, sess : DOMAIN m.sess, ci : 1..op.conns,
                 sendq : Seq(DOMAIN m.call), recvq : Seq(DOMAIN m.call), mask : {"in", "out"}]

CallRecs(m) == [ref : Nat, sess : DOMAIN m.sess \union {NULL}, conn : DOMAIN m.conn \union {NULL},
                links : Nat, cut : BOOLEAN, whole : BOOLEAN]

MemOK(m, op) ==
  /\ m = [sess |-> m.sess, conn |-> m.conn, call |-> m.call, free |-> m.free]
  /\ Sized(m.sess) /\ Sized(m.conn) /\ Sized(m.call)
  /\ \A s \in DOMAIN m.sess : SessOK(m.sess[s], m, op)
  /\ \A k \in DOMAIN m.conn : m.conn[k] \in Conns(m, op)
  /\ \A c \in DOMAIN m.call : m.call[c] \in CallRecs(m)
  /\ m.free = [t \in Types |-> m.free[t]]
  /\ \A t \in Types : m.free[t] \in Seq(DOMAIN m[t])

\* The functions by what their first arguments are
SessCalls == {"sess_failure", "sess_destroyed", "gen_sess_destroyed", "close_conn_of",
              "drop_ring", "issue_calls", "create_calls", "create_embedded", "fetch_uri",
              "send_calls", "create_conn", "forget_conn", "session_issue_call"}
RingCalls == {"close_conn_of", "drop_ring", "send_calls", "create_conn", "forget_conn"}
ConnCalls == {"core_connect", "conn_connected", "conn_failed", "conn_timeout", "core_close",
              "close_recvq", "close_sd", "do_recv"}
CallCalls == {"recv_done", "call_done", "call_destroyed"}
ObjectCalls == {"object_dec_ref", "object_destroy", "free"}

FrameOK(f, m, op) ==
  /\ f[1] \in SessCalls => f[2] \in DOMAIN m.sess
  /\ f[1] \in RingCalls => f[3] \in 1..op.conns
  /\ f[1] \in ConnCalls => f[2] \in DOMAIN m.conn
  /\ f[1] \in CallCalls => f[2] \in DOMAIN m.call
  /\ f[1] = "session_issue_call" => f[3] \in DOMAIN m.call
  /\ f[1] = "sess_destroyed" => f[3] \in Nat \ {0}
  /\ f[1] = "drop_ring" => f[4] \in Nat \ {0}
  /\ f[1] \in {"close_recvq", "close_sd", "gen_sess_destroyed"} => f = <<f[1], f[2]>>
  /\ f[1] \in ObjectCalls => \E t \in Types : \E x \in DOMAIN m[t] : f = <<f[1], t, x>>

\* These are called at once when they have been pushed.
AtOnce == {"core_connect", "session_issue_call", "call_done"}

StackOK(st, m, op) ==
  /\ Sized(st)
  /\ \A i \in 1..Len(st) : FrameOK(st[i], m, op)
  /\ \A i \in 2..Len(st) : st[i][1] \notin AtOnce

\* A call has no session until it is issued, which happens first of all; and
\* call_done finds the connection that recv_done has found.
TopOK(st, m) ==
  /\ \A c \in DOMAIN m.call :
       m.call[c].sess = NULL => st # <<>> /\ st[1][1] = "session_issue_call" /\ st[1][3] = c
  /\ st # <<>> /\ st[1][1] = "call_done" => m.call[st[1][2]].conn \in DOMAIN m.conn

Events(m) == [conn : DOMAIN m.conn, for : {"in", "out"}]
VisitRecs == [phase : {"new", "open", "completed", "failed"}, issued : Nat, answered : Nat,
              replies : Nat]

GenOK(g) ==
  /\ g = [f \in {"generated", "destroyed", "done", "template", "running", "templates"} |-> g[f]]
  /\ g.generated \in Nat /\ g.destroyed \in Nat /\ g.running \in BOOLEAN

Shape ==
  /\ opt \in Options
  /\ MemOK(mem, opt) /\ StackOK(stack, mem, opt) /\ TopOK(stack, mem)
  /\ batch \in Seq(Events(mem))
  /\ visit \in [1..NumSessions -> VisitRecs]
  /\ GenOK(gen)

\* The cells that are known remain.
Within(m, n) == \A t \in Types : DOMAIN m[t] \subseteq DOMAIN n[t]

\* A sequence over a set is one over every larger set.
LEMMA SeqGrows == ASSUME NEW S, NEW T, S \subseteq T PROVE \A q \in Seq(S) : q \in Seq(T)
BY SeqMonotonic

\* What is a cell of its kind stays one when the memory only gains cells.
LEMMA CellsGrow ==
  ASSUME NEW m, NEW n, NEW op, Within(m, n)
  PROVE  /\ \A o : SessOK(o, m, op) => SessOK(o, n, op)
         /\ \A o : o \in Conns(m, op) => o \in Conns(n, op)
         /\ \A o : o \in CallRecs(m) => o \in CallRecs(n)
         /\ \A o : o \in Events(m) => o \in Events(n)
<1>1. DOMAIN m.sess \subseteq DOMAIN n.sess /\ DOMAIN m.conn \subseteq DOMAIN n.conn
      /\ DOMAIN m.call \subseteq DOMAIN n.call
  BY DEF Within, Types
<1>2. \A q \in Seq(DOMAIN m.call) : q \in Seq(DOMAIN n.call)
  BY <1>1, SeqGrows
<1>3. \A o : o \in Rings(m) => o \in Rings(n)
  BY <1>1, <1>2 DEF Rings
<1>4. ASSUME NEW o, SessOK(o, m, op) PROVE SessOK(o, n, op)
  <2>1. o.ci \in [1..op.conns -> Rings(n)]
    BY <1>3, <1>4 DEF SessOK
  <2> QED BY <1>4, <2>1 DEF SessOK
<1>5. ASSUME NEW o, o \in Conns(m, op) PROVE o \in Conns(n, op)
  BY <1>1, <1>2, <1>5 DEF Conns
<1>6. ASSUME NEW o, o \in CallRecs(m) PROVE o \in CallRecs(n)
  BY <1>1, <1>6 DEF CallRecs
<1>7. ASSUME NEW o, o \in Events(m) PROVE o \in Events(n)
  BY <1>1, <1>7 DEF Events
<1> QED BY <1>4, <1>5, <1>6, <1>7

\* A frame of the stack stays one when the memory only gains cells.
LEMMA FramesGrow ==
  ASSUME NEW m, NEW n, NEW op, Within(m, n)
  PROVE  \A f : FrameOK(f, m, op) => FrameOK(f, n, op)
<1>1. DOMAIN m.sess \subseteq DOMAIN n.sess /\ DOMAIN m.conn \subseteq DOMAIN n.conn
      /\ DOMAIN m.call \subseteq DOMAIN n.call /\ \A t \in Types : DOMAIN m[t] \subseteq DOMAIN n[t]
  BY DEF Within, Types
<1> SUFFICES ASSUME NEW f, FrameOK(f, m, op) PROVE FrameOK(f, n, op)
  OBVIOUS
<1>2. f[1] \in ObjectCalls => \E t \in Types : \E x \in DOMAIN n[t] : f = <<f[1], t, x>>
  BY <1>1 DEF FrameOK
<1> QED BY <1>1, <1>2 DEF FrameOK

\* The stack after a call of functions whose arguments are right.
LEMMA PushOK ==
  ASSUME NEW m, NEW n, NEW op, NEW st, NEW calls, Within(m, n),
         StackOK(st, m, op), st # <<>>, Sized(calls),
         \A i \in 1..Len(calls) : FrameOK(calls[i], n, op) /\ (i > 1 => calls[i][1] \notin AtOnce)
  PROVE  StackOK(Pushed(calls, st), n, op)
<1> DEFINE p == Pushed(calls, st)
<1>1. Sized(st) /\ (\A i \in 1..Len(st) : FrameOK(st[i], n, op))
      /\ \A i \in 2..Len(st) : st[i][1] \notin AtOnce
  BY FramesGrow DEF StackOK
<1>2. Sized(p) /\ Len(calls) \in Nat /\ Len(st) \in Nat /\ Len(p) \in Nat
  BY <1>1, PushedAt, SizedLen
<1>3. ASSUME NEW i \in 1..Len(p)
      PROVE  FrameOK(p[i], n, op) /\ (i > 1 => p[i][1] \notin AtOnce)
  <2>1. \/ i \in 1..Len(calls) /\ p[i] = calls[i]
        \/ i - Len(calls) + 1 \in 2..Len(st) /\ p[i] = st[i - Len(calls) + 1]
    BY <1>1, PushedFrom
  <2> HIDE DEF p
  <2>2. CASE i \in 1..Len(calls) /\ p[i] = calls[i]
    BY <2>2
  <2>3. CASE i - Len(calls) + 1 \in 2..Len(st) /\ p[i] = st[i - Len(calls) + 1]
    BY <1>1, <1>2, <2>3
  <2> QED BY <2>1, <2>2, <2>3
<1> HIDE DEF p
<1>4. StackOK(p, n, op)
  BY <1>2, <1>3 DEF StackOK
<1> QED BY <1>4 DEF p

\* Frames to be pushed, in the memory m
CallsOK(calls, m, op) ==
  /\ Sized(calls)
  /\ \A i \in 1..Len(calls) : FrameOK(calls[i], m, op) /\ (i > 1 => calls[i][1] \notin AtOnce)

\* The calls of a handler that are made explicitly: each is a frame, and none but the
\* first is one that is handled at once.
LEMMA CallsFew ==
  ASSUME NEW m, NEW op
  PROVE  /\ CallsOK(<<>>, m, op)
         /\ \A a : FrameOK(a, m, op) => CallsOK(<<a>>, m, op)
         /\ \A a, b : FrameOK(a, m, op) /\ FrameOK(b, m, op) /\ b[1] \notin AtOnce
                        => CallsOK(<<a, b>>, m, op)
         /\ \A a, b, c : FrameOK(a, m, op) /\ FrameOK(b, m, op) /\ b[1] \notin AtOnce
                           /\ FrameOK(c, m, op) /\ c[1] \notin AtOnce
                        => CallsOK(<<a, b, c>>, m, op)
         /\ \A a, b, c, d : FrameOK(a, m, op) /\ FrameOK(b, m, op) /\ b[1] \notin AtOnce
                           /\ FrameOK(c, m, op) /\ c[1] \notin AtOnce
                           /\ FrameOK(d, m, op) /\ d[1] \notin AtOnce
                        => CallsOK(<<a, b, c, d>>, m, op)
<1>1. CallsOK(<<>>, m, op)
  BY SizedFew DEF CallsOK
<1>2. ASSUME NEW a, FrameOK(a, m, op) PROVE CallsOK(<<a>>, m, op)
  BY <1>2, SizedFew DEF CallsOK
<1>3. ASSUME NEW a, NEW b, FrameOK(a, m, op), FrameOK(b, m, op), b[1] \notin AtOnce
      PROVE  CallsOK(<<a, b>>, m, op)
  BY <1>3, SizedFew DEF CallsOK
<1>4. ASSUME NEW a, NEW b, NEW c, FrameOK(a, m, op), FrameOK(b, m, op), b[1] \notin AtOnce,
             FrameOK(c, m, op), c[1] \notin AtOnce
      PROVE  CallsOK(<<a, b, c>>, m, op)
  BY <1>4, SizedFew DEF CallsOK
<1>5. ASSUME NEW a, NEW b, NEW c, NEW d, FrameOK(a, m, op), FrameOK(b, m, op), b[1] \notin AtOnce,
             FrameOK(c, m, op), c[1] \notin AtOnce, FrameOK(d, m, op), d[1] \notin AtOnce
      PROVE  CallsOK(<<a, b, c, d>>, m, op)
  BY <1>5, SizedFew DEF CallsOK
<1> QED BY <1>1, <1>2, <1>3, <1>4, <1>5

\* Frames of which none is of call_done
Plain(calls, m, op) ==
  CallsOK(calls, m, op) /\ \A i \in 1..Len(calls) : calls[i][1] # "call_done"

\* Explicit frames of which at most the first is called at once.
LEMMA PlainFew ==
  ASSUME NEW m, NEW op
  PROVE  /\ Plain(<<>>, m, op)
         /\ \A a : FrameOK(a, m, op) /\ a[1] # "call_done" => Plain(<<a>>, m, op)
         /\ \A a, b : FrameOK(a, m, op) /\ a[1] # "call_done"
                        /\ FrameOK(b, m, op) /\ b[1] \notin AtOnce
                        => Plain(<<a, b>>, m, op)
         /\ \A a, b, c : FrameOK(a, m, op) /\ a[1] # "call_done"
                           /\ FrameOK(b, m, op) /\ b[1] \notin AtOnce
                           /\ FrameOK(c, m, op) /\ c[1] \notin AtOnce
                        => Plain(<<a, b, c>>, m, op)
         /\ \A a, b, c, d : FrameOK(a, m, op) /\ a[1] # "call_done"
                           /\ FrameOK(b, m, op) /\ b[1] \notin AtOnce
                           /\ FrameOK(c, m, op) /\ c[1] \notin AtOnce
                           /\ FrameOK(d, m, op) /\ d[1] \notin AtOnce
                        => Plain(<<a, b, c, d>>, m, op)
<1>0. \A f : f[1] \notin AtOnce => f[1] # "call_done"
  BY DEF AtOnce
<1>1. Plain(<<>>, m, op)
  BY CallsFew DEF Plain
<1>2. ASSUME NEW a, FrameOK(a, m, op), a[1] # "call_done" PROVE Plain(<<a>>, m, op)
  <2>1. CallsOK(<<a>>, m, op)
    BY <1>2, CallsFew
  <2> QED BY <1>2, <2>1 DEF Plain
<1>3. ASSUME NEW a, NEW b, FrameOK(a, m, op), a[1] # "call_done", FrameOK(b, m, op), b[1] \notin AtOnce
      PROVE  Plain(<<a, b>>, m, op)
  <2>1. CallsOK(<<a, b>>, m, op)
    BY <1>3, CallsFew
  <2> QED BY <1>0, <1>3, <2>1 DEF Plain
<1>4. ASSUME NEW a, NEW b, NEW c, FrameOK(a, m, op), a[1] # "call_done",
             FrameOK(b, m, op), b[1] \notin AtOnce, FrameOK(c, m, op), c[1] \notin AtOnce
      PROVE  Plain(<<a, b, c>>, m, op)
  <2>1. CallsOK(<<a, b, c>>, m, op)
    BY <1>4, CallsFew
  <2> QED BY <1>0, <1>4, <2>1 DEF Plain
<1>5. ASSUME NEW a, NEW b, NEW c, NEW d, FrameOK(a, m, op), a[1] # "call_done",
             FrameOK(b, m, op), b[1] \notin AtOnce, FrameOK(c, m, op), c[1] \notin AtOnce,
             FrameOK(d, m, op), d[1] \notin AtOnce
      PROVE  Plain(<<a, b, c, d>>, m, op)
  <2>1. CallsOK(<<a, b, c, d>>, m, op)
    BY <1>5, CallsFew
  <2> QED BY <1>0, <1>5, <2>1 DEF Plain
<1> QED BY <1>1, <1>2, <1>3, <1>4, <1>5

\* The frames of the functions that have a session for their first argument.
LEMMA SessFrames ==
  ASSUME NEW m, NEW op, NEW s \in DOMAIN m.sess
  PROVE  /\ \A f \in {"sess_failure", "gen_sess_destroyed", "issue_calls", "fetch_uri"} :
              FrameOK(<<f, s>>, m, op) /\ <<f, s>>[1] \notin AtOnce
         /\ \A i \in Nat \ {0} : FrameOK(<<"sess_destroyed", s, i>>, m, op)
         /\ \A f \in {"create_calls", "create_embedded"} : \A x :
              FrameOK(<<f, s, x>>, m, op) /\ <<f, s, x>>[1] \notin AtOnce
         /\ \A f \in {"close_conn_of", "send_calls", "create_conn", "forget_conn"} :
              \A i \in 1..op.conns : FrameOK(<<f, s, i>>, m, op) /\ <<f, s, i>>[1] \notin AtOnce
         /\ \A i \in 1..op.conns : \A j \in Nat \ {0} : FrameOK(<<"drop_ring", s, i, j>>, m, op)
         /\ \A c \in DOMAIN m.call : FrameOK(<<"session_issue_call", s, c>>, m, op)
         /\ \A f \in ObjectCalls :
              FrameOK(<<f, "sess", s>>, m, op) /\ <<f, "sess", s>>[1] \notin AtOnce
<1>1. \A f \in ObjectCalls : FrameOK(<<f, "sess", s>>, m, op) /\ <<f, "sess", s>>[1] \notin AtOnce
  BY DEF FrameOK, SessCalls, RingCalls, ConnCalls, CallCalls, ObjectCalls, Types, AtOnce
<1>2. \A f \in {"sess_failure", "gen_sess_destroyed", "issue_calls", "fetch_uri"} :
              FrameOK(<<f, s>>, m, op) /\ <<f, s>>[1] \notin AtOnce
  BY DEF FrameOK, SessCalls, RingCalls, ConnCalls, CallCalls, ObjectCalls, AtOnce
<1>3. \A i \in Nat \ {0} : FrameOK(<<"sess_destroyed", s, i>>, m, op)
  BY DEF FrameOK, SessCalls, RingCalls, ConnCalls, CallCalls, ObjectCalls
<1>4. \A f \in {"create_calls", "create_embedded"} : \A x :
              FrameOK(<<f, s, x>>, m, op) /\ <<f, s, x>>[1] \notin AtOnce
  BY DEF FrameOK, SessCalls, RingCalls, ConnCalls, CallCalls, ObjectCalls, AtOnce
<1>5. \A f \in {"close_conn_of", "send_calls", "create_conn", "forget_conn"} :
              \A i \in 1..op.conns : FrameOK(<<f, s, i>>, m, op) /\ <<f, s, i>>[1] \notin AtOnce
  BY DEF FrameOK, SessCalls, RingCalls, ConnCalls, CallCalls, ObjectCalls, AtOnce
<1>6. \A i \in 1..op.conns : \A j \in Nat \ {0} : FrameOK(<<"drop_ring", s, i, j>>, m, op)
  BY DEF FrameOK, SessCalls, RingCalls, ConnCalls, CallCalls, ObjectCalls
<1>7. \A c \in DOMAIN m.call : FrameOK(<<"session_issue_call", s, c>>, m, op)
  BY DEF FrameOK, SessCalls, RingCalls, ConnCalls, CallCalls, ObjectCalls
<1> QED BY <1>1, <1>2, <1>3, <1>4, <1>5, <1>6, <1>7

\* Those that have a connection, a call, or nothing.
LEMMA OtherFrames ==
  ASSUME NEW m, NEW op
  PROVE  /\ \A k \in DOMAIN m.conn :
              /\ FrameOK(<<"core_connect", k>>, m, op)
              /\ \A f \in {"conn_connected", "conn_failed", "conn_timeout", "core_close",
                           "close_recvq", "close_sd"} :
                   FrameOK(<<f, k>>, m, op) /\ <<f, k>>[1] \notin AtOnce
              /\ \A n, a : FrameOK(<<"do_recv", k, n, a>>, m, op)
              /\ \A f \in ObjectCalls :
                   FrameOK(<<f, "conn", k>>, m, op) /\ <<f, "conn", k>>[1] \notin AtOnce
         /\ \A c \in DOMAIN m.call :
              /\ \A b : FrameOK(<<"recv_done", c, b>>, m, op) /\ FrameOK(<<"call_done", c, b>>, m, op)
              /\ FrameOK(<<"call_destroyed", c>>, m, op)
              /\ \A f \in ObjectCalls :
                   FrameOK(<<f, "call", c>>, m, op) /\ <<f, "call", c>>[1] \notin AtOnce
         /\ \A f \in {"done", "not_done", "sess_create"} : FrameOK(<<f>>, m, op) /\ <<f>>[1] \notin AtOnce
<1>1. ASSUME NEW k \in DOMAIN m.conn
      PROVE  /\ FrameOK(<<"core_connect", k>>, m, op)
             /\ \A f \in {"conn_connected", "conn_failed", "conn_timeout", "core_close",
                          "close_recvq", "close_sd"} :
                  FrameOK(<<f, k>>, m, op) /\ <<f, k>>[1] \notin AtOnce
             /\ \A n, a : FrameOK(<<"do_recv", k, n, a>>, m, op)
  BY DEF FrameOK, SessCalls, RingCalls, ConnCalls, CallCalls, ObjectCalls, AtOnce
<1>2. ASSUME NEW k \in DOMAIN m.conn
      PROVE  \A f \in ObjectCalls :
               FrameOK(<<f, "conn", k>>, m, op) /\ <<f, "conn", k>>[1] \notin AtOnce
  BY DEF FrameOK, SessCalls, RingCalls, ConnCalls, CallCalls, ObjectCalls, AtOnce, Types
<1>3. ASSUME NEW c \in DOMAIN m.call
      PROVE  /\ \A b : FrameOK(<<"recv_done", c, b>>, m, op) /\ FrameOK(<<"call_done", c, b>>, m, op)
             /\ FrameOK(<<"call_destroyed", c>>, m, op)
  BY DEF FrameOK, SessCalls, RingCalls, ConnCalls, CallCalls, ObjectCalls, AtOnce
<1>4. ASSUME NEW c \in DOMAIN m.call
      PROVE  \A f \in ObjectCalls :
               FrameOK(<<f, "call", c>>, m, op) /\ <<f, "call", c>>[1] \notin AtOnce
  BY DEF FrameOK, SessCalls, RingCalls, ConnCalls, CallCalls, ObjectCalls, AtOnce, Types
<1>5. \A f \in {"done", "not_done", "sess_create"} : FrameOK(<<f>>, m, op) /\ <<f>>[1] \notin AtOnce
  BY DEF FrameOK, SessCalls, RingCalls, ConnCalls, CallCalls, ObjectCalls, AtOnce
<1> QED BY <1>1, <1>2, <1>3, <1>4, <1>5

-----------------------------------------------------------------------------
(* Changes of the memory *)

\* A sequence with one element replaced is one of the same length.
LEMMA SizedPut ==
  ASSUME NEW q, Sized(q), NEW x \in DOMAIN q, NEW o
  PROVE  Sized([q EXCEPT ![x] = o]) /\ Len([q EXCEPT ![x] = o]) = Len(q)
<1> DEFINE S == {q[i] : i \in DOMAIN q} \union {o}
           p == [q EXCEPT ![x] = o]
<1>1. q \in Seq({q[i] : i \in DOMAIN q})
  BY DEF Sized
<1>2. q \in Seq(S)
  BY <1>1, SeqMonotonic
<1>3. o \in S /\ x \in 1..Len(q)
  BY SizedLen
<1> HIDE DEF S
<1>4. p \in Seq(S) /\ Len(p) = Len(q)
  BY <1>2, <1>3, ExceptSeq
<1> QED BY <1>4, SizedIn DEF p

\* A sequence with one element more is one, and keeps the others.
LEMMA SizedAppend ==
  ASSUME NEW q, Sized(q), NEW o
  PROVE  /\ Sized(Append(q, o)) /\ Len(Append(q, o)) = Len(q) + 1
         /\ Append(q, o)[Len(q) + 1] = o /\ \A i \in 1..Len(q) : Append(q, o)[i] = q[i]
<1> DEFINE S == {q[i] : i \in DOMAIN q} \union {o}
           p == Append(q, o)
<1>1. q \in Seq({q[i] : i \in DOMAIN q})
  BY DEF Sized
<1>2. q \in Seq(S)
  BY <1>1, SeqMonotonic
<1>3. o \in S
  OBVIOUS
<1> HIDE DEF S
<1>4. p \in Seq(S) /\ Len(p) = Len(q) + 1 /\ p[Len(q) + 1] = o /\ \A i \in 1..Len(q) : p[i] = q[i]
  BY <1>2, <1>3, AppendProperties
<1> QED BY <1>4, SizedIn DEF p

\* n is m but that the cell x of type t is new and holds o.
Allocated(m, n, t, x, o) ==
  /\ n = [sess |-> n.sess, conn |-> n.conn, call |-> n.call, free |-> n.free]
  /\ \A u \in Types \ {t} : n[u] = m[u] /\ n.free[u] = m.free[u]
  /\ n.free = [u \in Types |-> n.free[u]]
  /\ Sized(n[t]) /\ DOMAIN n[t] = DOMAIN m[t] \union {x} /\ n[t][x] = o
  /\ \A y \in DOMAIN m[t] \ {x} : n[t][y] = m[t][y]
  /\ x \in Nat \ {0}
  /\ \/ m.free[t] = <<>> /\ n.free[t] = <<>> /\ x \notin DOMAIN m[t]
     \/ m.free[t] # <<>> /\ n.free[t] = Tail(m.free[t]) /\ x = Head(m.free[t]) /\ x \in DOMAIN m[t]

\* object_new takes the head of the free list, or a cell that did not exist.
LEMMA Allocates ==
  ASSUME NEW op, MemOK(mem, op), NEW t \in Types, NEW o
  PROVE  Allocated(mem, object_new(mem, t, o), t, New(t), o)
<1> DEFINE q == mem[t]  f == mem.free[t]  n == object_new(mem, t, o)
<1>1. mem = [sess |-> mem.sess, conn |-> mem.conn, call |-> mem.call, free |-> mem.free]
      /\ mem.free = [u \in Types |-> mem.free[u]]
  BY DEF MemOK
<1>2. Sized(q) /\ f \in Seq(DOMAIN q)
  BY DEF MemOK, Types
<1>3. Len(q) \in Nat /\ DOMAIN q = 1..Len(q)
  BY <1>2, SizedLen
<1>4. CASE f = <<>>
  <2>1. n = [mem EXCEPT ![t] = Append(q, o)] /\ New(t) = Len(q) + 1
    BY <1>4 DEF object_new, New
  <2> DEFINE p == Append(q, o)
  <2>2. Sized(p) /\ Len(p) = Len(q) + 1 /\ p[Len(q) + 1] = o /\ \A i \in 1..Len(q) : p[i] = q[i]
    BY <1>2, SizedAppend
  <2>3. DOMAIN p = 1..Len(p)
    BY <2>2, SizedLen
  <2> HIDE DEF p, q, n
  <2>4. n[t] = p /\ n.free = mem.free /\ (\A u \in Types \ {t} : n[u] = mem[u])
        /\ n = [sess |-> n.sess, conn |-> n.conn, call |-> n.call, free |-> n.free]
    BY <1>1, <2>1 DEF Types, p
  <2>5. DOMAIN p = DOMAIN q \union {Len(q) + 1} /\ Len(q) + 1 \notin DOMAIN q /\ Len(q) + 1 \in Nat \ {0}
    BY <1>3, <2>2, <2>3
  <2>6. \A y \in DOMAIN q \ {Len(q) + 1} : p[y] = q[y]
    BY <1>3, <2>2
  <2> QED BY <1>1, <1>4, <2>1, <2>2, <2>4, <2>5, <2>6 DEF Allocated, q, n
<1>5. CASE f # <<>>
  <2> DEFINE x == Head(f)  p == [q EXCEPT ![x] = o]
  <2>1. n = [mem EXCEPT ![t][Head(f)] = o, !.free[t] = Tail(f)] /\ New(t) = x
    BY <1>5 DEF object_new, New
  <2>2. x \in DOMAIN q
    BY <1>2, <1>5, HeadTailProperties
  <2>3. Sized(p) /\ DOMAIN p = DOMAIN q /\ p[x] = o /\ \A y \in DOMAIN q \ {x} : p[y] = q[y]
    BY <1>2, <2>2, SizedPut
  <2>4. x \in Nat \ {0}
    BY <1>3, <2>2
  <2> HIDE DEF x
  <2>5. n[t] = p /\ n.free = [mem.free EXCEPT ![t] = Tail(f)] /\ (\A u \in Types \ {t} : n[u] = mem[u])
        /\ n = [sess |-> n.sess, conn |-> n.conn, call |-> n.call, free |-> n.free]
    BY <1>1, <2>1 DEF Types, x
  <2> HIDE DEF p, q, n, f
  <2>6. n.free[t] = Tail(f) /\ n.free = [u \in Types |-> n.free[u]]
        /\ \A u \in Types \ {t} : n.free[u] = mem.free[u]
    BY <1>1, <2>5
  <2>7. mem.free[t] # <<>> /\ n.free[t] = Tail(mem.free[t]) /\ x = Head(mem.free[t]) /\ x \in DOMAIN mem[t]
    BY <1>5, <2>2, <2>6 DEF f, q, x
  <2>8. Sized(n[t]) /\ DOMAIN n[t] = DOMAIN mem[t] \union {x} /\ n[t][x] = o
        /\ \A y \in DOMAIN mem[t] \ {x} : n[t][y] = mem[t][y]
    BY <2>2, <2>3, <2>5 DEF q
  <2>9. Allocated(mem, n, t, x, o)
    BY <2>4, <2>5, <2>6, <2>7, <2>8 DEF Allocated
  <2> QED BY <2>1, <2>9 DEF n, x, f
<1> QED BY <1>4, <1>5

\* What the cell of type t may hold.
Fits(t, o, m, op) ==
  /\ t = "sess" => SessOK(o, m, op)
  /\ t = "conn" => o \in Conns(m, op)
  /\ t = "call" => o \in CallRecs(m)

\* The memory stays in shape when object_new gets a cell of the type it asks for.
LEMMA AllocatedOK ==
  ASSUME NEW m, NEW n, NEW op, NEW t \in Types, NEW x, NEW o,
         MemOK(m, op), Allocated(m, n, t, x, o), Within(m, n) => Fits(t, o, n, op)
  PROVE  MemOK(n, op) /\ Within(m, n)
<1>1. Within(m, n)
  BY DEF Within, Allocated
<1>2. Fits(t, o, n, op)
  BY <1>1
<1>3. n = [sess |-> n.sess, conn |-> n.conn, call |-> n.call, free |-> n.free]
      /\ n.free = [u \in Types |-> n.free[u]]
  BY DEF Allocated
<1>4. \A u \in Types : Sized(n[u])
  <2> TAKE u \in Types
  <2>1. CASE u = t
    BY <2>1 DEF Allocated
  <2>2. CASE u # t
    <3>1. n[u] = m[u]
      BY <2>2 DEF Allocated
    <3>2. Sized(m[u])
      BY DEF MemOK, Types
    <3> QED BY <3>1, <3>2
  <2> QED BY <2>1, <2>2
<1>5. \A u \in Types : n.free[u] \in Seq(DOMAIN n[u])
  <2> TAKE u \in Types
  <2>1. m.free[u] \in Seq(DOMAIN m[u]) /\ DOMAIN m[u] \subseteq DOMAIN n[u]
    BY <1>1 DEF MemOK, Within
  <2>2. m.free[u] \in Seq(DOMAIN n[u])
    BY <2>1, SeqGrows
  <2>3. CASE u # t
    BY <2>2, <2>3 DEF Allocated
  <2>4. CASE u = t
    <3>1. n.free[t] = <<>> \/ (m.free[t] # <<>> /\ n.free[t] = Tail(m.free[t]))
      BY DEF Allocated
    <3> DEFINE D == DOMAIN n[t]  f == m.free[t]  g == n.free[t]
    <3>2. f \in Seq(D) /\ (g = <<>> \/ (f # <<>> /\ g = Tail(f)))
      BY <2>2, <2>4, <3>1
    <3> HIDE DEF D, f, g
    <3>3. g \in Seq(D)
      BY <3>2, EmptySeq, HeadTailProperties
    <3> QED BY <2>4, <3>3 DEF D, g
  <2> QED BY <2>3, <2>4
<1>6. ASSUME NEW s \in DOMAIN n.sess PROVE SessOK(n.sess[s], n, op)
  <2>1. CASE t = "sess" /\ s = x
    BY <1>2, <2>1 DEF Fits, Allocated
  <2>2. CASE ~(t = "sess" /\ s = x)
    <3>1. s \in DOMAIN m.sess /\ n.sess[s] = m.sess[s]
      BY <2>2 DEF Allocated, Types
    <3> QED BY <1>1, <3>1, CellsGrow DEF MemOK
  <2> QED BY <2>1, <2>2
<1>7. ASSUME NEW s \in DOMAIN n.conn PROVE n.conn[s] \in Conns(n, op)
  <2>1. CASE t = "conn" /\ s = x
    BY <1>2, <2>1 DEF Fits, Allocated
  <2>2. CASE ~(t = "conn" /\ s = x)
    <3>1. s \in DOMAIN m.conn /\ n.conn[s] = m.conn[s]
      BY <2>2 DEF Allocated, Types
    <3> QED BY <1>1, <3>1, CellsGrow DEF MemOK
  <2> QED BY <2>1, <2>2
<1>8. ASSUME NEW s \in DOMAIN n.call PROVE n.call[s] \in CallRecs(n)
  <2>1. CASE t = "call" /\ s = x
    BY <1>2, <2>1 DEF Fits, Allocated
  <2>2. CASE ~(t = "call" /\ s = x)
    <3>1. s \in DOMAIN m.call /\ n.call[s] = m.call[s]
      BY <2>2 DEF Allocated, Types
    <3> QED BY <1>1, <3>1, CellsGrow DEF MemOK
  <2> QED BY <2>1, <2>2
<1>9. Sized(n.sess) /\ Sized(n.conn) /\ Sized(n.call)
  BY <1>4 DEF Types
<1> QED BY <1>1, <1>3, <1>5, <1>6, <1>7, <1>8, <1>9 DEF MemOK

\* n is m but for what the cells hold.
LEMMA CellsOK ==
  ASSUME NEW m, NEW n, NEW op, MemOK(m, op),
         n = [sess |-> n.sess, conn |-> n.conn, call |-> n.call, free |-> m.free],
         Sized(n.sess), Sized(n.conn), Sized(n.call),
         \A t \in Types : DOMAIN n[t] = DOMAIN m[t],
         \A s \in DOMAIN m.sess : n.sess[s] = m.sess[s] \/ SessOK(n.sess[s], m, op),
         \A k \in DOMAIN m.conn : n.conn[k] = m.conn[k] \/ n.conn[k] \in Conns(m, op),
         \A c \in DOMAIN m.call : n.call[c] = m.call[c] \/ n.call[c] \in CallRecs(m)
  PROVE  MemOK(n, op) /\ Within(m, n)
<1>1. Within(m, n)
  BY DEF Within
<1>2. DOMAIN n.sess = DOMAIN m.sess /\ DOMAIN n.conn = DOMAIN m.conn /\ DOMAIN n.call = DOMAIN m.call
  BY DEF Types
<1>3. \A s \in DOMAIN m.sess : SessOK(n.sess[s], n, op)
  BY <1>1, CellsGrow DEF MemOK
<1>4. \A k \in DOMAIN m.conn : n.conn[k] \in Conns(n, op)
  BY <1>1, CellsGrow DEF MemOK
<1>5. \A c \in DOMAIN m.call : n.call[c] \in CallRecs(n)
  BY <1>1, CellsGrow DEF MemOK
<1>6. n.free = m.free
  OBVIOUS
<1>7. m.free = [t \in Types |-> m.free[t]] /\ \A t \in Types : m.free[t] \in Seq(DOMAIN m[t])
  BY DEF MemOK
<1>8. n.free = [t \in Types |-> n.free[t]] /\ \A t \in Types : n.free[t] \in Seq(DOMAIN n[t])
  BY <1>6, <1>7
<1>9. n = [sess |-> n.sess, conn |-> n.conn, call |-> n.call, free |-> n.free]
  BY <1>6
<1> QED BY <1>1, <1>2, <1>3, <1>4, <1>5, <1>8, <1>9 DEF MemOK

\* One session, connection or call is changed.
LEMMA PutOK ==
  ASSUME NEW m, NEW op, MemOK(m, op)
  PROVE  /\ \A s \in DOMAIN m.sess : \A o : SessOK(o, m, op) =>
              MemOK([m EXCEPT !.sess[s] = o], op) /\ Within(m, [m EXCEPT !.sess[s] = o])
         /\ \A k \in DOMAIN m.conn : \A o \in Conns(m, op) :
              MemOK([m EXCEPT !.conn[k] = o], op) /\ Within(m, [m EXCEPT !.conn[k] = o])
         /\ \A c \in DOMAIN m.call : \A o \in CallRecs(m) :
              MemOK([m EXCEPT !.call[c] = o], op) /\ Within(m, [m EXCEPT !.call[c] = o])
<1>1. m = [sess |-> m.sess, conn |-> m.conn, call |-> m.call, free |-> m.free]
      /\ Sized(m.sess) /\ Sized(m.conn) /\ Sized(m.call)
  BY DEF MemOK
<1>2. ASSUME NEW s \in DOMAIN m.sess, NEW o, SessOK(o, m, op)
      PROVE  MemOK([m EXCEPT !.sess[s] = o], op) /\ Within(m, [m EXCEPT !.sess[s] = o])
  <2> DEFINE q == [m.sess EXCEPT ![s] = o]  n == [m EXCEPT !.sess[s] = o]
  <2>1. n = [sess |-> q, conn |-> m.conn, call |-> m.call, free |-> m.free]
    BY <1>1
  <2>2. Sized(q) /\ DOMAIN q = DOMAIN m.sess
    BY <1>1, SizedPut
  <2>3. \A x \in DOMAIN m.sess : q[x] = m.sess[x] \/ SessOK(q[x], m, op)
    BY <1>2
  <2> HIDE DEF q, n
  <2>4. n.sess = q /\ n.conn = m.conn /\ n.call = m.call
    BY <2>1
  <2>5. MemOK(n, op) /\ Within(m, n)
    BY <1>1, <2>1, <2>2, <2>3, <2>4, CellsOK DEF Types
  <2> QED BY <2>5 DEF n
<1>3. ASSUME NEW s \in DOMAIN m.conn, NEW o, o \in Conns(m, op)
      PROVE  MemOK([m EXCEPT !.conn[s] = o], op) /\ Within(m, [m EXCEPT !.conn[s] = o])
  <2> DEFINE q == [m.conn EXCEPT ![s] = o]  n == [m EXCEPT !.conn[s] = o]
  <2>1. n = [sess |-> m.sess, conn |-> q, call |-> m.call, free |-> m.free]
    BY <1>1
  <2>2. Sized(q) /\ DOMAIN q = DOMAIN m.conn
    BY <1>1, SizedPut
  <2>3. \A x \in DOMAIN m.conn : q[x] = m.conn[x] \/ q[x] \in Conns(m, op)
    BY <1>3
  <2> HIDE DEF q, n
  <2>4. n.conn = q /\ n.sess = m.sess /\ n.call = m.call
    BY <2>1
  <2>5. MemOK(n, op) /\ Within(m, n)
    BY <1>1, <2>1, <2>2, <2>3, <2>4, CellsOK DEF Types
  <2> QED BY <2>5 DEF n
<1>4. ASSUME NEW s \in DOMAIN m.call, NEW o, o \in CallRecs(m)
      PROVE  MemOK([m EXCEPT !.call[s] = o], op) /\ Within(m, [m EXCEPT !.call[s] = o])
  <2> DEFINE q == [m.call EXCEPT ![s] = o]  n == [m EXCEPT !.call[s] = o]
  <2>1. n = [sess |-> m.sess, conn |-> m.conn, call |-> q, free |-> m.free]
    BY <1>1
  <2>2. Sized(q) /\ DOMAIN q = DOMAIN m.call
    BY <1>1, SizedPut
  <2>3. \A x \in DOMAIN m.call : q[x] = m.call[x] \/ q[x] \in CallRecs(m)
    BY <1>4
  <2> HIDE DEF q, n
  <2>4. n.call = q /\ n.sess = m.sess /\ n.conn = m.conn
    BY <2>1
  <2>5. MemOK(n, op) /\ Within(m, n)
    BY <1>1, <2>1, <2>2, <2>3, <2>4, CellsOK DEF Types
  <2> QED BY <2>5 DEF n
<1> QED BY <1>2, <1>3, <1>4

-----------------------------------------------------------------------------
(* The shape is kept. *)

\* The arguments of the function on top of the stack.
LEMMA Args ==
  ASSUME Shape, stack # <<>>
  PROVE  /\ stack[1][1] \in SessCalls => Arg(1) \in DOMAIN mem.sess
         /\ stack[1][1] \in RingCalls => Arg(2) \in 1..opt.conns
         /\ stack[1][1] \in ConnCalls => Arg(1) \in DOMAIN mem.conn
         /\ stack[1][1] \in CallCalls => Arg(1) \in DOMAIN mem.call
         /\ stack[1][1] = "session_issue_call" => Arg(2) \in DOMAIN mem.call
         /\ stack[1][1] = "sess_destroyed" => Arg(2) \in Nat \ {0}
         /\ stack[1][1] = "drop_ring" => Arg(3) \in Nat \ {0}
         /\ stack[1][1] \in {"close_recvq", "close_sd", "gen_sess_destroyed"} =>
              stack[1] = <<stack[1][1], Arg(1)>>
         /\ stack[1][1] \in ObjectCalls =>
              Arg(1) \in Types /\ Arg(2) \in DOMAIN mem[Arg(1)] /\ stack[1] = <<stack[1][1], Arg(1), Arg(2)>>
<1>1. FrameOK(stack[1], mem, opt)
  BY SizedLen DEF Shape, StackOK
<1>2. stack[1][1] \in ObjectCalls =>
              Arg(1) \in Types /\ Arg(2) \in DOMAIN mem[Arg(1)] /\ stack[1] = <<stack[1][1], Arg(1), Arg(2)>>
  BY <1>1 DEF FrameOK, Arg
<1>3. stack[1][2] = Arg(1) /\ stack[1][3] = Arg(2) /\ stack[1][4] = Arg(3)
  BY DEF Arg
<1> QED BY <1>1, <1>2, <1>3 DEF FrameOK

\* The functions named in the sets
LEMMA Names ==
  /\ \A f \in SessCalls : f # "call_done"
  /\ \A f \in ObjectCalls : f # "session_issue_call" /\ f # "call_done"
  /\ \A f \in ConnCalls : f # "session_issue_call" /\ f # "call_done"
  /\ RingCalls \subseteq SessCalls
BY DEF SessCalls, ObjectCalls, ConnCalls, RingCalls

\* A function replaces its frame by the calls it makes.
LEMMA ShapeCall ==
  ASSUME Shape, stack # <<>>, NEW calls, NEW n, mem' = n, CallsOK(calls, n, opt),
         stack' = Pushed(calls, stack), opt' = opt, MemOK(n, opt), Within(mem, n),
         TopOK(Pushed(calls, stack), n), batch' = batch,
         visit' = visit \/ visit' \in [1..NumSessions -> VisitRecs],
         gen' = gen \/ GenOK(gen')
  PROVE  Shape'
<1>1. StackOK(Pushed(calls, stack), n, opt)
  BY PushOK DEF Shape, CallsOK
<1>2. batch \in Seq(Events(n))
  <2>1. Events(mem) \subseteq Events(n)
    BY CellsGrow
  <2> QED BY <2>1, SeqGrows DEF Shape
<1>3. visit' \in [1..NumSessions -> VisitRecs] /\ GenOK(gen')
  BY DEF Shape
<1>4. opt \in Options
  BY DEF Shape
<1>5. MemOK(mem', opt') /\ StackOK(stack', mem', opt') /\ TopOK(stack', mem')
  BY <1>1
<1> HIDE DEF Events
<1>6. batch' \in Seq(Events(mem'))
  BY <1>2
<1> QED BY <1>3, <1>4, <1>5, <1>6 DEF Shape

\* The condition on the top when no call is created and none is finished.
LEMMA TopKept ==
  ASSUME Shape, stack # <<>>, stack[1][1] # "session_issue_call", NEW calls, NEW n,
         Plain(calls, n, opt),
         \A c \in DOMAIN n.call : c \in DOMAIN mem.call /\ n.call[c].sess = mem.call[c].sess
  PROVE  TopOK(Pushed(calls, stack), n)
<1> DEFINE p == Pushed(calls, stack)
<1>1. \A c \in DOMAIN n.call : n.call[c].sess # NULL
  BY DEF Shape, TopOK
<1>2. ASSUME p # <<>> PROVE p[1][1] # "call_done"
  <2>1. Sized(calls) /\ Sized(stack) /\ Sized(p)
    BY PushedAt DEF Shape, StackOK, CallsOK, Plain
  <2>2. 1 \in 1..Len(p) /\ Len(calls) \in Nat
    BY <1>2, <2>1, SizedLen
  <2>3. \/ 1 \in 1..Len(calls) /\ p[1] = calls[1]
        \/ 1 - Len(calls) + 1 \in 2..Len(stack) /\ p[1] = stack[1 - Len(calls) + 1]
    BY <2>1, <2>2, PushedFrom
  <2>4. \A i \in 2..Len(stack) : stack[i][1] # "call_done"
    BY DEF Shape, StackOK, AtOnce
  <2>5. \A i \in 1..Len(calls) : calls[i][1] # "call_done"
    BY DEF Plain
  <2> HIDE DEF p
  <2> QED BY <2>2, <2>3, <2>4, <2>5
<1> HIDE DEF p
<1>3. TopOK(p, n)
  BY <1>1, <1>2 DEF TopOK
<1> QED BY <1>3 DEF p

\* A function that leaves the calls their sessions.
LEMMA ShapeStep ==
  ASSUME Shape, stack # <<>>, stack[1][1] # "session_issue_call", NEW calls, NEW n, mem' = n,
         Plain(calls, n, opt),
         stack' = calls \o Tail(stack), opt' = opt, MemOK(n, opt), Within(mem, n),
         \A c \in DOMAIN n.call : c \in DOMAIN mem.call /\ n.call[c].sess = mem.call[c].sess,
         batch' = batch, visit' = visit \/ visit' \in [1..NumSessions -> VisitRecs],
         gen' = gen \/ GenOK(gen')
  PROVE  Shape'
<1>1. stack' = Pushed(calls, stack)
  BY DEF Pushed
<1>2. TopOK(Pushed(calls, stack), n) /\ CallsOK(calls, n, opt)
  BY TopKept DEF Plain
<1> QED BY <1>1, <1>2, ShapeCall

\* A function that changes nothing but the stack.
LEMMA ShapeSame ==
  ASSUME Shape, stack # <<>>, stack[1][1] # "session_issue_call", NEW calls, mem' = mem,
         Plain(calls, mem, opt),
         stack' = calls \o Tail(stack), opt' = opt,
         batch' = batch, visit' = visit \/ visit' \in [1..NumSessions -> VisitRecs],
         gen' = gen \/ GenOK(gen')
  PROVE  Shape'
<1>1. MemOK(mem, opt) /\ Within(mem, mem)
  BY DEF Shape, Within
<1> QED BY <1>1, ShapeStep

\* DecRef is a frame of object_dec_ref.
LEMMA DecRefFrame ==
  ASSUME NEW m, NEW op, NEW t \in Types, NEW x \in DOMAIN m[t]
  PROVE  FrameOK(DecRef(t, x), m, op) /\ DecRef(t, x)[1] = "object_dec_ref"
         /\ DecRef(t, x)[1] \notin AtOnce
<1>1. DecRef(t, x)[1] = "object_dec_ref"
  BY DEF DecRef
<1>2. DecRef(t, x)[1] \notin AtOnce
  BY <1>1 DEF AtOnce
<1>3. FrameOK(DecRef(t, x), m, op)
  BY DEF FrameOK, DecRef, SessCalls, RingCalls, ConnCalls, CallCalls, ObjectCalls
<1> QED BY <1>1, <1>2, <1>3

\* What the cells of a session and of a connection lead to.
LEMMA Pointers ==
  ASSUME NEW m, NEW op, MemOK(m, op)
  PROVE  /\ \A s \in DOMAIN m.sess : \A i \in 1..op.conns :
              /\ m.sess[s].ci[i].conn \in DOMAIN m.conn \union {NULL}
              /\ m.sess[s].ci[i].pending \in Seq(DOMAIN m.call)
              /\ Len(m.sess[s].ci[i].pending) \in Nat
              /\ \A j \in 1..Len(m.sess[s].ci[i].pending) : m.sess[s].ci[i].pending[j] \in DOMAIN m.call
         /\ \A k \in DOMAIN m.conn :
              /\ m.conn[k].sess \in DOMAIN m.sess /\ m.conn[k].ci \in 1..op.conns
              /\ m.conn[k].sendq \in Seq(DOMAIN m.call) /\ m.conn[k].recvq \in Seq(DOMAIN m.call)
         /\ \A c \in DOMAIN m.call : /\ m.call[c].sess \in DOMAIN m.sess \union {NULL}
                                     /\ m.call[c].conn \in DOMAIN m.conn \union {NULL}
<1>1. ASSUME NEW s \in DOMAIN m.sess, NEW i \in 1..op.conns
      PROVE  /\ m.sess[s].ci[i].conn \in DOMAIN m.conn \union {NULL}
             /\ m.sess[s].ci[i].pending \in Seq(DOMAIN m.call)
  BY DEF MemOK, SessOK, Rings
<1>2. ASSUME NEW s \in DOMAIN m.sess, NEW i \in 1..op.conns
      PROVE  /\ Len(m.sess[s].ci[i].pending) \in Nat
             /\ \A j \in 1..Len(m.sess[s].ci[i].pending) : m.sess[s].ci[i].pending[j] \in DOMAIN m.call
  BY <1>1, LenProperties, ElementOfSeq
<1>3. ASSUME NEW k \in DOMAIN m.conn
      PROVE  /\ m.conn[k].sess \in DOMAIN m.sess /\ m.conn[k].ci \in 1..op.conns
             /\ m.conn[k].sendq \in Seq(DOMAIN m.call) /\ m.conn[k].recvq \in Seq(DOMAIN m.call)
  BY DEF MemOK, Conns
<1>4. ASSUME NEW c \in DOMAIN m.call
      PROVE  m.call[c].sess \in DOMAIN m.sess \union {NULL} /\ m.call[c].conn \in DOMAIN m.conn \union {NULL}
  BY DEF MemOK, CallRecs
<1> QED BY <1>1, <1>2, <1>3, <1>4

\* The loop of sess_destroyed names connections of the session only.
LEMMA SessDestroyedShape == Shape /\ sess_destroyed /\ UNCHANGED gen => Shape'
<1> SUFFICES ASSUME Shape, sess_destroyed, UNCHANGED gen PROVE Shape'
  OBVIOUS
<1> DEFINE s == Arg(1)  i == Arg(2)
           calls == IF i > opt.conns THEN <<>>
                    ELSE <<<<"close_conn_of", s, i>>, <<"drop_ring", s, i, 1>>,
                           <<"sess_destroyed", s, i + 1>>>>
<1>1. stack # <<>> /\ stack[1][1] = "sess_destroyed" /\ stack' = calls \o Tail(stack)
      /\ UNCHANGED <<mem, opt, batch, visit, gen>>
  BY DEF sess_destroyed, Top, Run, envVars
<1>2. s \in DOMAIN mem.sess /\ i \in Nat \ {0}
  BY <1>1, Args DEF SessCalls
<1>3. Plain(calls, mem, opt)
  <2>1. CASE i > opt.conns
    BY <2>1, PlainFew
  <2>2. CASE ~(i > opt.conns)
    <3>0. opt.conns \in Nat
      BY OptionsAssumption DEF Shape
    <3>1. i \in 1..opt.conns /\ i + 1 \in Nat \ {0} /\ 1 \in Nat \ {0}
      BY <1>2, <2>2, <3>0
    <3> DEFINE a == <<"close_conn_of", s, i>>  b == <<"drop_ring", s, i, 1>>
               d == <<"sess_destroyed", s, i + 1>>
    <3>2. FrameOK(a, mem, opt) /\ FrameOK(b, mem, opt) /\ FrameOK(d, mem, opt)
      BY <1>2, <3>1, SessFrames
    <3>3. b[1] \notin AtOnce /\ d[1] \notin AtOnce /\ a[1] # "call_done" /\ b[1] # "call_done"
          /\ d[1] # "call_done"
      BY DEF AtOnce
    <3>4. calls = <<a, b, d>>
      BY <2>2
    <3> HIDE DEF a, b, d, calls
    <3> QED BY <3>2, <3>3, <3>4, PlainFew
  <2> QED BY <2>1, <2>2
<1> HIDE DEF calls
<1> QED BY <1>1, <1>3, ShapeSame

\* The connection that a slot of the session holds is closed, if there is one.
LEMMA CloseConnOfShape == Shape /\ close_conn_of /\ UNCHANGED gen => Shape'
<1> SUFFICES ASSUME Shape, close_conn_of, UNCHANGED gen PROVE Shape'
  OBVIOUS
<1> DEFINE k == Ci(Arg(1), Arg(2)).conn
           calls == IF k = NULL THEN <<>> ELSE <<<<"core_close", k>>>>
<1>1. stack # <<>> /\ stack[1][1] = "close_conn_of" /\ stack' = calls \o Tail(stack)
      /\ UNCHANGED <<mem, opt, batch, visit, gen>>
  BY DEF close_conn_of, Top, Run, envVars
<1>2. Arg(1) \in DOMAIN mem.sess /\ Arg(2) \in 1..opt.conns
  BY <1>1, Args DEF SessCalls, RingCalls
<1>3. k = NULL \/ k \in DOMAIN mem.conn
  BY <1>2, Pointers DEF Shape, Ci
<1> HIDE DEF k
<1>4. Plain(calls, mem, opt)
  <2>1. CASE k = NULL
    BY <2>1, PlainFew
  <2>2. CASE k # NULL
    BY <1>3, <2>2, PlainFew, OtherFrames
  <2> QED BY <2>1, <2>2
<1> HIDE DEF calls
<1> QED BY <1>1, <1>4, ShapeSame

\* A call of the ring is a call, whose reference can be given up.
LEMMA DropRingShape == Shape /\ drop_ring /\ UNCHANGED gen => Shape'
<1> SUFFICES ASSUME Shape, drop_ring, UNCHANGED gen PROVE Shape'
  OBVIOUS
<1> DEFINE s == Arg(1)  i == Arg(2)  j == Arg(3)  ring == Ci(s, i).pending
           calls == IF j > Len(ring) THEN <<>>
                    ELSE <<DecRef("call", ring[j]), <<"drop_ring", s, i, j + 1>>>>
<1>1. stack # <<>> /\ stack[1][1] = "drop_ring" /\ stack' = calls \o Tail(stack)
      /\ UNCHANGED <<mem, opt, batch, visit, gen>>
  BY DEF drop_ring, Top, Run, envVars
<1>2. s \in DOMAIN mem.sess /\ i \in 1..opt.conns /\ j \in Nat \ {0}
  BY <1>1, Args DEF SessCalls, RingCalls
<1>3. Len(ring) \in Nat /\ \A x \in 1..Len(ring) : ring[x] \in DOMAIN mem.call
  BY <1>2, Pointers DEF Shape, Ci
<1> HIDE DEF s, i, j, ring
<1>4. Plain(calls, mem, opt)
  <2>1. CASE j > Len(ring)
    BY <2>1, PlainFew
  <2>2. CASE ~(j > Len(ring))
    <3>1. ring[j] \in DOMAIN mem.call /\ j + 1 \in Nat \ {0}
      BY <1>2, <1>3, <2>2
    <3> DEFINE a == DecRef("call", ring[j])  b == <<"drop_ring", s, i, j + 1>>
    <3>2. FrameOK(a, mem, opt) /\ a[1] = "object_dec_ref"
      BY <3>1, DecRefFrame DEF Types
    <3>3. FrameOK(b, mem, opt) /\ b[1] \notin AtOnce /\ b[1] # "call_done"
      BY <1>2, <3>1, SessFrames DEF AtOnce
    <3>4. calls = <<a, b>>
      BY <2>2
    <3> HIDE DEF a, b, calls
    <3> QED BY <3>2, <3>3, <3>4, PlainFew
  <2> QED BY <2>1, <2>2
<1> HIDE DEF calls
<1> QED BY <1>1, <1>4, ShapeSame

\* The failure of a connection keeps the shape.
LEMMA ConnFailedShape == Shape /\ conn_failed /\ UNCHANGED gen => Shape'
<1> SUFFICES ASSUME Shape, conn_failed, UNCHANGED gen PROVE Shape'
  OBVIOUS
<1> DEFINE k == mem.conn[Arg(1)]  ci == Ci(k.sess, k.ci)
           calls == IF ci.successful \/ opt.retry
                    THEN <<<<"create_conn", k.sess, k.ci>>>>
                    ELSE <<<<"sess_failure", k.sess>>>>
<1>1. stack # <<>> /\ stack[1][1] = "conn_failed" /\ stack' = calls \o Tail(stack)
      /\ UNCHANGED <<mem, opt, batch, visit, gen>>
  BY DEF conn_failed, Top, Run, envVars
<1>2. k.sess \in DOMAIN mem.sess /\ k.ci \in 1..opt.conns
  BY <1>1, Args, Pointers DEF Shape, ConnCalls
<1>3. calls \in {<<<<"create_conn", k.sess, k.ci>>>>, <<<<"sess_failure", k.sess>>>>}
  OBVIOUS
<1> HIDE DEF k, calls
<1>4. Plain(calls, mem, opt)
  BY <1>2, <1>3, PlainFew, SessFrames
<1> QED BY <1>1, <1>4, ShapeSame

\* The timeout of a connection keeps the shape.
LEMMA ConnTimeoutShape == Shape /\ conn_timeout /\ UNCHANGED gen => Shape'
<1> SUFFICES ASSUME Shape, conn_timeout, UNCHANGED gen PROVE Shape'
  OBVIOUS
<1> DEFINE s == mem.conn[Arg(1)].sess  calls == <<<<"sess_failure", s>>>>
<1>1. stack # <<>> /\ stack[1][1] = "conn_timeout" /\ stack' = calls \o Tail(stack)
      /\ UNCHANGED <<mem, opt, batch, visit, gen>>
  BY DEF conn_timeout, Top, Run, envVars
<1>2. s \in DOMAIN mem.sess
  BY <1>1, Args, Pointers DEF Shape, ConnCalls
<1> HIDE DEF s
<1>4. Plain(calls, mem, opt)
  BY <1>2, PlainFew, SessFrames
<1> HIDE DEF calls
<1> QED BY <1>1, <1>4, ShapeSame

\* A connect that is refused keeps the shape.
LEMMA RefusedShape == Shape /\ ConnectRefused /\ UNCHANGED gen => Shape'
<1> SUFFICES ASSUME Shape, ConnectRefused, UNCHANGED gen PROVE Shape'
  OBVIOUS
<1> DEFINE k == Arg(1)  s == mem.conn[k].sess
           a == <<"conn_failed", k>>  b == <<"core_close", k>>  d == <<"sess_failure", s>>
           calls == <<a, b, d>>
<1>1. stack # <<>> /\ stack[1][1] = "core_connect" /\ stack' = calls \o Tail(stack)
      /\ UNCHANGED <<mem, opt, batch, visit, gen>>
  BY DEF ConnectRefused, Top, Run, envVars
<1>2. k \in DOMAIN mem.conn /\ s \in DOMAIN mem.sess
  BY <1>1, Args, Pointers DEF Shape, ConnCalls
<1> HIDE DEF s, k
<1>3. FrameOK(a, mem, opt) /\ FrameOK(b, mem, opt) /\ FrameOK(d, mem, opt)
  BY <1>2, OtherFrames, SessFrames
<1>4. b[1] \notin AtOnce /\ d[1] \notin AtOnce /\ a[1] # "call_done" /\ b[1] # "call_done" /\ d[1] # "call_done"
  BY DEF AtOnce
<1> HIDE DEF a, b, d
<1>5. Plain(calls, mem, opt)
  BY <1>3, <1>4, PlainFew
<1> HIDE DEF calls
<1> QED BY <1>1, <1>5, ShapeSame

\* The destruction of a call keeps the shape.
LEMMA DestroyCallShape == Shape /\ DestroyCall /\ UNCHANGED gen => Shape'
<1> SUFFICES ASSUME Shape, DestroyCall, UNCHANGED gen PROVE Shape'
  OBVIOUS
<1> DEFINE c == Arg(2)  a == <<"call_destroyed", c>>  b == <<"free", "call", c>>
           calls == <<a, b>>
<1>1. stack # <<>> /\ stack[1][1] = "object_destroy" /\ Arg(1) = "call" /\ stack' = calls \o Tail(stack)
      /\ UNCHANGED <<mem, opt, batch, visit, gen>>
  BY DEF DestroyCall, Top, Run, envVars
<1>2. c \in DOMAIN mem.call
  BY <1>1, Args DEF ObjectCalls
<1> HIDE DEF c
<1>3. FrameOK(a, mem, opt) /\ FrameOK(b, mem, opt)
  BY <1>2, OtherFrames DEF ObjectCalls
<1>4. b[1] \notin AtOnce /\ a[1] # "call_done" /\ b[1] # "call_done"
  BY DEF AtOnce
<1> HIDE DEF a, b
<1>5. Plain(calls, mem, opt)
  BY <1>3, <1>4, PlainFew
<1> HIDE DEF calls
<1> QED BY <1>1, <1>5, ShapeSame

\* Frames stay what they are when cells are added.
LEMMA PlainGrows ==
  ASSUME NEW m, NEW n, NEW op, NEW calls, Within(m, n), Plain(calls, m, op)
  PROVE  Plain(calls, n, op)
<1>1. \A f : FrameOK(f, m, op) => FrameOK(f, n, op)
  BY FramesGrow
<1> QED BY <1>1 DEF Plain, CallsOK

\* A function that changes one session,
LEMMA ShapeSess ==
  ASSUME Shape, stack # <<>>, stack[1][1] # "session_issue_call", NEW calls, Plain(calls, mem, opt),
         NEW s \in DOMAIN mem.sess, NEW o, SessOK(o, mem, opt), mem' = [mem EXCEPT !.sess[s] = o],
         stack' = calls \o Tail(stack), opt' = opt,
         batch' = batch, visit' = visit \/ visit' \in [1..NumSessions -> VisitRecs],
         gen' = gen \/ GenOK(gen')
  PROVE  Shape'
<1> DEFINE n == [mem EXCEPT !.sess[s] = o]
<1>1. MemOK(mem, opt)
  BY DEF Shape
<1>2. MemOK(n, opt) /\ Within(mem, n)
  BY <1>1, PutOK
<1>3. n.call = mem.call
  BY <1>1 DEF MemOK
<1>4. Plain(calls, n, opt)
  BY <1>2, PlainGrows
<1> HIDE DEF n
<1>5. mem' = n
  BY DEF n
<1>6. \A c \in DOMAIN n.call : c \in DOMAIN mem.call /\ n.call[c].sess = mem.call[c].sess
  BY <1>3
<1> QED BY <1>2, <1>4, <1>5, <1>6, ShapeStep

\* one connection,
LEMMA ShapeConn ==
  ASSUME Shape, stack # <<>>, stack[1][1] # "session_issue_call", NEW calls, Plain(calls, mem, opt),
         NEW k \in DOMAIN mem.conn, NEW o \in Conns(mem, opt), mem' = [mem EXCEPT !.conn[k] = o],
         stack' = calls \o Tail(stack), opt' = opt,
         batch' = batch, visit' = visit \/ visit' \in [1..NumSessions -> VisitRecs],
         gen' = gen \/ GenOK(gen')
  PROVE  Shape'
<1> DEFINE n == [mem EXCEPT !.conn[k] = o]
<1>1. MemOK(mem, opt)
  BY DEF Shape
<1>2. MemOK(n, opt) /\ Within(mem, n)
  BY <1>1, PutOK
<1>3. n.call = mem.call
  BY <1>1 DEF MemOK
<1>4. Plain(calls, n, opt)
  BY <1>2, PlainGrows
<1> HIDE DEF n
<1>5. mem' = n
  BY DEF n
<1>6. \A c \in DOMAIN n.call : c \in DOMAIN mem.call /\ n.call[c].sess = mem.call[c].sess
  BY <1>3
<1> QED BY <1>2, <1>4, <1>5, <1>6, ShapeStep

\* or one call.
LEMMA ShapeCell ==
  ASSUME Shape, stack # <<>>, stack[1][1] # "session_issue_call", NEW calls, Plain(calls, mem, opt),
         NEW c \in DOMAIN mem.call, NEW o \in CallRecs(mem), o.sess = mem.call[c].sess,
         mem' = [mem EXCEPT !.call[c] = o],
         stack' = calls \o Tail(stack), opt' = opt,
         batch' = batch, visit' = visit \/ visit' \in [1..NumSessions -> VisitRecs],
         gen' = gen \/ GenOK(gen')
  PROVE  Shape'
<1> DEFINE n == [mem EXCEPT !.call[c] = o]
<1>1. MemOK(mem, opt)
  BY DEF Shape
<1>2. MemOK(n, opt) /\ Within(mem, n)
  BY <1>1, PutOK
<1>3. n.call = [mem.call EXCEPT ![c] = o]
  BY <1>1 DEF MemOK
<1>4. Plain(calls, n, opt)
  BY <1>2, PlainGrows
<1> HIDE DEF n
<1>5. mem' = n
  BY DEF n
<1>6. \A x \in DOMAIN n.call : x \in DOMAIN mem.call /\ n.call[x].sess = mem.call[x].sess
  BY <1>3
<1> QED BY <1>2, <1>4, <1>5, <1>6, ShapeStep

\* What a session may be changed to, its rings left alone.
LEMMA SessChanged ==
  ASSUME NEW m, NEW op, NEW o, SessOK(o, m, op), NEW r, r = [f \in SessFields |-> r[f]],
         r.ref \in Nat, r.num = o.num, r.completed \in Nat, r.failed \in BOOLEAN,
         r.timer \in BOOLEAN, r.ci = o.ci
  PROVE  SessOK(r, m, op)
BY DEF SessOK

\* The failure of a session keeps the shape: only its flag changes.
LEMMA SessFailureShape == Shape /\ sess_failure /\ UNCHANGED gen => Shape'
<1> SUFFICES ASSUME Shape, sess_failure, UNCHANGED gen PROVE Shape'
  OBVIOUS
<1> DEFINE s == Arg(1)  o == mem.sess[s]  r == [o EXCEPT !.failed = TRUE]  a == DecRef("sess", s)
<1>1. stack # <<>> /\ stack[1][1] = "sess_failure" /\ UNCHANGED <<opt, batch, visit, gen>>
  BY DEF sess_failure, Top, envVars
<1>2. s \in DOMAIN mem.sess
  BY <1>1, Args DEF SessCalls
<1>3. CASE o.failed
  <2> DEFINE calls == <<>>
  <2>1. mem' = mem /\ stack' = calls \o Tail(stack)
    BY <1>3 DEF sess_failure, Return, Run
  <2>2. Plain(calls, mem, opt)
    BY PlainFew
  <2> HIDE DEF calls
  <2> QED BY <1>1, <2>1, <2>2, ShapeSame
<1>4. CASE ~o.failed
  <2> DEFINE calls == <<a>>
  <2>1. mem' = [mem EXCEPT !.sess[s] = r] /\ stack' = calls \o Tail(stack)
    BY <1>4 DEF sess_failure, Run, SetSess
  <2>2. FrameOK(a, mem, opt) /\ a[1] # "call_done"
    BY <1>2, DecRefFrame DEF Types
  <2>3. SessOK(o, mem, opt)
    BY <1>2 DEF Shape, MemOK
  <2>4. o = [f \in SessFields |-> o[f]]
    BY <2>3 DEF SessOK
  <2>5. r = [f \in SessFields |-> r[f]] /\ r.ref = o.ref /\ r.num = o.num /\ r.completed = o.completed
        /\ r.failed \in BOOLEAN /\ r.timer = o.timer /\ r.ci = o.ci
    BY <2>4 DEF SessFields
  <2> HIDE DEF a, r, o
  <2>6. SessOK(r, mem, opt)
    BY <2>3, <2>5, SessChanged DEF SessOK
  <2>7. Plain(calls, mem, opt)
    BY <2>2, PlainFew
  <2> HIDE DEF calls, s
  <2> QED BY <1>1, <1>2, <2>1, <2>6, <2>7, ShapeSess
<1> QED BY <1>3, <1>4

\* The calls that destroy a session.
LEMMA SessHandlersFew ==
  ASSUME NEW s
  PROVE  LET m == <<"sess_destroyed", s, 1>>  g == <<"gen_sess_destroyed", s>>
             d == <<"done">>  f == <<"free", "sess", s>>
             calls == SessHandlers(s) \o <<f>>
         IN  calls \in {<<m, g, f>>, <<g, m, f>>, <<m, g, d, f>>, <<g, m, d, f>>}
<1> DEFINE m == <<"sess_destroyed", s, 1>>  g == <<"gen_sess_destroyed", s>>
           d == <<"done">>  f == <<"free", "sess", s>>
<1> HIDE DEF m, g, d, f
<1>1. SessHandlers(s) \in {<<m, g>>, <<g, m>>, <<m, g, d>>, <<g, m, d>>}
  <2> DEFINE p == IF opt.gen = "wsesslog" THEN Cat(<<g>>, <<m>>) ELSE Cat(<<m>>, <<g>>)
             q == IF opt.timed THEN <<>> ELSE <<d>>
  <2>1. SessHandlers(s) = Cat(p, q)
    BY DEF SessHandlers, Cat, m, g, d
  <2>2. p = <<m, g>> \/ p = <<g, m>>
    BY JoinFew
  <2>3. q = <<>> \/ q = <<d>>
    OBVIOUS
  <2> HIDE DEF p, q
  <2> QED BY <2>1, <2>2, <2>3, JoinFew
<1>2. Cat(SessHandlers(s), <<f>>) \in {<<m, g, f>>, <<g, m, f>>, <<m, g, d, f>>, <<g, m, d, f>>}
  BY <1>1, JoinFew
<1> QED BY <1>2 DEF m, g, d, f, Cat

\* The destruction of a session keeps the shape: its history and the counters stay in
\* their ranges.
LEMMA DestroySessShape == Shape /\ DestroySess /\ UNCHANGED gen => Shape'
<1> SUFFICES ASSUME Shape, DestroySess, UNCHANGED gen PROVE Shape'
  OBVIOUS
<1> DEFINE s == Arg(2)
           m == <<"sess_destroyed", s, 1>>  g == <<"gen_sess_destroyed", s>>
           d == <<"done">>  f == <<"free", "sess", s>>
           calls == SessHandlers(s) \o <<f>>
<1>1. stack # <<>> /\ stack[1][1] = "object_destroy" /\ Arg(1) = "sess" /\ stack' = calls \o Tail(stack)
      /\ UNCHANGED <<mem, opt, batch, gen>>
      /\ visit' = [visit EXCEPT ![mem.sess[s].num].phase =
                     IF mem.sess[s].failed THEN "failed" ELSE "completed"]
  BY DEF DestroySess, Top, Run, envVars
<1>2. s \in DOMAIN mem.sess
  BY <1>1, Args DEF ObjectCalls
<1>3. visit' \in [1..NumSessions -> VisitRecs]
  <2>1. visit \in [1..NumSessions -> VisitRecs]
    BY DEF Shape
  <2> QED BY ZenonT(60), <1>1, <2>1 DEF VisitRecs
<1>4. calls \in {<<m, g, f>>, <<g, m, f>>, <<m, g, d, f>>, <<g, m, d, f>>}
  BY SessHandlersFew
<1>5. FrameOK(m, mem, opt) /\ FrameOK(g, mem, opt) /\ FrameOK(f, mem, opt)
  <2> HIDE DEF s
  <2>1. FrameOK(m, mem, opt)
    <3>1. 1 \in Nat \ {0}
      OBVIOUS
    <3>2. \A i \in Nat \ {0} : FrameOK(<<"sess_destroyed", s, i>>, mem, opt)
      BY <1>2, SessFrames
    <3> QED BY <3>1, <3>2
  <2>2. FrameOK(g, mem, opt)
    BY <1>2, SessFrames
  <2>3. FrameOK(f, mem, opt)
    BY <1>2, SessFrames DEF ObjectCalls
  <2> QED BY <2>1, <2>2, <2>3
<1>6. FrameOK(d, mem, opt)
  BY OtherFrames
<1>7. /\ m[1] \notin AtOnce /\ g[1] \notin AtOnce /\ d[1] \notin AtOnce /\ f[1] \notin AtOnce
      /\ m[1] # "call_done" /\ g[1] # "call_done"
  BY DEF AtOnce
<1> HIDE DEF m, g, d, f, calls, s
<1>8. Plain(calls, mem, opt)
  BY <1>4, <1>5, <1>6, <1>7, PlainFew
<1>9. stack[1][1] # "session_issue_call"
  BY <1>1
<1> QED BY <1>1, <1>3, <1>8, <1>9, ShapeSame

\* A connect that takes its time keeps the shape.
LEMMA InProgressShape == Shape /\ ConnectInProgress /\ UNCHANGED gen => Shape'
<1> SUFFICES ASSUME Shape, ConnectInProgress, UNCHANGED gen PROVE Shape'
  OBVIOUS
<1> DEFINE k == Arg(1)  o == mem.conn[k]  r == [o EXCEPT !.state = "CONNECTING"]  calls == <<>>
<1>1. stack # <<>> /\ stack[1][1] = "core_connect" /\ stack' = calls \o Tail(stack)
      /\ UNCHANGED <<opt, batch, visit, gen>> /\ mem' = [mem EXCEPT !.conn[k] = r]
  BY DEF ConnectInProgress, Top, Return, Run, envVars
<1>2. k \in DOMAIN mem.conn
  BY <1>1, Args DEF ConnCalls
<1>3. o \in Conns(mem, opt)
  BY <1>2 DEF Shape, MemOK
<1>4. r \in Conns(mem, opt)
  BY <1>3 DEF Conns, ConnStates, Open
<1>5. Plain(calls, mem, opt)
  BY PlainFew
<1> HIDE DEF k, r, calls
<1> QED BY <1>1, <1>2, <1>4, <1>5, ShapeConn

\* A connect that succeeds at once keeps the shape.
LEMMA AtOnceShape == Shape /\ ConnectAtOnce /\ UNCHANGED gen => Shape'
<1> SUFFICES ASSUME Shape, ConnectAtOnce, UNCHANGED gen PROVE Shape'
  OBVIOUS
<1> DEFINE k == Arg(1)  o == mem.conn[k]  r == [o EXCEPT !.state = "CONNECTED"]
           a == <<"conn_connected", k>>  calls == <<a>>
<1>1. stack # <<>> /\ stack[1][1] = "core_connect" /\ stack' = calls \o Tail(stack)
      /\ UNCHANGED <<opt, batch, visit, gen>> /\ mem' = [mem EXCEPT !.conn[k] = r]
  BY DEF ConnectAtOnce, Top, Run, envVars
<1>2. k \in DOMAIN mem.conn
  BY <1>1, Args DEF ConnCalls
<1>3. o \in Conns(mem, opt)
  BY <1>2 DEF Shape, MemOK
<1>4. r \in Conns(mem, opt)
  BY <1>3 DEF Conns, ConnStates, Open
<1>5. FrameOK(a, mem, opt) /\ a[1] # "call_done"
  BY <1>2, OtherFrames
<1> HIDE DEF a
<1>6. Plain(calls, mem, opt)
  BY <1>5, PlainFew
<1> HIDE DEF k, r, calls
<1> QED BY <1>1, <1>2, <1>4, <1>6, ShapeConn

\* A set of numbers that is not empty has a least one.
LEMMA LeastNumber ==
  ASSUME NEW S, S \subseteq Nat, S # {}
  PROVE  \E n \in S : \A m \in S : n <= m
<1> DEFINE R == {xy \in Nat \X Nat : xy[1] < xy[2]}
<1>1. OpToRel(<, Nat) = R
  BY DEF OpToRel
<1>2. IsWellFoundedOn(R, Nat)
  BY <1>1, NatLessThanWellFounded
<1>3. \A m, n \in Nat : m < n => <<m, n>> \in R
  OBVIOUS
<1> HIDE DEF R
<1>4. PICK n \in S : \A m \in S : ~(<<m, n>> \in R)
  BY <1>2, WFMin
<1>5. n \in Nat /\ \A m \in S : m \in Nat /\ ~(m < n)
  BY <1>3, <1>4, S \subseteq Nat
<1> QED BY <1>5, SMT

\* A session one of whose connections has another ring.
LEMMA RingChanged ==
  ASSUME NEW m, NEW op, NEW o, SessOK(o, m, op), NEW i \in 1..op.conns, NEW ci \in Rings(m),
         ci.sent <= Len(ci.pending), Len(ci.pending) <= op.piped
  PROVE  SessOK([o EXCEPT !.ci[i] = ci], m, op)
<1> DEFINE r == [o EXCEPT !.ci[i] = ci]
<1>1. o = [f \in SessFields |-> o[f]]
  BY DEF SessOK
<1>2. r = [f \in SessFields |-> r[f]] /\ r.ref = o.ref /\ r.num = o.num /\ r.completed = o.completed
      /\ r.failed = o.failed /\ r.timer = o.timer /\ r.ci = [o.ci EXCEPT ![i] = ci]
  BY <1>1 DEF SessFields
<1> HIDE DEF r
<1>3. o.ci \in [1..op.conns -> Rings(m)]
  BY DEF SessOK
<1> HIDE DEF Rings
<1>4. r.ci \in [1..op.conns -> Rings(m)]
  BY <1>2, <1>3
<1>5. \A j \in 1..op.conns : r.ci[j].sent <= Len(r.ci[j].pending) /\ Len(r.ci[j].pending) <= op.piped
  BY <1>2, <1>3 DEF SessOK
<1>6. SessOK(r, m, op)
  BY <1>2, <1>4, <1>5 DEF SessOK
<1> QED BY <1>6 DEF r

\* The rings of a session
LEMMA RingOf ==
  ASSUME Shape, NEW s \in DOMAIN mem.sess, NEW i \in 1..opt.conns
  PROVE  /\ SessOK(mem.sess[s], mem, opt) /\ Ci(s, i) \in Rings(mem) /\ Ci(s, i) = mem.sess[s].ci[i]
         /\ Ci(s, i).sent <= Len(Ci(s, i).pending) /\ Len(Ci(s, i).pending) <= opt.piped
BY DEF Shape, MemOK, SessOK, Ci

\* A connection that is established keeps the shape: its slot takes note of it.
LEMMA ConnectedShape == Shape /\ conn_connected /\ UNCHANGED gen => Shape'
<1> SUFFICES ASSUME Shape, conn_connected, UNCHANGED gen PROVE Shape'
  OBVIOUS
<1> DEFINE k == mem.conn[Arg(1)]  s == k.sess  i == k.ci  o == mem.sess[s]
           ci == Ci(s, i)  new == [ci EXCEPT !.connected = TRUE]  r == [o EXCEPT !.ci[i] = new]
           a == <<"send_calls", s, i>>  calls == <<a>>
<1>1. stack # <<>> /\ stack[1][1] = "conn_connected" /\ stack' = calls \o Tail(stack)
      /\ UNCHANGED <<opt, batch, visit, gen>>
      /\ mem' = [mem EXCEPT !.sess[s].ci[i].connected = TRUE]
  BY DEF conn_connected, Top, Run, envVars
<1>2. s \in DOMAIN mem.sess /\ i \in 1..opt.conns
  BY <1>1, Args, Pointers DEF Shape, ConnCalls
<1>3. SessOK(o, mem, opt) /\ ci \in Rings(mem) /\ ci = o.ci[i]
      /\ ci.sent <= Len(ci.pending) /\ Len(ci.pending) <= opt.piped
  BY <1>2, RingOf
<1>4. new \in Rings(mem) /\ new.sent = ci.sent /\ new.pending = ci.pending
  BY <1>3 DEF Rings
<1>5. mem' = [mem EXCEPT !.sess[s] = r]
  BY <1>1, <1>3
<1>6. FrameOK(a, mem, opt) /\ a[1] # "call_done"
  BY <1>2, SessFrames
<1> HIDE DEF a, s, i, o, ci, new
<1>7. Plain(calls, mem, opt)
  BY <1>6, PlainFew
<1>8. SessOK(r, mem, opt)
  BY <1>2, <1>3, <1>4, RingChanged
<1> HIDE DEF calls, r
<1> QED BY <1>1, <1>2, <1>5, <1>7, <1>8, ShapeSess DEF o

\* A slot of the session that forgets its connection keeps the shape.
LEMMA ForgetConnShape == Shape /\ forget_conn /\ UNCHANGED gen => Shape'
<1> SUFFICES ASSUME Shape, forget_conn, UNCHANGED gen PROVE Shape'
  OBVIOUS
<1> DEFINE s == Arg(1)  i == Arg(2)  o == mem.sess[s]
           ci == Ci(s, i)  new == [ci EXCEPT !.conn = NULL]  r == [o EXCEPT !.ci[i] = new]
           calls == <<>>
<1>1. stack # <<>> /\ stack[1][1] = "forget_conn" /\ stack' = calls \o Tail(stack)
      /\ UNCHANGED <<opt, batch, visit, gen>>
      /\ mem' = [mem EXCEPT !.sess[s].ci[i].conn = NULL]
  BY DEF forget_conn, Top, Return, Run, envVars
<1>2. s \in DOMAIN mem.sess /\ i \in 1..opt.conns
  BY <1>1, Args DEF SessCalls, RingCalls
<1>3. SessOK(o, mem, opt) /\ ci \in Rings(mem) /\ ci = o.ci[i]
      /\ ci.sent <= Len(ci.pending) /\ Len(ci.pending) <= opt.piped
  BY <1>2, RingOf
<1>4. new \in Rings(mem) /\ new.sent = ci.sent /\ new.pending = ci.pending
  BY <1>3 DEF Rings
<1>5. mem' = [mem EXCEPT !.sess[s] = r]
  BY <1>1, <1>3
<1> HIDE DEF s, i, o, ci, new
<1>7. Plain(calls, mem, opt)
  BY PlainFew
<1>8. SessOK(r, mem, opt)
  BY <1>2, <1>3, <1>4, RingChanged
<1> HIDE DEF calls, r
<1> QED BY <1>1, <1>2, <1>5, <1>7, <1>8, ShapeSess DEF o

\* The closing of a socket keeps the shape.
LEMMA CloseSdShape == Shape /\ close_sd /\ UNCHANGED gen => Shape'
<1> SUFFICES ASSUME Shape, close_sd, UNCHANGED gen PROVE Shape'
  OBVIOUS
<1> DEFINE k == Arg(1)  o == mem.conn[k]  r == [o EXCEPT !.recvq = <<>>]
           a == DecRef("conn", k)  calls == <<a>>
<1>1. stack # <<>> /\ stack[1][1] = "close_sd" /\ stack' = calls \o Tail(stack)
      /\ UNCHANGED <<opt, batch, visit, gen>> /\ mem' = [mem EXCEPT !.conn[k] = r]
  BY DEF close_sd, Top, Run, envVars
<1>2. k \in DOMAIN mem.conn
  BY <1>1, Args DEF ConnCalls
<1>3. o \in Conns(mem, opt)
  BY <1>2 DEF Shape, MemOK
<1>4. r \in Conns(mem, opt)
  <2>1. <<>> \in Seq(DOMAIN mem.call)
    BY EmptySeq
  <2> QED BY <1>3, <2>1 DEF Conns
<1>5. FrameOK(a, mem, opt) /\ a[1] # "call_done"
  BY <1>2, DecRefFrame DEF Types
<1> HIDE DEF a
<1>6. Plain(calls, mem, opt)
  BY <1>5, PlainFew
<1> HIDE DEF k, r, calls
<1> QED BY <1>1, <1>2, <1>4, <1>6, ShapeConn

\* The destruction of a connection keeps the shape.
LEMMA DestroyConnShape == Shape /\ DestroyConn /\ UNCHANGED gen => Shape'
<1> SUFFICES ASSUME Shape, DestroyConn, UNCHANGED gen PROVE Shape'
  OBVIOUS
<1> DEFINE k == Arg(2)  o == mem.conn[k]  r == [o EXCEPT !.state = "FREE"]
           a == <<"free", "conn", k>>  calls == <<a>>
<1>1. stack # <<>> /\ stack[1][1] = "object_destroy" /\ Arg(1) = "conn" /\ stack' = calls \o Tail(stack)
      /\ UNCHANGED <<opt, batch, visit, gen>> /\ mem' = [mem EXCEPT !.conn[k] = r]
  BY DEF DestroyConn, Top, Run, envVars
<1>2. k \in DOMAIN mem.conn
  BY <1>1, Args DEF ObjectCalls
<1>3. o \in Conns(mem, opt)
  BY <1>2 DEF Shape, MemOK
<1>4. r \in Conns(mem, opt)
  BY <1>3 DEF Conns, ConnStates
<1>5. FrameOK(a, mem, opt) /\ a[1] # "call_done"
  BY <1>2, OtherFrames DEF ObjectCalls
<1> HIDE DEF a
<1>6. Plain(calls, mem, opt)
  BY <1>5, PlainFew
<1> HIDE DEF k, r, calls
<1> QED BY <1>1, <1>2, <1>4, <1>6, ShapeConn

\* The references of a queue of calls that are given up, and what comes after.
LEMMA QueueFrames ==
  ASSUME NEW m, NEW op, NEW q \in Seq(DOMAIN m.call), NEW f, FrameOK(f, m, op), f[1] \notin AtOnce
  PROVE  Plain(DecRefAll(q) \o <<f>>, m, op) /\ Sized(DecRefAll(q)) /\ Len(DecRefAll(q)) = Len(q)
<1> DEFINE d == DecRefAll(q)  one == <<f>>  calls == Cat(d, one)
           S == {DecRef("call", c) : c \in DOMAIN m.call} \union {f}
<1>1. Len(q) \in Nat /\ DOMAIN q = 1..Len(q) /\ \A i \in 1..Len(q) : q[i] \in DOMAIN m.call
  BY LenProperties, ElementOfSeq
<1>2. d \in [1..Len(q) -> S] /\ DOMAIN d = 1..Len(q)
  BY <1>1 DEF DecRefAll
<1>3. d \in Seq(S)
  BY <1>1, <1>2, SeqDef
<1>4. one \in Seq(S) /\ Len(one) = 1
  BY DEF one
<1>5. Len(d) = Len(q)
  BY <1>1, <1>2, <1>3, LenProperties
<1>6. \A x \in S : FrameOK(x, m, op) /\ x[1] \notin AtOnce /\ x[1] # "call_done"
  <2>1. \A c \in DOMAIN m.call : FrameOK(DecRef("call", c), m, op)
          /\ DecRef("call", c)[1] \notin AtOnce
    BY DecRefFrame DEF Types
  <2>2. \A x : x[1] \notin AtOnce => x[1] # "call_done"
    BY DEF AtOnce
  <2> QED BY <2>1, <2>2
<1> HIDE DEF S, d, one
<1>7. calls \in Seq(S)
  BY <1>3, <1>4, ConcatProperties DEF Cat
<1>8. Sized(calls) /\ Sized(d) /\ \A i \in 1..Len(calls) : calls[i] \in S
  BY <1>3, <1>7, SizedIn, ElementOfSeq
<1> HIDE DEF calls
<1>9. Plain(calls, m, op)
  BY <1>6, <1>8 DEF Plain, CallsOK
<1> QED BY <1>5, <1>8, <1>9 DEF calls, Cat, d, one

\* core_close keeps the shape: the state of the connection changes once.
LEMMA CoreCloseShape == Shape /\ core_close /\ UNCHANGED gen => Shape'
<1> SUFFICES ASSUME Shape, core_close, UNCHANGED gen PROVE Shape'
  OBVIOUS
<1> DEFINE k == Arg(1)  o == mem.conn[k]  r == [o EXCEPT !.state = "CLOSING"]
           a == <<"close_recvq", k>>
<1>1. stack # <<>> /\ stack[1][1] = "core_close" /\ UNCHANGED <<opt, batch, visit, gen>>
  BY DEF core_close, Top, envVars
<1>2. k \in DOMAIN mem.conn
  BY <1>1, Args DEF ConnCalls
<1>3. o \in Conns(mem, opt)
  BY <1>2 DEF Shape, MemOK
<1>4. r \in Conns(mem, opt) /\ o.sendq \in Seq(DOMAIN mem.call)
  BY <1>3 DEF Conns, ConnStates
<1>5. FrameOK(a, mem, opt) /\ a[1] \notin AtOnce
  BY <1>2, OtherFrames
<1>6. CASE o.state \notin Open
  <2> DEFINE calls == <<>>
  <2>1. mem' = mem /\ stack' = calls \o Tail(stack)
    BY <1>6 DEF core_close, Return, Run
  <2>2. Plain(calls, mem, opt)
    BY PlainFew
  <2> HIDE DEF calls
  <2> QED BY <1>1, <2>1, <2>2, ShapeSame
<1>7. CASE o.state \in Open
  <2> DEFINE calls == DecRefAll(o.sendq) \o <<a>>
  <2>1. mem' = [mem EXCEPT !.conn[k] = r] /\ stack' = calls \o Tail(stack)
    BY <1>7 DEF core_close, Run
  <2> HIDE DEF a
  <2>2. Plain(calls, mem, opt)
    BY <1>4, <1>5, QueueFrames
  <2> HIDE DEF calls, k, r
  <2> QED BY <1>1, <1>2, <1>4, <2>1, <2>2, ShapeConn
<1> QED BY <1>6, <1>7

\* The calls of the receive queue that core_close gives up are calls.
LEMMA CloseRecvqShape == Shape /\ close_recvq /\ UNCHANGED gen => Shape'
<1> SUFFICES ASSUME Shape, close_recvq, UNCHANGED gen PROVE Shape'
  OBVIOUS
<1> DEFINE k == Arg(1)  o == mem.conn[k]  r == [o EXCEPT !.sendq = <<>>]
           a == <<"close_sd", k>>  calls == DecRefAll(o.recvq) \o <<a>>
<1>1. stack # <<>> /\ stack[1][1] = "close_recvq" /\ UNCHANGED <<opt, batch, visit, gen>>
      /\ mem' = [mem EXCEPT !.conn[k] = r] /\ stack' = calls \o Tail(stack)
  BY DEF close_recvq, Top, Run, envVars
<1>2. k \in DOMAIN mem.conn
  BY <1>1, Args DEF ConnCalls
<1>3. o \in Conns(mem, opt)
  BY <1>2 DEF Shape, MemOK
<1>4. r \in Conns(mem, opt) /\ o.recvq \in Seq(DOMAIN mem.call)
  <2>1. <<>> \in Seq(DOMAIN mem.call)
    BY EmptySeq
  <2> QED BY <1>3, <2>1 DEF Conns
<1>5. FrameOK(a, mem, opt) /\ a[1] \notin AtOnce
  BY <1>2, OtherFrames
<1> HIDE DEF a
<1>6. Plain(calls, mem, opt)
  BY <1>4, <1>5, QueueFrames
<1> HIDE DEF calls, k, r
<1> QED BY <1>1, <1>2, <1>4, <1>6, ShapeConn

\* object_dec_ref keeps the shape, if it finds a reference to give up.
LEMMA DecRefShape ==
  Shape /\ object_dec_ref /\ verdict' = "none" /\ UNCHANGED <<opt, batch, visit, gen>> => Shape'
<1> SUFFICES ASSUME Shape, object_dec_ref, verdict' = "none", UNCHANGED <<opt, batch, visit, gen>>
             PROVE  Shape'
  OBVIOUS
<1> DEFINE t == Arg(1)  x == Arg(2)  a == <<"object_destroy", t, x>>
           calls == IF mem[t][x].ref = 1 THEN <<a>> ELSE <<>>
<1>1. stack # <<>> /\ stack[1][1] = "object_dec_ref" /\ stack' = calls \o Tail(stack)
      /\ mem' = [mem EXCEPT ![t][x].ref = @ - 1] /\ mem[t][x].ref > 0
  BY DEF object_dec_ref, Top, Run, Check
<1>2. t \in Types /\ x \in DOMAIN mem[t]
  BY <1>1, Args DEF ObjectCalls
<1>3. MemOK(mem, opt)
  BY DEF Shape
<1>4. Plain(calls, mem, opt)
  <2>1. CASE mem[t][x].ref = 1
    <3>1. FrameOK(a, mem, opt) /\ a[1] # "call_done"
      <4> HIDE DEF t, x
      <4>1. "object_destroy" \in ObjectCalls
        BY DEF ObjectCalls
      <4>2. CASE t = "sess"
        BY <1>2, <4>1, <4>2, SessFrames
      <4>3. CASE t = "conn"
        BY <1>2, <4>1, <4>3, OtherFrames
      <4>4. CASE t = "call"
        BY <1>2, <4>1, <4>4, OtherFrames
      <4> QED BY <1>2, <4>2, <4>3, <4>4 DEF Types
    <3>2. calls = <<a>>
      BY <2>1
    <3> HIDE DEF a, calls
    <3> QED BY <3>1, <3>2, PlainFew
  <2>2. CASE mem[t][x].ref # 1
    BY <2>2, PlainFew
  <2> QED BY <2>1, <2>2
<1> HIDE DEF calls
<1>5. CASE t = "sess"
  <2> DEFINE o == mem.sess[x]  r == [o EXCEPT !.ref = @ - 1]
  <2>1. mem' = [mem EXCEPT !.sess[x] = r] /\ o.ref > 0 /\ x \in DOMAIN mem.sess
    BY <1>1, <1>2, <1>5
  <2>2. SessOK(o, mem, opt)
    BY <1>3, <2>1 DEF MemOK
  <2>3. r = [f \in SessFields |-> r[f]] /\ r.ref \in Nat /\ r.num = o.num /\ r.completed = o.completed
        /\ r.failed = o.failed /\ r.timer = o.timer /\ r.ci = o.ci
    BY <2>1, <2>2 DEF SessOK, SessFields
  <2> HIDE DEF r, o
  <2>4. SessOK(r, mem, opt)
    BY <2>2, <2>3, SessChanged DEF SessOK
  <2> HIDE DEF t, x
  <2> QED BY <1>1, <1>4, <2>1, <2>4, ShapeSess
<1>6. CASE t = "conn"
  <2> DEFINE o == mem.conn[x]  r == [o EXCEPT !.ref = @ - 1]
  <2>1. mem' = [mem EXCEPT !.conn[x] = r] /\ o.ref > 0 /\ x \in DOMAIN mem.conn
    BY <1>1, <1>2, <1>6
  <2>2. o \in Conns(mem, opt)
    BY <1>3, <2>1 DEF MemOK
  <2>3. r \in Conns(mem, opt)
    BY SMTT(30), <2>1, <2>2 DEF Conns
  <2> HIDE DEF r, o, t, x
  <2> QED BY <1>1, <1>4, <2>1, <2>3, ShapeConn
<1>7. CASE t = "call"
  <2> DEFINE o == mem.call[x]  r == [o EXCEPT !.ref = @ - 1]
  <2>1. mem' = [mem EXCEPT !.call[x] = r] /\ o.ref > 0 /\ x \in DOMAIN mem.call
    BY <1>1, <1>2, <1>7
  <2>2. o \in CallRecs(mem)
    BY <1>3, <2>1 DEF MemOK
  <2>3. r \in CallRecs(mem) /\ r.sess = mem.call[x].sess
    BY <2>1, <2>2 DEF CallRecs
  <2> HIDE DEF r, o, t, x
  <2> QED BY <1>1, <1>4, <2>1, <2>3, ShapeCell
<1> QED BY <1>2, <1>5, <1>6, <1>7 DEF Types

\* A cell that is freed keeps its contents in shape.
LEMMA FreeShape == Shape /\ free /\ UNCHANGED <<opt, batch, visit, gen>> => Shape'
<1> SUFFICES ASSUME Shape, free, UNCHANGED <<opt, batch, visit, gen>> PROVE Shape'
  OBVIOUS
<1> DEFINE t == Arg(1)  x == Arg(2)  calls == <<>>  f == <<x>> \o mem.free[t]
           n == [mem EXCEPT !.free[t] = f]
<1>1. stack # <<>> /\ stack[1][1] = "free" /\ stack' = calls \o Tail(stack) /\ mem' = n
  BY DEF free, Top, Return, Run
<1>2. t \in Types /\ x \in DOMAIN mem[t]
  BY <1>1, Args DEF ObjectCalls
<1>3. MemOK(mem, opt)
  BY DEF Shape
<1>4. mem = [sess |-> mem.sess, conn |-> mem.conn, call |-> mem.call, free |-> mem.free]
      /\ mem.free = [u \in Types |-> mem.free[u]]
  BY <1>3 DEF MemOK
<1>0. f \in Seq(DOMAIN mem[t])
  <2>1. mem.free[t] \in Seq(DOMAIN mem[t])
    BY <1>2, <1>3 DEF MemOK
  <2> DEFINE D == DOMAIN mem[t]  one == <<x>>
  <2>2. x \in D
    BY <1>2
  <2> HIDE DEF D, x
  <2>3. one \in Seq(D)
    BY <2>2
  <2> HIDE DEF one
  <2>4. one \o mem.free[t] \in Seq(D)
    BY <2>1, <2>3, ConcatProperties DEF D
  <2> QED BY <2>4 DEF D, one
<1> HIDE DEF t, x, f
<1>5. /\ n = [sess |-> n.sess, conn |-> n.conn, call |-> n.call, free |-> n.free]
      /\ n.sess = mem.sess /\ n.conn = mem.conn /\ n.call = mem.call
      /\ n.free = [mem.free EXCEPT ![t] = f]
  BY <1>4
<1> HIDE DEF n
<1>6. \A u \in Types : n[u] = mem[u]
  BY <1>5 DEF Types
<1>7. n.free = [u \in Types |-> n.free[u]] /\ n.free[t] = f
      /\ \A u \in Types \ {t} : n.free[u] = mem.free[u]
  BY <1>2, <1>4, <1>5
<1>9. \A u \in Types : n.free[u] \in Seq(DOMAIN n[u])
  <2> TAKE u \in Types
  <2>1. CASE u = t
    BY <1>0, <1>6, <1>7, <2>1
  <2>2. CASE u # t
    BY <1>3, <1>6, <1>7, <2>2 DEF MemOK
  <2> QED BY <2>1, <2>2
<1>10. Within(mem, n)
  BY <1>6 DEF Within
<1>11. (\A s \in DOMAIN n.sess : SessOK(n.sess[s], n, opt))
       /\ (\A k \in DOMAIN n.conn : n.conn[k] \in Conns(n, opt))
       /\ \A c \in DOMAIN n.call : n.call[c] \in CallRecs(n)
  BY <1>3, <1>5, <1>10, CellsGrow DEF MemOK
<1>12. Sized(n.sess) /\ Sized(n.conn) /\ Sized(n.call)
  BY <1>3, <1>5 DEF MemOK
<1>13. MemOK(n, opt)
  BY <1>5, <1>7, <1>9, <1>11, <1>12 DEF MemOK
<1>14. Plain(calls, n, opt)
  BY PlainFew
<1>15. \A c \in DOMAIN n.call : c \in DOMAIN mem.call /\ n.call[c].sess = mem.call[c].sess
  BY <1>5
<1>16. stack[1][1] # "session_issue_call"
  BY <1>1
<1> HIDE DEF calls
<1> QED BY <1>1, <1>10, <1>13, <1>14, <1>15, <1>16, ShapeStep

\* The creation of a connection keeps the shape: the new cell has its slot, and its
\* queues are empty.
LEMMA CreateConnShape == Shape /\ create_conn /\ UNCHANGED gen => Shape'
<1> SUFFICES ASSUME Shape, create_conn, UNCHANGED gen PROVE Shape'
  OBVIOUS
<1> DEFINE s == Arg(1)  i == Arg(2)  k == New("conn")
           new == [ref |-> 1, state |-> "INITIAL", sess |-> s, ci |-> i,
                   sendq |-> <<>>, recvq |-> <<>>, mask |-> "out"]
           m == object_new(mem, "conn", new)
           ring == [m.sess[s].ci[i] EXCEPT !.conn = k, !.connected = FALSE,
                                           !.successful = FALSE, !.sent = 0]
           n == [m EXCEPT !.sess[s].ci[i] = ring]
           a == <<"core_connect", k>>  calls == <<a>>
<1>1. stack # <<>> /\ stack[1][1] = "create_conn" /\ stack' = calls \o Tail(stack) /\ mem' = n
      /\ UNCHANGED <<opt, batch, visit, gen>>
  BY DEF create_conn, Top, Run, envVars
<1>2. s \in DOMAIN mem.sess /\ i \in 1..opt.conns
  BY <1>1, Args DEF SessCalls, RingCalls
<1>3. MemOK(mem, opt)
  BY DEF Shape
<1>4. "conn" \in Types /\ Allocated(mem, m, "conn", k, new)
  BY <1>3, Allocates DEF Types
<1> HIDE DEF m, k
<1>5. Within(mem, m) => Fits("conn", new, m, opt)
  <2> SUFFICES ASSUME Within(mem, m) PROVE Fits("conn", new, m, opt)
    OBVIOUS
  <2>1. s \in DOMAIN m.sess
    BY <1>2 DEF Within, Types
  <2>2. <<>> \in Seq(DOMAIN m.call)
    BY EmptySeq
  <2>3. new \in Conns(m, opt)
    BY <1>2, <2>1, <2>2 DEF Conns, ConnStates, Open
  <2> HIDE DEF new
  <2> QED BY <2>3 DEF Fits
<1> HIDE DEF new
<1>6. MemOK(m, opt) /\ Within(mem, m)
  BY <1>3, <1>4, <1>5, AllocatedOK
<1>7. m.sess = mem.sess /\ m.call = mem.call /\ k \in DOMAIN m.conn
  BY <1>4 DEF Allocated, Types
<1> DEFINE o == m.sess[s]  r == [o EXCEPT !.ci[i] = ring]
<1>8. SessOK(o, m, opt) /\ o.ci[i] \in Rings(m) /\ Len(o.ci[i].pending) <= opt.piped
  BY <1>2, <1>6, <1>7 DEF MemOK, SessOK
<1>9. ring \in Rings(m) /\ ring.sent = 0 /\ ring.pending = o.ci[i].pending
  BY <1>7, <1>8 DEF Rings
<1>10. ring.sent <= Len(ring.pending)
  <2>1. o.ci[i].pending \in Seq(DOMAIN m.call)
    BY <1>8 DEF Rings
  <2>2. Len(o.ci[i].pending) \in Nat
    BY <2>1, LenProperties
  <2> QED BY <1>9, <2>2
<1> HIDE DEF ring
<1>11. SessOK(r, m, opt)
  BY <1>2, <1>8, <1>9, <1>10, RingChanged
<1>12. n = [m EXCEPT !.sess[s] = r]
  OBVIOUS
<1> HIDE DEF r, n, o
<1>13. MemOK(n, opt) /\ Within(m, n)
  BY <1>2, <1>6, <1>7, <1>11, <1>12, PutOK
<1>14. Within(mem, n) /\ k \in DOMAIN n.conn
  BY <1>6, <1>7, <1>13 DEF Within, Types
<1>15. \A c \in DOMAIN n.call : c \in DOMAIN mem.call /\ n.call[c].sess = mem.call[c].sess
  <2>1. n.call = m.call
    BY <1>6, <1>12 DEF MemOK
  <2> QED BY <1>7, <2>1
<1>16. FrameOK(a, n, opt) /\ a[1] # "call_done"
  BY <1>14, OtherFrames
<1> HIDE DEF a
<1>17. Plain(calls, n, opt)
  BY <1>16, PlainFew
<1>18. stack[1][1] # "session_issue_call"
  BY <1>1
<1> HIDE DEF calls
<1> QED BY <1>1, <1>13, <1>14, <1>15, <1>17, <1>18, ShapeStep

\* What a call may be changed to.
LEMMA CallChanged ==
  ASSUME NEW m, NEW o \in CallRecs(m), NEW r, r = [f \in DOMAIN o |-> r[f]],
         r.ref \in Nat, r.sess \in DOMAIN m.sess \union {NULL},
         r.conn \in DOMAIN m.conn \union {NULL}, r.links \in Nat,
         r.cut \in BOOLEAN, r.whole \in BOOLEAN
  PROVE  r \in CallRecs(m)
<1>1. DOMAIN o = {"ref", "sess", "conn", "links", "cut", "whole"}
  BY DEF CallRecs
<1>2. r = [ref |-> r.ref, sess |-> r.sess, conn |-> r.conn, links |-> r.links, cut |-> r.cut,
           whole |-> r.whole]
  BY <1>1
<1> QED BY <1>2 DEF CallRecs

\* The record of a call that core_send has queued.
LEMMA QueuedOK ==
  ASSUME NEW m, NEW o \in CallRecs(m), NEW k \in DOMAIN m.conn
  PROVE  Queued(o, k) \in CallRecs(m) /\ Queued(o, k).sess = o.sess
<1> DEFINE p == Queued(o, k)  whole == o.whole /\ ~o.cut
<1>1. whole \in BOOLEAN
  OBVIOUS
<1>2. p = [o EXCEPT !.conn = k, !.ref = @ + 1, !.whole = whole, !.cut = FALSE]
  BY DEF Queued
<1> HIDE DEF p, whole
<1>3. p = [f \in DOMAIN o |-> p[f]] /\ p.conn = k /\ p.ref = o.ref + 1 /\ p.whole = whole
      /\ p.cut = FALSE /\ p.sess = o.sess /\ p.links = o.links
  BY <1>2 DEF CallRecs
<1>4. p.ref \in Nat /\ p.sess \in DOMAIN m.sess \union {NULL} /\ p.links \in Nat
  BY <1>3 DEF CallRecs
<1>5. p \in CallRecs(m)
  BY <1>1, <1>3, <1>4, CallChanged
<1> QED BY <1>3, <1>5 DEF p

\* What the record of a visit may be changed to.
LEMMA VisitChanged ==
  ASSUME NEW v \in VisitRecs, NEW w, w = [f \in DOMAIN v |-> w[f]],
         w.phase \in {"new", "open", "completed", "failed"}, w.issued \in Nat,
         w.answered \in Nat, w.replies \in Nat
  PROVE  w \in VisitRecs
<1>1. DOMAIN v = {"phase", "issued", "answered", "replies"}
  BY DEF VisitRecs
<1>2. w = [phase |-> w.phase, issued |-> w.issued, answered |-> w.answered, replies |-> w.replies]
  BY <1>1
<1> QED BY <1>2 DEF VisitRecs

\* core_send keeps the memory as it should be.
LEMMA CoreSendOK ==
  ASSUME NEW m, NEW op, MemOK(m, op), NEW k \in DOMAIN m.conn, NEW q \in Seq(DOMAIN m.call)
  PROVE  /\ MemOK(CoreSend(m, k, q), op) /\ Within(m, CoreSend(m, k, q))
         /\ CoreSend(m, k, q).sess = m.sess
         /\ \A c \in DOMAIN CoreSend(m, k, q).call :
              c \in DOMAIN m.call /\ CoreSend(m, k, q).call[c].sess = m.call[c].sess
<1> DEFINE n == CoreSend(m, k, q)
           mask == IF q # <<>> /\ m.conn[k].sendq = <<>> THEN "out" ELSE m.conn[k].mask
           sendq == m.conn[k].sendq \o q
           r == [m.conn[k] EXCEPT !.sendq = sendq, !.mask = mask]
           conn == [m.conn EXCEPT ![k] = r]
           call == [c \in DOMAIN m.call |->
                      IF Contains(q, c) THEN Queued(m.call[c], k) ELSE m.call[c]]
<1>1. m = [sess |-> m.sess, conn |-> m.conn, call |-> m.call, free |-> m.free]
      /\ Sized(m.conn) /\ Sized(m.call) /\ Sized(m.sess)
  BY DEF MemOK
<1>2. n = [sess |-> m.sess, conn |-> conn, call |-> call, free |-> m.free]
  <2>1. sendq = m.conn[k].sendq \o q
    OBVIOUS
  <2>2. call = [c \in DOMAIN m.call |->
                  IF Contains(q, c) THEN Queued(m.call[c], k) ELSE m.call[c]]
    OBVIOUS
  <2> HIDE DEF sendq, call
  <2>3. n.sess = m.sess /\ n.conn = conn /\ n.free = m.free
    BY <1>1, <2>1 DEF CoreSend
  <2>4. n.call = call
    BY <1>1, <2>2 DEF CoreSend
  <2>5. n = [f \in DOMAIN m |-> n[f]]
    BY DEF CoreSend
  <2>6. DOMAIN m = {"sess", "conn", "call", "free"}
    BY <1>1
  <2> HIDE DEF n, conn
  <2> QED BY <2>3, <2>4, <2>5, <2>6
<1>3. r \in Conns(m, op)
  <2>1. m.conn[k] \in Conns(m, op)
    BY DEF MemOK
  <2>2. sendq \in Seq(DOMAIN m.call)
    <3>1. m.conn[k].sendq \in Seq(DOMAIN m.call)
      BY <2>1 DEF Conns
    <3> QED BY <3>1, ConcatProperties
  <2>3. mask \in {"in", "out"}
    BY <2>1 DEF Conns
  <2> HIDE DEF sendq, mask
  <2> QED BY <2>1, <2>2, <2>3 DEF Conns
<1> HIDE DEF r
<1>4. Sized(conn) /\ DOMAIN conn = DOMAIN m.conn
  BY <1>1, SizedPut
<1>5. \A x \in DOMAIN m.conn : conn[x] = m.conn[x] \/ conn[x] \in Conns(m, op)
  BY <1>3
<1>6. \A c \in DOMAIN m.call : call[c] \in CallRecs(m) /\ call[c].sess = m.call[c].sess
  <2> TAKE c \in DOMAIN m.call
  <2>1. m.call[c] \in CallRecs(m)
    BY DEF MemOK
  <2>2. Queued(m.call[c], k) \in CallRecs(m) /\ Queued(m.call[c], k).sess = m.call[c].sess
    BY <2>1, QueuedOK
  <2> QED BY <2>1, <2>2
<1>7. Sized(call) /\ DOMAIN call = DOMAIN m.call
  <2>1. Len(m.call) \in Nat /\ DOMAIN m.call = 1..Len(m.call)
    BY <1>1, SizedLen
  <2>2. call \in [1..Len(m.call) -> CallRecs(m)]
    BY <1>6, <2>1
  <2> HIDE DEF call
  <2>3. call \in Seq(CallRecs(m))
    BY <2>1, <2>2, SeqDef
  <2> QED BY <2>1, <2>2, <2>3, SizedIn
<1> HIDE DEF conn, call, n
<1>8. n.sess = m.sess /\ n.conn = conn /\ n.call = call
  BY <1>2
<1>9. MemOK(n, op) /\ Within(m, n)
  BY <1>1, <1>2, <1>4, <1>5, <1>6, <1>7, <1>8, CellsOK DEF Types
<1> QED BY <1>6, <1>7, <1>8, <1>9 DEF n

\* The calls that session.c sends on a connection keep the shape.
LEMMA SendCallsShape == Shape /\ send_calls /\ UNCHANGED gen => Shape'
<1> SUFFICES ASSUME Shape, send_calls, UNCHANGED gen PROVE Shape'
  OBVIOUS
<1> DEFINE s == Arg(1)  i == Arg(2)  ci == Ci(s, i)
           unsent == SubSeq(ci.pending, ci.sent + 1, Len(ci.pending))
           m == CoreSend(mem, ci.conn, unsent)
           n == [m EXCEPT !.sess[s].ci[i].sent = Len(ci.pending)]
           a == <<"create_conn", s, i>>
           calls == IF ci.conn = NULL THEN <<a>> ELSE <<>>
<1>1. stack # <<>> /\ stack[1][1] = "send_calls" /\ stack' = calls \o Tail(stack)
      /\ UNCHANGED <<opt, batch, visit, gen>>
      /\ mem' = IF ci.conn # NULL /\ ci.connected THEN n ELSE mem
  BY DEF send_calls, Top, Run, envVars
<1>2. s \in DOMAIN mem.sess /\ i \in 1..opt.conns
  BY <1>1, Args DEF SessCalls, RingCalls
<1>3. MemOK(mem, opt)
  BY DEF Shape
<1>4. SessOK(mem.sess[s], mem, opt) /\ ci \in Rings(mem) /\ ci = mem.sess[s].ci[i]
      /\ ci.sent <= Len(ci.pending) /\ Len(ci.pending) <= opt.piped
  BY <1>2, RingOf
<1>5. FrameOK(a, mem, opt) /\ a[1] # "call_done"
  BY <1>2, SessFrames
<1> HIDE DEF a, m
<1>6. Plain(calls, mem, opt)
  BY <1>5, PlainFew
<1> HIDE DEF calls, ci
<1>7. CASE ci.conn # NULL /\ ci.connected
  <2>1. ci.conn \in DOMAIN mem.conn /\ ci.pending \in Seq(DOMAIN mem.call) /\ ci.sent \in Nat
    BY <1>4, <1>7 DEF Rings
  <2>2. Len(ci.pending) \in Nat
    BY <2>1, LenProperties
  <2>3. unsent \in Seq(DOMAIN mem.call)
    <3>1. \A j \in (ci.sent + 1)..Len(ci.pending) : ci.pending[j] \in DOMAIN mem.call
      BY <2>1, <2>2, ElementOfSeq
    <3>2. ci.sent + 1 \in Int /\ Len(ci.pending) \in Int
      BY <2>1, <2>2
    <3> QED BY <3>1, <3>2, SubSeqProperties
  <2>4. /\ MemOK(m, opt) /\ Within(mem, m) /\ m.sess = mem.sess
        /\ \A c \in DOMAIN m.call : c \in DOMAIN mem.call /\ m.call[c].sess = mem.call[c].sess
    BY <1>3, <2>1, <2>3, CoreSendOK DEF m
  <2> DEFINE o == m.sess[s]  new == [ci EXCEPT !.sent = Len(ci.pending)]  r == [o EXCEPT !.ci[i] = new]
  <2>5. n = [m EXCEPT !.sess[s] = r]
    BY <1>4, <2>4
  <2>6. SessOK(o, m, opt) /\ ci \in Rings(m)
    BY <1>2, <1>4, <2>4 DEF MemOK, SessOK
  <2>7. new \in Rings(m) /\ new.sent <= Len(new.pending) /\ Len(new.pending) <= opt.piped
    BY <1>4, <2>2, <2>6 DEF Rings
  <2> HIDE DEF new, o
  <2>8. SessOK(r, m, opt)
    BY <1>2, <2>6, <2>7, RingChanged
  <2> HIDE DEF r, n
  <2>9. MemOK(n, opt) /\ Within(m, n)
    BY <1>2, <2>4, <2>5, <2>8, PutOK
  <2>10. Within(mem, n)
    BY <2>4, <2>9 DEF Within
  <2>11. \A c \in DOMAIN n.call : c \in DOMAIN mem.call /\ n.call[c].sess = mem.call[c].sess
    <3>1. n.call = m.call
      BY <2>4, <2>5 DEF MemOK
    <3> QED BY <2>4, <3>1
  <2>12. Plain(calls, n, opt) /\ stack[1][1] # "session_issue_call" /\ mem' = n
    BY <1>1, <1>6, <1>7, <2>10, PlainGrows
  <2> QED BY <1>1, <2>9, <2>10, <2>11, <2>12, ShapeStep
<1>8. CASE ~(ci.conn # NULL /\ ci.connected)
  <2>1. mem' = mem /\ stack[1][1] # "session_issue_call"
    BY <1>1, <1>8
  <2> QED BY <1>1, <1>6, <2>1, ShapeSame
<1> QED BY <1>7, <1>8

\* A call that enters a ring keeps the shape, if there is room for it.
LEMMA IssueCallShape == Shape /\ session_issue_call /\ verdict' = "none" /\ UNCHANGED gen => Shape'
<1> SUFFICES ASSUME Shape, session_issue_call, verdict' = "none", UNCHANGED gen PROVE Shape'
  OBVIOUS
<1> DEFINE s == Arg(1)  c == Arg(2)
           room == {j \in 1..opt.conns : Len(Ci(s, j).pending) < opt.piped}
           i == CHOOSE i \in room : \A j \in room : i <= j
           m == [mem EXCEPT !.call[c].sess = s, !.call[c].ref = @ + 1]
           ci == Ci(s, i)  longer == Append(ci.pending, c)
           n == [m EXCEPT !.sess[s].ci[i].pending = longer]
           a == <<"send_calls", s, i>>  calls == <<a>>
<1>1. stack # <<>> /\ stack[1][1] = "session_issue_call" /\ UNCHANGED <<opt, batch, visit, gen>>
  BY DEF session_issue_call, Top, envVars
<1>2. s \in DOMAIN mem.sess /\ c \in DOMAIN mem.call
  BY <1>1, Args DEF SessCalls
<1>3. MemOK(mem, opt)
  BY DEF Shape
<1>4. room # {}
  BY DEF session_issue_call
<1>5. mem' = [mem EXCEPT !.call[c].sess = s, !.call[c].ref = @ + 1,
                         !.sess[s].ci[i].pending = Append(@, c)]
      /\ stack' = calls \o Tail(stack)
  BY <1>4 DEF session_issue_call, Run
<1>6. i \in room
  <2> HIDE DEF room
  <2>1. room \subseteq Nat
    BY DEF room
  <2> QED BY <1>4, <2>1, LeastNumber
<1>7. i \in 1..opt.conns /\ Len(ci.pending) < opt.piped
  BY <1>6
<1> HIDE DEF room, i, s, c
<1>8. SessOK(mem.sess[s], mem, opt) /\ ci \in Rings(mem) /\ ci = mem.sess[s].ci[i]
      /\ ci.sent <= Len(ci.pending)
  BY <1>2, <1>7, RingOf
<1> DEFINE p == mem.call[c]  r == [p EXCEPT !.sess = s, !.ref = @ + 1]
<1>9. m = [mem EXCEPT !.call[c] = r]
  BY <1>2, <1>3 DEF MemOK, CallRecs
<1>10. r \in CallRecs(mem)
  <2>1. p \in CallRecs(mem)
    BY <1>2, <1>3 DEF MemOK
  <2> HIDE DEF p
  <2>2. r = [f \in DOMAIN p |-> r[f]] /\ r.sess = s /\ r.ref = p.ref + 1 /\ r.conn = p.conn
        /\ r.links = p.links /\ r.cut = p.cut /\ r.whole = p.whole
    BY <2>1 DEF CallRecs
  <2> HIDE DEF r
  <2>3. r.ref \in Nat /\ r.conn \in DOMAIN mem.conn \union {NULL} /\ r.links \in Nat
        /\ r.cut \in BOOLEAN /\ r.whole \in BOOLEAN
    BY <2>1, <2>2 DEF CallRecs
  <2> QED BY <1>2, <2>1, <2>2, <2>3, CallChanged
<1> HIDE DEF r, ci
<1>11. MemOK(m, opt) /\ Within(mem, m)
  BY <1>2, <1>3, <1>9, <1>10, PutOK
<1>12. m.sess = mem.sess /\ m.conn = mem.conn /\ m.call = [mem.call EXCEPT ![c] = r]
  BY <1>3, <1>9 DEF MemOK
<1>13. mem' = n
  <2>1. longer = Append(ci.pending, c)
    OBVIOUS
  <2> HIDE DEF longer
  <2> QED BY <1>3, <1>5, <1>8, <2>1, <1>2 DEF MemOK
<1> HIDE DEF m
<1> DEFINE o == m.sess[s]  new == [ci EXCEPT !.pending = longer]  t == [o EXCEPT !.ci[i] = new]
<1>14. n = [m EXCEPT !.sess[s] = t]
  BY <1>8, <1>12
<1>15. SessOK(o, m, opt) /\ ci \in Rings(m)
  BY <1>2, <1>7, <1>8, <1>11, <1>12 DEF MemOK, SessOK
<1>16. longer \in Seq(DOMAIN m.call) /\ Len(longer) = Len(ci.pending) + 1 /\ Len(ci.pending) \in Nat
  <2>1. ci.pending \in Seq(DOMAIN m.call) /\ c \in DOMAIN m.call
    BY <1>2, <1>12, <1>15 DEF Rings
  <2> QED BY ZenonT(60), <2>1, AppendProperties, LenProperties
<1> HIDE DEF longer
<1>17. new \in Rings(m) /\ new.sent <= Len(new.pending) /\ Len(new.pending) <= opt.piped
  <2>1. opt.piped \in Nat
    BY OptionsAssumption DEF Shape
  <2>2. new \in Rings(m) /\ new.sent = ci.sent /\ new.pending = longer /\ ci.sent \in Nat
    BY <1>15, <1>16 DEF Rings
  <2> HIDE DEF new
  <2>3. ci.sent <= Len(longer) /\ Len(longer) <= opt.piped
    <3> DEFINE x == ci.sent  y == Len(ci.pending)  z == Len(longer)  w == opt.piped
    <3>1. x \in Nat /\ y \in Nat /\ w \in Nat /\ x <= y /\ y < w /\ z = y + 1
      BY <1>7, <1>8, <1>16, <2>1, <2>2
    <3> HIDE DEF x, y, z, w
    <3>2. x <= z /\ z <= w
      BY <3>1
    <3> QED BY <3>2 DEF x, z, w
  <2> QED BY <2>2, <2>3
<1> HIDE DEF new, o
<1>18. SessOK(t, m, opt)
  BY <1>7, <1>15, <1>17, RingChanged
<1> HIDE DEF t, n
<1>19. MemOK(n, opt) /\ Within(m, n)
  BY <1>2, <1>11, <1>12, <1>14, <1>18, PutOK
<1>20. Within(mem, n)
  BY <1>11, <1>19 DEF Within
<1>21. s \in DOMAIN n.sess
  BY <1>2, <1>20 DEF Within, Types
<1>22. FrameOK(a, n, opt) /\ a[1] # "call_done"
  BY <1>7, <1>21, SessFrames
<1> HIDE DEF a
<1>23. Plain(calls, n, opt)
  BY <1>22, PlainFew
<1>24. Len(calls) = 1 /\ calls[1][1] # "call_done"
  BY <1>22
<1> HIDE DEF calls
<1>25. \A x \in DOMAIN n.call : n.call[x].sess # NULL
  <2>1. n.call = m.call
    BY <1>11, <1>14 DEF MemOK
  <2>2. r.sess = s /\ s # NULL
    <3>1. Sized(mem.sess)
      BY <1>3 DEF MemOK
    <3>2. s # 0
      BY <1>2, <3>1, SizedLen
    <3>3. p \in CallRecs(mem)
      BY <1>2, <1>3 DEF MemOK
    <3> HIDE DEF p
    <3>4. r.sess = s
      BY <3>3 DEF r, CallRecs
    <3> QED BY <3>2, <3>4 DEF NULL
  <2>3. \A x \in DOMAIN mem.call : x # c => mem.call[x].sess # NULL
    BY <1>1 DEF Shape, TopOK, c, Arg
  <2> QED BY <1>2, <1>12, <2>1, <2>2, <2>3
<1>26. TopOK(Pushed(calls, stack), n)
  <2>1. Sized(calls) /\ Sized(stack)
    BY <1>23 DEF Plain, CallsOK, Shape, StackOK
  <2>2. Pushed(calls, stack)[1] = calls[1]
    BY <1>1, <1>24, <2>1, PushedAt
  <2> DEFINE q == Pushed(calls, stack)
  <2> HIDE DEF q
  <2>3. q[1][1] # "call_done"
    BY <1>24, <2>2 DEF q
  <2>4. TopOK(q, n)
    BY <1>25, <2>3 DEF TopOK
  <2> QED BY <2>4 DEF q
<1>27. CallsOK(calls, n, opt) /\ stack' = Pushed(calls, stack)
  BY <1>5, <1>23 DEF Plain, Pushed
<1> QED BY <1>1, <1>13, <1>19, <1>20, <1>26, <1>27, ShapeCall

\* A call that leaves the receive queue keeps the shape, if it is the head of it.
LEMMA RecvDoneShape == Shape /\ recv_done /\ verdict' = "none" /\ UNCHANGED gen => Shape'
<1> SUFFICES ASSUME Shape, recv_done, verdict' = "none", UNCHANGED gen PROVE Shape'
  OBVIOUS
<1> DEFINE c == Arg(1)  k == mem.call[c].conn  o == mem.conn[k]  queue == Tail(o.recvq)
           mask == IF Len(o.recvq) = 1 THEN "out" ELSE o.mask
           r == [o EXCEPT !.recvq = queue, !.mask = mask]
           n == [mem EXCEPT !.conn[k] = r]
           a == <<"call_done", c, Arg(2)>>  b == DecRef("call", c)  calls == <<a, b>>
<1>1. stack # <<>> /\ stack[1][1] = "recv_done" /\ stack' = calls \o Tail(stack)
      /\ UNCHANGED <<opt, batch, visit, gen>> /\ k # NULL /\ o.recvq # <<>>
      /\ mem' = [mem EXCEPT !.conn[k].recvq = Tail(@), !.conn[k].mask = mask]
  BY DEF recv_done, Top, Run, envVars, Check
<1>2. MemOK(mem, opt)
  BY DEF Shape
<1>3. c \in DOMAIN mem.call /\ k \in DOMAIN mem.conn
  BY <1>1, <1>2, Args, Pointers DEF CallCalls
<1>4. o \in Conns(mem, opt)
  BY <1>2, <1>3 DEF MemOK
<1>5. mem' = n
  <2>1. queue = Tail(o.recvq)
    OBVIOUS
  <2> HIDE DEF mask, queue
  <2> QED BY <1>1, <1>2, <1>3, <1>4, <2>1 DEF MemOK, Conns
<1>6. r \in Conns(mem, opt)
  <2>1. o.recvq \in Seq(DOMAIN mem.call)
    BY <1>4 DEF Conns
  <2>2. queue \in Seq(DOMAIN mem.call)
    BY <1>1, <2>1, HeadTailProperties
  <2>3. mask \in {"in", "out"}
    BY <1>4 DEF Conns
  <2> HIDE DEF queue, mask
  <2> QED BY <1>4, <2>2, <2>3 DEF Conns
<1>7. FrameOK(a, mem, opt) /\ FrameOK(b, mem, opt) /\ b[1] \notin AtOnce
  BY <1>3, DecRefFrame, OtherFrames DEF Types
<1>8. a[1] = "call_done" /\ a[2] = c
  OBVIOUS
<1> HIDE DEF r, a, b, k, o, c
<1>9. MemOK(n, opt) /\ Within(mem, n)
  BY <1>2, <1>3, <1>6, PutOK
<1>10. n.call = mem.call
  BY <1>2 DEF MemOK
<1> HIDE DEF n
<1>11. FrameOK(a, n, opt) /\ FrameOK(b, n, opt)
  BY <1>7, <1>9, FramesGrow
<1>12. CallsOK(calls, n, opt)
  BY <1>7, <1>11, CallsFew
<1>13. calls[1] = a /\ Len(calls) = 2
  OBVIOUS
<1> HIDE DEF calls
<1>14. TopOK(Pushed(calls, stack), n)
  <2> DEFINE q == Pushed(calls, stack)
  <2>1. Sized(calls) /\ Sized(stack)
    BY <1>12 DEF CallsOK, Shape, StackOK
  <2>2. q[1] = a
    BY <1>1, <1>13, <2>1, PushedAt
  <2> HIDE DEF q
  <2>3. q # <<>> /\ q[1][1] = "call_done" => n.call[q[1][2]].conn \in DOMAIN n.conn
    BY <1>3, <1>8, <1>9, <1>10, <2>2 DEF Within, Types, k
  <2>4. \A x \in DOMAIN n.call : n.call[x].sess # NULL
    BY <1>1, <1>10 DEF Shape, TopOK
  <2>5. TopOK(q, n)
    BY <2>3, <2>4 DEF TopOK
  <2> QED BY <2>5 DEF q
<1>15. stack' = Pushed(calls, stack)
  BY <1>1 DEF Pushed
<1> QED BY <1>1, <1>5, <1>9, <1>12, <1>14, <1>15, ShapeCall

\* What call_done goes on to do: a few explicit frames.
LEMMA DoneFrames ==
  ASSUME NEW m, NEW op, NEW s \in DOMAIN m.sess, NEW i \in 1..op.conns, NEW c \in DOMAIN m.call,
         NEW bad, NEW retry, NEW http11
  PROVE  LET calls == (IF bad THEN (IF retry THEN <<<<"session_issue_call", s, c>>>>
                                    ELSE <<<<"sess_failure", s>>>>)
                       ELSE <<>>)
                      \o <<DecRef("call", c)>>
                      \o (IF http11 THEN <<>>
                          ELSE <<<<"close_conn_of", s, i>>, <<"forget_conn", s, i>>>>)
         IN  Plain(calls, m, op)
<1> DEFINE a == <<"session_issue_call", s, c>>  b == <<"sess_failure", s>>  d == DecRef("call", c)
           e == <<"close_conn_of", s, i>>  f == <<"forget_conn", s, i>>
           first == IF bad THEN (IF retry THEN <<a>> ELSE <<b>>) ELSE <<>>
           last == IF http11 THEN <<>> ELSE <<e, f>>
<1>1. FrameOK(a, m, op) /\ a[1] # "call_done"
  BY SessFrames
<1>2. FrameOK(b, m, op) /\ b[1] # "call_done"
  BY SessFrames
<1>3. FrameOK(d, m, op) /\ d[1] \notin AtOnce /\ d[1] # "call_done"
  BY DecRefFrame DEF Types
<1>4. FrameOK(e, m, op) /\ e[1] \notin AtOnce /\ FrameOK(f, m, op) /\ f[1] \notin AtOnce
  BY SessFrames
<1>5. first \in {<<>>, <<a>>, <<b>>} /\ last \in {<<>>, <<e, f>>}
  OBVIOUS
<1> HIDE DEF a, b, d, e, f, first, last
<1>6. Cat(first, <<d>>) \in {<<d>>, <<a, d>>, <<b, d>>}
  BY <1>5, JoinFew
<1>7. Cat(Cat(first, <<d>>), last) \in {<<d>>, <<a, d>>, <<b, d>>, <<d, e, f>>, <<a, d, e, f>>, <<b, d, e, f>>}
  BY <1>5, <1>6, JoinFew
<1>8. Plain(Cat(Cat(first, <<d>>), last), m, op)
  BY <1>1, <1>2, <1>3, <1>4, <1>7, PlainFew
<1> QED BY <1>8 DEF Cat, first, last, a, b, d, e, f

\* A call that leaves its ring keeps the shape, if it is the head of it.
LEMMA CallDoneShape == Shape /\ call_done /\ verdict' = "none" /\ UNCHANGED gen => Shape'
<1> SUFFICES ASSUME Shape, call_done, verdict' = "none", UNCHANGED gen PROVE Shape'
  OBVIOUS
<1> DEFINE c == Arg(1)  bad == Arg(2)  k == mem.call[c].conn
           s == mem.conn[k].sess  i == mem.conn[k].ci  ci == Ci(s, i)  z == mem.call[c].sess
           calls == (IF bad THEN (IF opt.retry THEN <<<<"session_issue_call", s, c>>>>
                                  ELSE <<<<"sess_failure", s>>>>)
                       ELSE <<>>)
                      \o <<DecRef("call", c)>>
                      \o (IF opt.http11 THEN <<>>
                          ELSE <<<<"close_conn_of", s, i>>, <<"forget_conn", s, i>>>>)
           answered == IF bad /\ opt.retry THEN visit[Num(s)].answered ELSE visit[Num(s)].answered + 1
           new == [ci EXCEPT !.successful = TRUE, !.pending = Tail(ci.pending), !.sent = ci.sent - 1]
           m == [mem EXCEPT !.sess[s].ci[i] = new]
           count == mem.sess[z].completed + 1
           n == [m EXCEPT !.sess[z].completed = count]
<1>1. stack # <<>> /\ stack[1][1] = "call_done" /\ UNCHANGED <<opt, batch, gen>>
  BY DEF call_done, Top, envVars
<1>2. MemOK(mem, opt)
  BY DEF Shape
<1>3. c \in DOMAIN mem.call /\ k \in DOMAIN mem.conn /\ s \in DOMAIN mem.sess /\ i \in 1..opt.conns
  <2>1. c \in DOMAIN mem.call
    BY <1>1, Args DEF CallCalls
  <2>2. k \in DOMAIN mem.conn
    BY <1>1 DEF Shape, TopOK, Arg
  <2> QED BY <1>2, <2>1, <2>2, Pointers
<1>4. z \in DOMAIN mem.sess
  <2>1. z # NULL
    BY <1>1, <1>3 DEF Shape, TopOK
  <2> QED BY <1>2, <1>3, <2>1, Pointers
<1>5. SessOK(mem.sess[s], mem, opt) /\ ci \in Rings(mem) /\ ci = mem.sess[s].ci[i]
      /\ ci.sent <= Len(ci.pending) /\ Len(ci.pending) <= opt.piped
  BY <1>3, RingOf
<1>6. ci.pending # <<>> /\ ci.sent > 0
  BY DEF call_done, Check
<1>7. stack' = calls \o Tail(stack)
  BY DEF call_done, Run
<1>8. visit' = [visit EXCEPT ![Num(s)].replies = @ + 1, ![Num(s)].answered = answered]
  BY DEF call_done
<1>9. mem' = n
  BY DEF call_done
<1>10. visit' \in [1..NumSessions -> VisitRecs]
  <2> DEFINE j == Num(s)
  <2>1. visit \in [1..NumSessions -> VisitRecs] /\ j \in 1..NumSessions
    BY <1>5 DEF Shape, SessOK, Num
  <2> DEFINE v == visit[j]
  <2>2. v \in VisitRecs /\ answered \in Nat
    <3>1. v \in VisitRecs
      BY <2>1
    <3>2. answered = v.answered \/ answered = v.answered + 1
      BY Zenon
    <3> HIDE DEF v, answered
    <3>3. v.answered \in Nat
      BY <3>1 DEF VisitRecs
    <3> QED BY <3>1, <3>2, <3>3
  <2>3. visit' = [visit EXCEPT ![j] = [v EXCEPT !.replies = @ + 1, !.answered = answered]]
    BY <1>8, <2>1
  <2> HIDE DEF answered, v, j
  <2> DEFINE w == [v EXCEPT !.replies = @ + 1, !.answered = answered]
  <2>4. w = [f \in DOMAIN v |-> w[f]] /\ w.phase = v.phase /\ w.issued = v.issued
        /\ w.answered = answered /\ w.replies = v.replies + 1
    BY <2>2 DEF VisitRecs
  <2> HIDE DEF w
  <2>5. w.replies \in Nat /\ w.issued \in Nat /\ w.phase \in {"new", "open", "completed", "failed"}
    BY <2>2, <2>4 DEF VisitRecs
  <2>6. w \in VisitRecs
    BY <2>2, <2>4, <2>5, VisitChanged
  <2> QED BY <2>1, <2>3, <2>6 DEF w
<1>11. Plain(calls, mem, opt)
  BY <1>3, DoneFrames
<1> HIDE DEF calls, c, k, s, i, z, ci
<1>12. ci.pending \in Seq(DOMAIN mem.call) /\ ci.sent \in Nat
  BY <1>5 DEF Rings
<1>13. Tail(ci.pending) \in Seq(DOMAIN mem.call) /\ Len(Tail(ci.pending)) = Len(ci.pending) - 1
       /\ Len(ci.pending) \in Nat
  BY <1>6, <1>12, HeadTailProperties, LenProperties
<1>14. new \in Rings(mem) /\ new.sent <= Len(new.pending) /\ Len(new.pending) <= opt.piped
  <2> DEFINE q == Tail(ci.pending)
  <2>0. opt.piped \in Nat
    BY OptionsAssumption DEF Shape
  <2>1. q \in Seq(DOMAIN mem.call) /\ ci.sent - 1 \in Nat
    BY <1>6, <1>12, <1>13
  <2>2. new = [ci EXCEPT !.successful = TRUE, !.pending = q, !.sent = @ - 1]
    OBVIOUS
  <2>3. ci.sent - 1 <= Len(q) /\ Len(q) <= opt.piped
    <3> DEFINE x == ci.sent  y == Len(ci.pending)  w == Len(q)  p == opt.piped
    <3>1. x \in Nat /\ y \in Nat /\ w = y - 1 /\ x <= y /\ y <= p /\ p \in Nat
      BY <1>5, <1>12, <1>13, <2>0
    <3> HIDE DEF x, y, w, p
    <3>2. x - 1 <= w /\ w <= p
      BY <3>1
    <3> QED BY <3>2 DEF x, w, p
  <2> HIDE DEF q, new
  <2>4. new.sent = ci.sent - 1 /\ new.pending = q /\ new \in Rings(mem)
    BY <1>5, <2>1, <2>2 DEF Rings
  <2> QED BY <2>3, <2>4
<1> DEFINE o == mem.sess[s]  r == [o EXCEPT !.ci[i] = new]
<1>15. m = [mem EXCEPT !.sess[s] = r]
  OBVIOUS
<1> HIDE DEF new
<1>16. SessOK(r, mem, opt)
  BY <1>3, <1>5, <1>14, RingChanged
<1> HIDE DEF r, m
<1>17. MemOK(m, opt) /\ Within(mem, m)
  BY <1>2, <1>3, <1>15, <1>16, PutOK
<1>18. m.call = mem.call /\ m.sess = [mem.sess EXCEPT ![s] = r]
  BY <1>2, <1>15 DEF MemOK
<1> DEFINE p == m.sess[z]  t == [p EXCEPT !.completed = count]
<1>19. SessOK(p, m, opt) /\ z \in DOMAIN m.sess
  BY <1>4, <1>17, <1>18 DEF MemOK
<1>20. t = [f \in SessFields |-> t[f]] /\ t.ref = p.ref /\ t.num = p.num /\ t.completed = count
       /\ t.failed = p.failed /\ t.timer = p.timer /\ t.ci = p.ci
  BY <1>19 DEF SessOK, SessFields
<1> HIDE DEF t, p
<1>21. SessOK(t, m, opt)
  <2>0. count \in Nat
    BY <1>2, <1>4 DEF MemOK, SessOK
  <2>1. t.ref \in Nat /\ t.completed \in Nat /\ t.failed \in BOOLEAN /\ t.timer \in BOOLEAN
    BY <1>19, <1>20, <2>0 DEF SessOK
  <2> QED BY <1>19, <1>20, <2>1, SessChanged
<1>22. n = [m EXCEPT !.sess[z] = t]
  BY DEF t, p
<1> HIDE DEF n
<1>23. MemOK(n, opt) /\ Within(m, n)
  BY <1>17, <1>19, <1>21, <1>22, PutOK
<1>24. n.call = mem.call
  BY <1>17, <1>18, <1>22 DEF MemOK
<1>25. Within(mem, n)
  BY <1>17, <1>23 DEF Within
<1>26. Plain(calls, n, opt)
  BY <1>11, <1>25, PlainGrows
<1>27. \A x \in DOMAIN n.call : x \in DOMAIN mem.call /\ n.call[x].sess = mem.call[x].sess
  BY <1>24
<1>28. stack[1][1] # "session_issue_call" /\ opt' = opt /\ batch' = batch /\ gen' = gen
  BY <1>1
<1> QED BY <1>1, <1>7, <1>9, <1>10, <1>23, <1>25, <1>26, <1>27, <1>28, ShapeStep

-----------------------------------------------------------------------------
(* The generators keep the shape. *)

\* What the generators' variables may be changed to.
LEMMA GenChanged ==
  ASSUME NEW g, GenOK(g), NEW h, h = [f \in DOMAIN g |-> h[f]],
         h.generated \in Nat, h.destroyed \in Nat, h.running \in BOOLEAN
  PROVE  GenOK(h)
<1>1. DOMAIN g = {"generated", "destroyed", "done", "template", "running", "templates"}
  BY DEF GenOK
<1> QED BY <1>1 DEF GenOK

\* not_done writes a generator's flag.
LEMMA NotDoneShape == Shape /\ not_done => Shape'
<1> SUFFICES ASSUME Shape, not_done PROVE Shape'
  OBVIOUS
<1> DEFINE calls == <<>>  h == [gen EXCEPT !.done = FALSE]
<1>1. stack # <<>> /\ stack[1][1] = "not_done" /\ stack' = calls \o Tail(stack)
      /\ UNCHANGED <<mem, opt, batch, visit>> /\ gen' = h
  BY DEF not_done, Top, Return, Run, envVars
<1>2. GenOK(gen)
  BY DEF Shape
<1>3. h = [f \in DOMAIN gen |-> h[f]] /\ h.generated = gen.generated /\ h.destroyed = gen.destroyed
      /\ h.running = gen.running
  BY <1>2 DEF GenOK
<1> HIDE DEF h
<1>4. GenOK(h)
  BY <1>2, <1>3, GenChanged DEF GenOK
<1>5. Plain(calls, mem, opt)
  BY PlainFew
<1> HIDE DEF calls
<1> QED BY <1>1, <1>4, <1>5, ShapeSame

\* rate.c's done may create the next session.
LEMMA DoneShape == Shape /\ done => Shape'
<1> SUFFICES ASSUME Shape, done PROVE Shape'
  OBVIOUS
<1> DEFINE a == <<"sess_create">>  calls == IF gen.done THEN <<>> ELSE <<a>>
<1>1. stack # <<>> /\ stack[1][1] = "done" /\ stack' = calls \o Tail(stack)
      /\ UNCHANGED <<mem, opt, batch, visit, gen>>
  BY DEF done, Top, Run, envVars
<1>2. FrameOK(a, mem, opt) /\ a[1] # "call_done"
  BY OtherFrames
<1> HIDE DEF a
<1>3. Plain(calls, mem, opt)
  BY <1>2, PlainFew
<1> HIDE DEF calls
<1> QED BY <1>1, <1>3, ShapeSame

\* The page or its embedded objects are to be fetched.
LEMMA IssuePageShape == Shape /\ IssuePage => Shape'
<1> SUFFICES ASSUME Shape, IssuePage PROVE Shape'
  OBVIOUS
<1> DEFINE s == Arg(1)  a == <<"create_embedded", s, QueueLeft(s)>>  b == <<"create_calls", s, 1>>
           calls == IF mem.sess[s].created > 0 THEN <<a>> ELSE <<b>>
<1>1. stack # <<>> /\ stack[1][1] = "issue_calls" /\ stack' = calls \o Tail(stack)
      /\ UNCHANGED <<mem, opt, batch, visit, gen>>
  BY DEF IssuePage, Top, Run, envVars
<1>2. s \in DOMAIN mem.sess
  BY <1>1, Args DEF SessCalls
<1>3. FrameOK(a, mem, opt) /\ a[1] # "call_done" /\ FrameOK(b, mem, opt) /\ b[1] # "call_done"
  BY <1>2, SessFrames
<1> HIDE DEF a, b
<1>4. Plain(calls, mem, opt)
  BY <1>3, PlainFew
<1> HIDE DEF calls
<1> QED BY <1>1, <1>4, ShapeSame

\* No call is left to be created.
LEMMA CallsCreatedShape == Shape /\ CallsCreated => Shape'
<1> SUFFICES ASSUME Shape, CallsCreated PROVE Shape'
  OBVIOUS
<1> DEFINE calls == <<>>
<1>1. stack # <<>> /\ stack[1][1] # "session_issue_call" /\ stack' = calls \o Tail(stack)
      /\ UNCHANGED <<mem, opt, batch, visit, gen>>
  BY DEF CallsCreated, Top, Return, Run, envVars
<1>2. Plain(calls, mem, opt)
  BY PlainFew
<1> HIDE DEF calls
<1> QED BY <1>1, <1>2, ShapeSame

\* The calls of a burst are counted, and created next.
LEMMA IssueBurstShape == Shape /\ IssueBurst => Shape'
<1> SUFFICES ASSUME Shape, IssueBurst PROVE Shape'
  OBVIOUS
<1> DEFINE s == Arg(1)  o == mem.sess[s]  n == ToCreate(s)
           r == [o EXCEPT !.created = @ + n]  a == <<"create_calls", s, n>>  calls == <<a>>
<1>1. stack # <<>> /\ stack[1][1] = "issue_calls" /\ UNCHANGED <<opt, batch, visit, gen>>
      /\ mem' = [mem EXCEPT !.sess[s].created = @ + n] /\ stack' = calls \o Tail(stack)
  BY DEF IssueBurst, Top, Run, envVars
<1>2. s \in DOMAIN mem.sess
  BY <1>1, Args DEF SessCalls
<1> HIDE DEF n
<1>3. FrameOK(a, mem, opt) /\ a[1] # "call_done"
  BY <1>2, SessFrames
<1>4. SessOK(o, mem, opt)
  BY <1>2 DEF Shape, MemOK
<1>5. o = [f \in SessFields |-> o[f]]
  BY <1>4 DEF SessOK
<1>6. r = [f \in SessFields |-> r[f]] /\ r.ref = o.ref /\ r.num = o.num /\ r.completed = o.completed
      /\ r.failed = o.failed /\ r.timer = o.timer /\ r.ci = o.ci
  BY <1>5 DEF SessFields
<1>7. mem' = [mem EXCEPT !.sess[s] = r]
  BY <1>1
<1> HIDE DEF a, r, o
<1>8. SessOK(r, mem, opt)
  BY <1>4, <1>6, SessChanged DEF SessOK
<1>9. Plain(calls, mem, opt)
  BY <1>3, PlainFew
<1> HIDE DEF calls, s
<1> QED BY <1>1, <1>2, <1>7, <1>8, <1>9, ShapeSess

\* An embedded URI is counted, and calls are issued.
LEMMA FetchUriShape == Shape /\ fetch_uri => Shape'
<1> SUFFICES ASSUME Shape, fetch_uri PROVE Shape'
  OBVIOUS
<1> DEFINE s == Arg(1)  o == mem.sess[s]
           r == [o EXCEPT !.uris = @ + 1]  a == <<"issue_calls", s>>  calls == <<a>>
<1>1. stack # <<>> /\ stack[1][1] = "fetch_uri" /\ UNCHANGED <<opt, batch, visit, gen>>
      /\ mem' = [mem EXCEPT !.sess[s].uris = @ + 1] /\ stack' = calls \o Tail(stack)
  BY DEF fetch_uri, Top, Run, envVars
<1>2. s \in DOMAIN mem.sess
  BY <1>1, Args DEF SessCalls
<1>3. FrameOK(a, mem, opt) /\ a[1] # "call_done"
  BY <1>2, SessFrames
<1>4. SessOK(o, mem, opt)
  BY <1>2 DEF Shape, MemOK
<1>5. o = [f \in SessFields |-> o[f]]
  BY <1>4 DEF SessOK
<1>6. r = [f \in SessFields |-> r[f]] /\ r.ref = o.ref /\ r.num = o.num /\ r.completed = o.completed
      /\ r.failed = o.failed /\ r.timer = o.timer /\ r.ci = o.ci
  BY <1>5 DEF SessFields
<1>7. mem' = [mem EXCEPT !.sess[s] = r]
  BY <1>1
<1> HIDE DEF a, r, o
<1>8. SessOK(r, mem, opt)
  BY <1>4, <1>6, SessChanged DEF SessOK
<1>9. Plain(calls, mem, opt)
  BY <1>3, PlainFew
<1> HIDE DEF calls, s
<1> QED BY <1>1, <1>2, <1>7, <1>8, <1>9, ShapeSess

\* The handler of EV_SESS_DESTROYED cancels the timer and counts the session.
LEMMA GenDestroyedShape == Shape /\ gen_sess_destroyed => Shape'
<1> SUFFICES ASSUME Shape, gen_sess_destroyed PROVE Shape'
  OBVIOUS
<1> DEFINE s == Arg(1)  o == mem.sess[s]  r == [o EXCEPT !.timer = FALSE]  calls == <<>>
           running == gen.running /\ gen.destroyed + 1 < NumSessions
           h == [gen EXCEPT !.destroyed = @ + 1, !.running = running]
<1>1. stack # <<>> /\ stack[1][1] = "gen_sess_destroyed" /\ UNCHANGED <<opt, batch, visit>>
      /\ mem' = [mem EXCEPT !.sess[s].timer = FALSE] /\ stack' = calls \o Tail(stack)
      /\ gen' = h
  BY DEF gen_sess_destroyed, Top, Return, Run, envVars
<1>2. s \in DOMAIN mem.sess
  BY <1>1, Args DEF SessCalls
<1>4. SessOK(o, mem, opt) /\ GenOK(gen)
  BY <1>2 DEF Shape, MemOK
<1>5. o = [f \in SessFields |-> o[f]]
  BY <1>4 DEF SessOK
<1>6. r = [f \in SessFields |-> r[f]] /\ r.ref = o.ref /\ r.num = o.num /\ r.completed = o.completed
      /\ r.failed = o.failed /\ r.timer = FALSE /\ r.ci = o.ci
  BY <1>5 DEF SessFields
<1>7. mem' = [mem EXCEPT !.sess[s] = r]
  BY <1>1
<1>8. running \in BOOLEAN
  BY <1>4 DEF GenOK
<1> HIDE DEF r, o, running
<1>9. h = [f \in DOMAIN gen |-> h[f]] /\ h.generated = gen.generated /\ h.destroyed = gen.destroyed + 1
      /\ h.running = running
  BY <1>4 DEF GenOK
<1> HIDE DEF h
<1>10. h.destroyed \in Nat /\ h.generated \in Nat
  BY <1>4, <1>9 DEF GenOK
<1>11. GenOK(h)
  BY <1>4, <1>8, <1>9, <1>10, GenChanged
<1>12. SessOK(r, mem, opt)
  BY <1>4, <1>6, SessChanged DEF SessOK
<1>13. Plain(calls, mem, opt)
  BY PlainFew
<1> HIDE DEF calls, s
<1> QED BY <1>1, <1>2, <1>7, <1>11, <1>12, <1>13, ShapeSess

\* A call has its session unless it is about to be issued.
LEMMA HasSession ==
  ASSUME Shape, stack # <<>>, stack[1][1] # "session_issue_call", NEW c \in DOMAIN mem.call
  PROVE  mem.call[c].sess \in DOMAIN mem.sess
<1>1. mem.call[c].sess # NULL
  BY DEF Shape, TopOK
<1>2. mem.call[c] \in CallRecs(mem)
  BY DEF Shape, MemOK
<1>3. mem.call[c].sess \in DOMAIN mem.sess \union {NULL}
  BY <1>2 DEF CallRecs
<1> QED BY <1>1, <1>3

\* The record of a new session
LEMMA NewSessOK ==
  ASSUME NEW m, opt \in Options, GenOK(gen), gen.generated < NumSessions
  PROVE  SessOK(NewSess, m, opt) /\ NewSess.ref = 1 /\ NewSess.num = gen.generated + 1
         /\ NewSess.failed = FALSE
<1> DEFINE r == NewSess
           target == CASE opt.gen = "wsess"    -> opt.burst
                       [] opt.gen = "wsesslog" -> templates[gen.template][1]
                       [] OTHER                -> 0
           ci == [i \in 1..opt.conns |-> ConnInfo]
           num == gen.generated + 1
<1>0. r = [ref |-> 1, num |-> num, failed |-> FALSE, timer |-> FALSE, ci |-> ci, completed |-> 0,
           created |-> 0, destroyed |-> 0, target |-> target, template |-> gen.template,
           burst |-> 1, req |-> 1, uris |-> 0, fetched |-> 0]
  BY DEF NewSess
<1>1. opt.conns \in Nat /\ opt.piped \in Nat
  BY OptionsAssumption
<1>2. ConnInfo \in Rings(m) /\ ConnInfo.sent = 0 /\ Len(ConnInfo.pending) = 0
  <2>1. <<>> \in Seq(DOMAIN m.call)
    BY EmptySeq
  <2> QED BY <2>1 DEF ConnInfo, Rings
<1>3. num \in 1..NumSessions
  BY SessionsAssumption DEF GenOK
<1> HIDE DEF target, r, num
<1>4. ci \in [1..opt.conns -> Rings(m)] /\ \A i \in 1..opt.conns : ci[i] = ConnInfo
  BY <1>2
<1> HIDE DEF ci
<1>5. r = [f \in SessFields |-> r[f]]
  BY <1>0 DEF SessFields
<1>6. r.ref = 1 /\ r.num = num /\ r.failed = FALSE /\ r.timer = FALSE /\ r.ci = ci /\ r.completed = 0
  BY <1>0
<1>7. 0 \in Nat /\ 1 \in Nat /\ FALSE \in BOOLEAN /\ 0 <= opt.piped
  BY <1>1
<1> DEFINE info == ConnInfo
<1> HIDE DEF info
<1>8. \A i \in 1..opt.conns : r.ci[i].sent <= Len(r.ci[i].pending) /\ Len(r.ci[i].pending) <= opt.piped
  <2>1. \A i \in 1..opt.conns : r.ci[i] = info
    BY <1>4, <1>6 DEF info
  <2>2. info.sent <= Len(info.pending) /\ Len(info.pending) <= opt.piped
    BY <1>2, <1>7 DEF info
  <2> QED BY <2>1, <2>2
<1>9. SessOK(r, m, opt)
  BY <1>3, <1>4, <1>5, <1>6, <1>7, <1>8 DEF SessOK
<1> QED BY <1>6, <1>9 DEF r, num

\* sess_create makes a session with no connection, and goes on to issue its calls.
LEMMA SessCreateShape == Shape /\ sess_create => Shape'
<1> SUFFICES ASSUME Shape, sess_create PROVE Shape'
  OBVIOUS
<1>1. stack # <<>> /\ stack[1][1] = "sess_create" /\ UNCHANGED <<opt, batch>>
  BY DEF sess_create, Top, envVars
<1>2. GenOK(gen) /\ MemOK(mem, opt) /\ opt \in Options /\ visit \in [1..NumSessions -> VisitRecs]
  BY DEF Shape
<1>3. CASE gen.generated >= NumSessions
  <2> DEFINE calls == <<>>  h == [gen EXCEPT !.generated = @ + 1, !.done = TRUE]
  <2>1. stack' = calls \o Tail(stack) /\ UNCHANGED <<mem, visit>> /\ gen' = h
    BY <1>3 DEF sess_create, Return, Run
  <2>2. h = [f \in DOMAIN gen |-> h[f]] /\ h.generated = gen.generated + 1
        /\ h.destroyed = gen.destroyed /\ h.running = gen.running
    BY <1>2 DEF GenOK
  <2> HIDE DEF h
  <2>3. h.generated \in Nat
    BY <1>2, <2>2 DEF GenOK
  <2>4. GenOK(h)
    BY <1>2, <2>2, <2>3, GenChanged DEF GenOK
  <2>5. Plain(calls, mem, opt)
    BY PlainFew
  <2> HIDE DEF calls
  <2> QED BY <1>1, <2>1, <2>4, <2>5, ShapeSame
<1>4. CASE ~(gen.generated >= NumSessions)
  <2> DEFINE s == New("sess")  o == NewSess  n == object_new(mem, "sess", o)
             t == IF gen.template >= Len(templates) THEN 1 ELSE gen.template + 1
             h == [gen EXCEPT !.generated = @ + 1, !.template = t]
             v == gen.generated + 1  w == [visit[v] EXCEPT !.phase = "open"]
             a == <<"issue_calls", s>>  b == <<"not_done">>  calls == <<a, b>>
  <2>1. stack' = calls \o Tail(stack) /\ gen' = h /\ mem' = n
        /\ visit' = [visit EXCEPT ![v].phase = "open"]
    BY <1>4 DEF sess_create, Run
  <2>2. gen.generated < NumSessions
    BY <1>2, <1>4, SessionsAssumption DEF GenOK
  <2> HIDE DEF t
  <2>3. h = [f \in DOMAIN gen |-> h[f]] /\ h.generated = gen.generated + 1
        /\ h.destroyed = gen.destroyed /\ h.running = gen.running
    BY <1>2 DEF GenOK
  <2> HIDE DEF h
  <2>4. GenOK(h)
    <3>1. h.generated \in Nat
      BY <1>2, <2>3 DEF GenOK
    <3> QED BY <1>2, <2>3, <3>1, GenChanged DEF GenOK
  <2> HIDE DEF s, n, o
  <2>5. Allocated(mem, n, "sess", s, o)
    BY <1>2, Allocates DEF n, s, Types
  <2>6. MemOK(n, opt) /\ Within(mem, n)
    <3>1. SessOK(o, n, opt)
      BY <1>2, <2>2, NewSessOK DEF o
    <3>2. Fits("sess", o, n, opt)
      BY <3>1 DEF Fits
    <3>3. "sess" \in Types
      BY DEF Types
    <3> QED BY <1>2, <2>5, <3>2, <3>3, AllocatedOK
  <2>7. s \in DOMAIN n.sess /\ n.call = mem.call
    BY <2>5 DEF Allocated, Types
  <2>8. FrameOK(a, n, opt) /\ a[1] # "call_done" /\ FrameOK(b, n, opt) /\ b[1] \notin AtOnce
    BY <2>7, SessFrames, OtherFrames
  <2> HIDE DEF a, b
  <2>9. Plain(calls, n, opt)
    BY <2>8, PlainFew
  <2>10. visit' \in [1..NumSessions -> VisitRecs]
    <3>1. v \in 1..NumSessions
      BY <1>2, <2>2, SessionsAssumption DEF GenOK
    <3>2. visit[v] \in VisitRecs
      BY <1>2, <3>1
    <3>3. w = [f \in DOMAIN visit[v] |-> w[f]] /\ w.phase = "open" /\ w.issued = visit[v].issued
          /\ w.answered = visit[v].answered /\ w.replies = visit[v].replies
      BY <3>2 DEF VisitRecs
    <3>4. visit' = [visit EXCEPT ![v] = w]
      BY <2>1
    <3> HIDE DEF w, v
    <3>5. w \in VisitRecs
      BY <3>2, <3>3, VisitChanged DEF VisitRecs
    <3> QED BY <1>2, <3>1, <3>4, <3>5
  <2>11. \A c \in DOMAIN n.call : c \in DOMAIN mem.call /\ n.call[c].sess = mem.call[c].sess
    BY <2>7
  <2>12. stack[1][1] # "session_issue_call"
    BY <1>1
  <2> HIDE DEF calls, v
  <2> QED BY <1>1, <2>1, <2>4, <2>6, <2>9, <2>10, <2>11, <2>12, ShapeStep
<1> QED BY <1>3, <1>4

\* A call of a destroyed session is counted, and the session finishes, goes on or thinks.
LEMMA CallDestroyedShape == Shape /\ call_destroyed => Shape'
<1> SUFFICES ASSUME Shape, call_destroyed PROVE Shape'
  OBVIOUS
<1> DEFINE s == mem.call[Arg(1)].sess
           count == IF opt.gen = "wsesslog" /\ mem.sess[s].failed
                    THEN mem.sess[s].destroyed ELSE mem.sess[s].destroyed + 1
           p == mem.sess[s]
           o == [p EXCEPT !.destroyed = count]
           decision == CASE opt.gen = "wsess"     -> WsessDecision(o)
                         [] opt.gen = "wsesslog"  -> WsesslogDecision(o)
                         [] opt.gen = "wsesspage" -> WsesspageDecision(o)
           r == IF decision = "think" THEN Thinking(o) ELSE o
           a == DecRef("sess", s)  b == <<"issue_calls", s>>
           calls == CASE decision = "finish" -> <<a>>
                      [] decision = "issue"  -> <<b>>
                      [] OTHER               -> <<>>
<1>1. stack # <<>> /\ stack[1][1] = "call_destroyed" /\ UNCHANGED <<opt, batch, visit, gen>>
  BY DEF call_destroyed, Top, envVars
<1>2. mem' = [mem EXCEPT !.sess[s] = r] /\ stack' = calls \o Tail(stack)
  BY DEF call_destroyed, Run
<1>3. s \in DOMAIN mem.sess
  BY <1>1, Args, HasSession DEF CallCalls
<1>4. SessOK(p, mem, opt)
  BY <1>3 DEF Shape, MemOK
<1>5. p = [f \in SessFields |-> p[f]]
  BY <1>4 DEF SessOK
<1> HIDE DEF count, p
<1>6. o = [f \in SessFields |-> o[f]] /\ o.ref = p.ref /\ o.num = p.num /\ o.completed = p.completed
      /\ o.failed = p.failed /\ o.timer = p.timer /\ o.ci = p.ci
  BY <1>5 DEF SessFields
<1> HIDE DEF o
<1>7. SessOK(o, mem, opt)
  BY <1>4, <1>6, SessChanged DEF SessOK
<1> DEFINE w == Thinking(o)
<1>8. w = [f \in SessFields |-> w[f]] /\ w.ref = o.ref /\ w.num = o.num /\ w.completed = o.completed
      /\ w.failed = o.failed /\ w.timer = TRUE /\ w.ci = o.ci
  <2> DEFINE burst == IF opt.gen = "wsesslog" THEN o.burst + 1 ELSE o.burst
             target == o.target + (CASE opt.gen = "wsess"    -> opt.burst
                              [] opt.gen = "wsesslog" -> templates[o.template][o.burst + 1]
                              [] OTHER                -> 0)
             fetched == o.fetched + 1
  <2>1. w = [o EXCEPT !.timer = TRUE, !.created = 0, !.req = 1, !.burst = burst,
                      !.target = target, !.fetched = fetched]
    BY DEF Thinking
  <2> HIDE DEF burst, target, fetched, w
  <2> QED BY <1>6, <2>1 DEF SessFields
<1> HIDE DEF w
<1>9. SessOK(w, mem, opt)
  BY <1>7, <1>8, SessChanged DEF SessOK
<1>10. SessOK(r, mem, opt)
  BY <1>7, <1>9 DEF w
<1>11. FrameOK(a, mem, opt) /\ a[1] # "call_done" /\ FrameOK(b, mem, opt) /\ b[1] # "call_done"
  BY <1>3, SessFrames, DecRefFrame DEF Types
<1> HIDE DEF a, b, decision, r, s
<1>12. Plain(calls, mem, opt)
  BY <1>11, PlainFew
<1> HIDE DEF calls
<1>13. stack[1][1] # "session_issue_call"
  BY <1>1
<1> QED BY <1>1, <1>2, <1>3, <1>10, <1>12, <1>13, ShapeSess

\* A call is created, and issued first of all: until then it has no session.
LEMMA CreateCallShape ==
  ASSUME Shape, stack # <<>>, stack[1][1] # "session_issue_call", NEW s \in DOMAIN mem.sess,
         NEW o, SessOK(o, mem, opt), NEW links \in Nat, NEW b, FrameOK(b, mem, opt), b[1] \notin AtOnce,
         CreateCall(s, o, links, <<b>>), UNCHANGED <<opt, batch, gen>>
  PROVE  Shape'
<1> DEFINE c == New("call")
           call == [ref |-> 1, sess |-> NULL, conn |-> NULL, links |-> links,
                    cut |-> FALSE, whole |-> TRUE]
           m == object_new(mem, "call", call)  n == [m EXCEPT !.sess[s] = o]
           a == <<"session_issue_call", s, c>>  d == DecRef("call", c)
           v == o.num  w == [visit[v] EXCEPT !.issued = @ + 1]
           calls == <<a, d, b>>  p == Pushed(calls, stack)
<1>1. mem' = n /\ stack' = <<a, d>> \o <<b>> \o Tail(stack)
      /\ visit' = [visit EXCEPT ![v].issued = @ + 1]
  BY DEF CreateCall, Run
<1>2. MemOK(mem, opt) /\ visit \in [1..NumSessions -> VisitRecs] /\ TopOK(stack, mem)
      /\ StackOK(stack, mem, opt)
  BY DEF Shape
<1> HIDE DEF c, m
<1>3. Allocated(mem, m, "call", c, call)
  BY <1>2, Allocates DEF m, c, Types
<1>4. MemOK(m, opt) /\ Within(mem, m)
  <2>1. call \in CallRecs(m)
    BY DEF CallRecs
  <2> HIDE DEF call
  <2>2. Fits("call", call, m, opt)
    BY <2>1 DEF Fits
  <2>3. "call" \in Types
    BY DEF Types
  <2> QED BY <1>2, <1>3, <2>2, <2>3, AllocatedOK
<1> HIDE DEF call
<1>5. s \in DOMAIN m.sess /\ c \in DOMAIN m.call /\ DOMAIN m.call = DOMAIN mem.call \union {c}
      /\ \A x \in DOMAIN mem.call \ {c} : m.call[x] = mem.call[x]
  BY <1>3 DEF Allocated, Types
<1>6. SessOK(o, m, opt)
  BY <1>4, CellsGrow
<1>7. MemOK(n, opt) /\ Within(m, n)
  BY <1>4, <1>5, <1>6, PutOK
<1>8. n.call = m.call
  BY <1>4 DEF MemOK
<1> HIDE DEF n
<1>9. Within(mem, n) /\ s \in DOMAIN n.sess /\ c \in DOMAIN n.call
  BY <1>4, <1>5, <1>7 DEF Within, Types
<1>10. FrameOK(a, n, opt) /\ FrameOK(d, n, opt) /\ d[1] \notin AtOnce /\ FrameOK(b, n, opt)
  BY <1>9, SessFrames, DecRefFrame, FramesGrow DEF Types
<1>11. a[1] = "session_issue_call" /\ a[3] = c
  OBVIOUS
<1> HIDE DEF a, d
<1>12. CallsOK(calls, n, opt)
  BY <1>10, CallsFew
<1>13. stack' = p
  <2>1. Cat(<<a, d>>, <<b>>) = calls
    BY JoinFew
  <2> QED BY <1>1, <2>1 DEF Cat, Pushed
<1>14. TopOK(p, n)
  <2>1. Sized(calls) /\ Len(calls) = 3 /\ calls[1] = a
    BY SizedFew
  <2>2. Sized(stack) /\ Len(stack) \in Nat /\ Len(stack) # 0
    BY <1>2, SizedLen DEF StackOK
  <2> HIDE DEF calls
  <2>3. Sized(p) /\ Len(p) = Len(calls) + Len(stack) - 1 /\ \A i \in 1..Len(calls) : p[i] = calls[i]
    BY <2>1, <2>2, PushedAt
  <2> HIDE DEF p
  <2>4. p # <<>> /\ p[1] = a
    BY <2>1, <2>2, <2>3, SizedLen
  <2>5. \A x \in DOMAIN n.call : n.call[x].sess = NULL => x = c
    BY <1>2, <1>5, <1>8 DEF TopOK
  <2> QED BY <1>11, <2>4, <2>5 DEF TopOK
<1>15. visit' \in [1..NumSessions -> VisitRecs]
  <2>1. v \in 1..NumSessions
    BY DEF SessOK
  <2> HIDE DEF v
  <2>2. visit[v] \in VisitRecs
    BY <1>2, <2>1
  <2>3. w = [f \in DOMAIN visit[v] |-> w[f]] /\ w.phase = visit[v].phase /\ w.issued = visit[v].issued + 1
        /\ w.answered = visit[v].answered /\ w.replies = visit[v].replies
    BY <2>2 DEF VisitRecs
  <2>4. visit' = [visit EXCEPT ![v] = w]
    BY <1>1
  <2> HIDE DEF w
  <2>5. w.issued \in Nat
    BY <2>2, <2>3 DEF VisitRecs
  <2>6. w \in VisitRecs
    BY <2>2, <2>3, <2>5, VisitChanged DEF VisitRecs
  <2> QED BY <1>2, <2>1, <2>4, <2>6
<1> HIDE DEF calls, p
<1>16. opt' = opt /\ batch' = batch /\ gen' = gen
  OBVIOUS
<1>17. stack' = Pushed(calls, stack) /\ TopOK(Pushed(calls, stack), n)
  BY <1>13, <1>14 DEF p
<1> QED BY <1>1, <1>7, <1>9, <1>12, <1>15, <1>16, <1>17, ShapeCall

\* The next call of a burst, or the page.
LEMMA CreateInBurstShape == Shape /\ CreateInBurst => Shape'
<1> SUFFICES ASSUME Shape, CreateInBurst PROVE Shape'
  OBVIOUS
<1> DEFINE s == Arg(1)  o == mem.sess[s]  n == Arg(2) - 1
           created == IF opt.gen = "wsesspage" THEN o.created + 1 ELSE o.created
           r == [o EXCEPT !.created = created, !.req = @ + 1]  b == <<"create_calls", s, n>>
<1>1. stack # <<>> /\ stack[1][1] = "create_calls" /\ CreateCall(s, r, opt.links, <<b>>)
      /\ UNCHANGED <<opt, batch, gen>>
  BY DEF CreateInBurst, Top, envVars
<1>2. s \in DOMAIN mem.sess
  BY <1>1, Args DEF SessCalls
<1>3. SessOK(o, mem, opt) /\ opt.links \in Nat
  BY <1>2, OptionsAssumption DEF Shape, MemOK
<1> HIDE DEF created, n
<1>4. r = [f \in SessFields |-> r[f]] /\ r.ref = o.ref /\ r.num = o.num /\ r.completed = o.completed
      /\ r.failed = o.failed /\ r.timer = o.timer /\ r.ci = o.ci
  BY <1>3 DEF SessFields, SessOK
<1> HIDE DEF r, o
<1>5. SessOK(r, mem, opt)
  BY <1>3, <1>4, SessChanged DEF SessOK
<1>6. FrameOK(b, mem, opt) /\ b[1] \notin AtOnce
  BY <1>2, SessFrames
<1>7. stack[1][1] # "session_issue_call"
  BY <1>1
<1> HIDE DEF b, s
<1> QED BY <1>1, <1>2, <1>3, <1>5, <1>6, <1>7, CreateCallShape

\* The next embedded object
LEMMA CreateEmbeddedShape == Shape /\ CreateEmbedded => Shape'
<1> SUFFICES ASSUME Shape, CreateEmbedded PROVE Shape'
  OBVIOUS
<1> DEFINE s == Arg(1)  o == mem.sess[s]  n == Arg(2) - 1
           r == [o EXCEPT !.created = @ + 1, !.uris = @ - 1]  b == <<"create_embedded", s, n>>
<1>1. stack # <<>> /\ stack[1][1] = "create_embedded" /\ CreateCall(s, r, 0, <<b>>)
      /\ UNCHANGED <<opt, batch, gen>>
  BY DEF CreateEmbedded, Top, envVars
<1>2. s \in DOMAIN mem.sess
  BY <1>1, Args DEF SessCalls
<1>3. SessOK(o, mem, opt) /\ 0 \in Nat
  BY <1>2 DEF Shape, MemOK
<1> HIDE DEF n
<1>4. r = [f \in SessFields |-> r[f]] /\ r.ref = o.ref /\ r.num = o.num /\ r.completed = o.completed
      /\ r.failed = o.failed /\ r.timer = o.timer /\ r.ci = o.ci
  BY <1>3 DEF SessFields, SessOK
<1> HIDE DEF r, o
<1>5. SessOK(r, mem, opt)
  BY <1>3, <1>4, SessChanged DEF SessOK
<1>6. FrameOK(b, mem, opt) /\ b[1] \notin AtOnce
  BY <1>2, SessFrames
<1>7. stack[1][1] # "session_issue_call"
  BY <1>1
<1> HIDE DEF b, s
<1> QED BY <1>1, <1>2, <1>3, <1>5, <1>6, <1>7, CreateCallShape

\* do_recv goes on through what has been read.
LEMMA DoRecvShape == Shape /\ do_recv /\ verdict' = "none" => Shape'
<1> SUFFICES ASSUME Shape, do_recv, verdict' = "none" PROVE Shape'
  OBVIOUS
<1> DEFINE k == Arg(1)  n == Arg(2) - 1  after == Arg(3)
           conn == mem.conn[k]  q == conn.recvq  c == Head(q)
<1>1. stack # <<>> /\ stack[1][1] = "do_recv" /\ stack[1][1] # "session_issue_call"
      /\ UNCHANGED <<opt, batch, visit, gen>>
  BY DEF do_recv, Top
<1>2. k \in DOMAIN mem.conn
  BY <1>1, Args DEF ConnCalls
<1>3. conn \in Conns(mem, opt) /\ q \in Seq(DOMAIN mem.call)
  BY <1>2 DEF Shape, MemOK, Conns
<1>4. \/ /\ mem' = [mem EXCEPT !.conn[k].mask = IF q # <<>> /\ conn.state \in Open THEN "in" ELSE @]
         /\ stack' = <<>> \o Tail(stack)
      \/ /\ q # <<>> /\ mem.call[c].links > 0 /\ mem' = [mem EXCEPT !.call[c].links = @ - 1]
         /\ stack' = <<<<"fetch_uri", mem.call[c].sess>>, <<"do_recv", k, n, "link">>>> \o Tail(stack)
      \/ /\ q # <<>> /\ mem' = mem
         /\ \E bad \in BOOLEAN :
              stack' = <<<<"recv_done", c, bad>>, <<"do_recv", k, n, "reply">>>> \o Tail(stack)
  BY DEF do_recv, Return, Run
<1>5. CASE /\ mem' = [mem EXCEPT !.conn[k].mask = IF q # <<>> /\ conn.state \in Open THEN "in" ELSE @]
           /\ stack' = <<>> \o Tail(stack)
  <2> DEFINE mask == IF q # <<>> /\ conn.state \in Open THEN "in" ELSE conn.mask
             r == [conn EXCEPT !.mask = mask]  calls == <<>>
  <2>1. mem' = [mem EXCEPT !.conn[k] = r] /\ stack' = calls \o Tail(stack)
    BY <1>5
  <2>2. mask \in {"in", "out"}
    BY <1>3 DEF Conns
  <2> HIDE DEF mask
  <2>3. r \in Conns(mem, opt)
    BY <1>3, <2>2 DEF Conns
  <2> HIDE DEF r
  <2>4. Plain(calls, mem, opt)
    BY PlainFew
  <2> HIDE DEF calls, k
  <2> QED BY <1>1, <1>2, <2>1, <2>3, <2>4, ShapeConn
<1>6. CASE /\ q # <<>> /\ mem.call[c].links > 0 /\ mem' = [mem EXCEPT !.call[c].links = @ - 1]
           /\ stack' = <<<<"fetch_uri", mem.call[c].sess>>, <<"do_recv", k, n, "link">>>> \o Tail(stack)
  <2> DEFINE o == mem.call[c]  s == o.sess  r == [o EXCEPT !.links = @ - 1]
             a == <<"fetch_uri", s>>  b == <<"do_recv", k, n, "link">>  calls == <<a, b>>
  <2>1. mem' = [mem EXCEPT !.call[c] = r] /\ stack' = calls \o Tail(stack)
    BY <1>6
  <2>2. c \in DOMAIN mem.call
    BY <1>3, <1>6, HeadTailProperties
  <2> HIDE DEF c
  <2>3. s \in DOMAIN mem.sess
    BY <1>1, <2>2, HasSession
  <2>4. o \in CallRecs(mem) /\ o.links > 0
    BY <1>6, <2>2 DEF Shape, MemOK
  <2>5. r \in CallRecs(mem) /\ r.sess = s
    BY <2>4 DEF CallRecs
  <2>6. FrameOK(a, mem, opt) /\ a[1] # "call_done" /\ FrameOK(b, mem, opt)
    BY <1>2, <2>3, SessFrames, OtherFrames
  <2>7. b[1] \notin AtOnce
    BY DEF AtOnce
  <2> HIDE DEF a, b, r
  <2>8. Plain(calls, mem, opt)
    BY <2>6, <2>7, PlainFew
  <2> HIDE DEF calls
  <2> QED BY <1>1, <2>1, <2>2, <2>5, <2>8, ShapeCell
<1>7. ASSUME q # <<>>, mem' = mem, NEW bad \in BOOLEAN,
             stack' = <<<<"recv_done", c, bad>>, <<"do_recv", k, n, "reply">>>> \o Tail(stack)
      PROVE  Shape'
  <2> DEFINE a == <<"recv_done", c, bad>>  b == <<"do_recv", k, n, "reply">>  calls == <<a, b>>
  <2>1. stack' = calls \o Tail(stack)
    BY <1>7
  <2>2. c \in DOMAIN mem.call
    BY <1>3, <1>7, HeadTailProperties
  <2> HIDE DEF c
  <2>3. FrameOK(a, mem, opt) /\ FrameOK(b, mem, opt)
    BY <1>2, <2>2, OtherFrames
  <2>4. b[1] \notin AtOnce /\ a[1] # "call_done"
    BY DEF AtOnce
  <2> HIDE DEF a, b
  <2>5. Plain(calls, mem, opt)
    BY <2>3, <2>4, PlainFew
  <2> HIDE DEF calls
  <2> QED BY <1>1, <1>7, <2>1, <2>5, ShapeSame
<1> QED BY <1>4, <1>5, <1>6, <1>7

-----------------------------------------------------------------------------
(* The loop keeps the shape. *)

\* The loop makes the first calls.
LEMMA ShapeStart ==
  ASSUME Shape, stack = <<>>, NEW calls, NEW n, mem' = n, Plain(calls, n, opt),
         stack' = calls, opt' = opt, MemOK(n, opt), Within(mem, n),
         \A c \in DOMAIN n.call : c \in DOMAIN mem.call /\ n.call[c].sess = mem.call[c].sess,
         NEW b \in Seq(Events(mem)), batch' = b, visit' = visit, gen' = gen
  PROVE  Shape'
<1>1. StackOK(calls, n, opt)
  <2>1. Sized(calls) /\ Len(calls) \in Nat
    BY SizedLen DEF Plain, CallsOK
  <2>2. \A i \in 1..Len(calls) : FrameOK(calls[i], n, opt) /\ (i > 1 => calls[i][1] \notin AtOnce)
    BY DEF Plain, CallsOK
  <2>3. \A i \in 2..Len(calls) : i \in 1..Len(calls) /\ i > 1
    BY <2>1
  <2> QED BY <2>1, <2>2, <2>3 DEF StackOK
<1>2. TopOK(calls, n)
  <2>1. \A c \in DOMAIN n.call : n.call[c].sess # NULL
    BY DEF Shape, TopOK
  <2>2. calls # <<>> => calls[1][1] # "call_done"
    <3>1. Sized(calls)
      BY DEF Plain, CallsOK
    <3>2. calls # <<>> => 1 \in 1..Len(calls)
      BY <3>1, SizedLen
    <3> QED BY <3>2 DEF Plain
  <2> QED BY <2>1, <2>2 DEF TopOK
<1>3. b \in Seq(Events(n))
  <2>1. Events(mem) \subseteq Events(n)
    BY CellsGrow
  <2> QED BY <2>1, SeqGrows
<1>4. opt \in Options /\ visit \in [1..NumSessions -> VisitRecs] /\ GenOK(gen)
  BY DEF Shape
<1> HIDE DEF Events
<1>5. batch' \in Seq(Events(mem'))
  BY <1>3
<1> QED BY <1>1, <1>2, <1>4, <1>5 DEF Shape

\* The tick creates the next session.
LEMMA RateTickShape == Shape /\ RateTick => Shape'
<1> SUFFICES ASSUME Shape, RateTick PROVE Shape'
  OBVIOUS
<1> DEFINE a == <<"sess_create">>  calls == <<a>>
<1>1. stack = <<>> /\ stack' = calls /\ UNCHANGED <<mem, opt, batch, visit, gen>>
  BY DEF RateTick, AtTop, Idle, envVars
<1>2. FrameOK(a, mem, opt) /\ a[1] # "call_done"
  BY OtherFrames
<1> HIDE DEF a
<1>3. Plain(calls, mem, opt)
  BY <1>2, PlainFew
<1> HIDE DEF calls
<1>4. MemOK(mem, opt) /\ Within(mem, mem) /\ batch \in Seq(Events(mem))
  BY DEF Shape, Within
<1> QED BY <1>1, <1>3, <1>4, ShapeStart

\* The think time of a session is over.
LEMMA ThinkTimeShape == Shape /\ user_think_time_expired => Shape'
<1> SUFFICES ASSUME Shape, user_think_time_expired PROVE Shape'
  OBVIOUS
<1>1. stack = <<>> /\ UNCHANGED <<opt, batch, visit, gen>>
  BY DEF user_think_time_expired, AtTop, Idle, envVars
<1>2. PICK s \in DOMAIN mem.sess : mem' = SetSess(s, "timer", FALSE) /\ stack' = <<<<"issue_calls", s>>>>
  BY DEF user_think_time_expired
<1> DEFINE o == mem.sess[s]  r == [o EXCEPT !.timer = FALSE]  n == [mem EXCEPT !.sess[s] = r]
           a == <<"issue_calls", s>>  calls == <<a>>
<1>3. mem' = n /\ stack' = calls
  BY <1>2 DEF SetSess
<1>4. MemOK(mem, opt) /\ SessOK(o, mem, opt) /\ batch \in Seq(Events(mem))
  BY DEF Shape, MemOK
<1>5. r = [f \in SessFields |-> r[f]] /\ r.ref = o.ref /\ r.num = o.num /\ r.completed = o.completed
      /\ r.failed = o.failed /\ r.timer = FALSE /\ r.ci = o.ci
  BY <1>4 DEF SessFields, SessOK
<1> HIDE DEF r, o
<1>6. SessOK(r, mem, opt)
  BY <1>4, <1>5, SessChanged DEF SessOK
<1>7. MemOK(n, opt) /\ Within(mem, n)
  BY <1>4, <1>6, PutOK
<1>8. n.call = mem.call
  BY <1>4 DEF MemOK
<1> HIDE DEF n
<1>9. FrameOK(a, n, opt) /\ a[1] # "call_done"
  <2>1. s \in DOMAIN n.sess
    BY <1>7 DEF Within, Types
  <2> QED BY <2>1, SessFrames
<1> HIDE DEF a
<1>10. Plain(calls, n, opt)
  BY <1>9, PlainFew
<1> HIDE DEF calls
<1> QED BY <1>1, <1>3, <1>4, <1>7, <1>8, <1>10, ShapeStart

\* A connection's watchdog fails its session and closes it.
LEMMA WatchdogShape == Shape /\ WatchdogExpired => Shape'
<1> SUFFICES ASSUME Shape, WatchdogExpired PROVE Shape'
  OBVIOUS
<1>1. stack = <<>> /\ UNCHANGED <<mem, opt, batch, visit, gen>>
  BY DEF WatchdogExpired, AtTop, Idle
<1>2. PICK k \in DOMAIN mem.conn : stack' = <<<<"conn_timeout", k>>, <<"core_close", k>>>>
  BY DEF WatchdogExpired, Used
<1> DEFINE a == <<"conn_timeout", k>>  b == <<"core_close", k>>  calls == <<a, b>>
<1>3. FrameOK(a, mem, opt) /\ a[1] # "call_done" /\ FrameOK(b, mem, opt) /\ b[1] \notin AtOnce
  BY OtherFrames
<1>4. stack' = calls
  BY <1>2
<1> HIDE DEF a, b
<1>5. Plain(calls, mem, opt)
  BY <1>3, PlainFew
<1> HIDE DEF calls
<1>6. MemOK(mem, opt) /\ Within(mem, mem) /\ batch \in Seq(Events(mem))
  BY DEF Shape, Within
<1> QED BY <1>1, <1>4, <1>5, <1>6, ShapeStart

\* epoll_wait returns events of connections there are.
LEMMA EpollShape == Shape /\ epoll_wait => Shape'
<1> SUFFICES ASSUME Shape, epoll_wait PROVE Shape'
  OBVIOUS
<1>1. stack = <<>> /\ UNCHANGED <<stack, mem, opt, visit, gen>>
  BY DEF epoll_wait, AtTop, Idle
<1>2. PICK n \in 1..opt.batch : \E conns \in [1..n -> Used("conn")] :
         batch' = [i \in 1..n |-> Event(conns[i])]
  BY DEF epoll_wait
<1>3. PICK conns \in [1..n -> Used("conn")] : batch' = [i \in 1..n |-> Event(conns[i])]
  BY <1>2
<1>4. n \in Nat
  BY OptionsAssumption DEF Shape
<1>5. \A i \in 1..n : Event(conns[i]) \in Events(mem)
  <2> TAKE i \in 1..n
  <2> DEFINE k == conns[i]
  <2>1. k \in DOMAIN mem.conn
    BY DEF Used
  <2> HIDE DEF k
  <2>2. mem.conn[k].mask \in {"in", "out"}
    BY <2>1 DEF Shape, MemOK, Conns
  <2>3. Event(k) \in Events(mem)
    BY <2>1, <2>2 DEF Event, Events
  <2> QED BY <2>3 DEF k
<1> DEFINE b == [i \in 1..n |-> Event(conns[i])]
<1>6. b \in [1..n -> Events(mem)]
  BY <1>5
<1> HIDE DEF b
<1>7. b \in Seq(Events(mem))
  BY <1>4, <1>6, SeqDef
<1>8. batch' = b
  BY <1>3 DEF b
<1> DEFINE calls == <<>>
<1>9. Plain(calls, mem, opt)
  BY PlainFew
<1>10. stack = calls /\ stack' = calls
  BY <1>1
<1> HIDE DEF calls
<1>11. MemOK(mem, opt) /\ Within(mem, mem)
  BY DEF Shape, Within
<1> QED BY <1>1, <1>7, <1>8, <1>9, <1>10, <1>11, ShapeStart

\* An event's frames, with the loop's own reference given up last.
LEMMA AppendFew ==
  /\ \A d : Append(<<>>, d) = <<d>>
  /\ \A a, d : Append(<<a>>, d) = <<a, d>>
  /\ \A a, b, d : Append(<<a, b>>, d) = <<a, b, d>>
<1>1. ASSUME NEW S, NEW q \in Seq(S), NEW d \in S PROVE Append(q, d) = Cat(q, <<d>>)
  BY AppendIsConcat DEF Cat
<1>2. ASSUME NEW d PROVE Append(<<>>, d) = <<d>>
  <2>1. <<>> \in Seq({d}) /\ d \in {d}
    BY EmptySeq
  <2>2. Append(<<>>, d) = Cat(<<>>, <<d>>)
    BY <1>1, <2>1
  <2> QED BY <2>2, JoinFew
<1>3. ASSUME NEW a, NEW d PROVE Append(<<a>>, d) = <<a, d>>
  <2>1. <<a>> \in Seq({a, d}) /\ d \in {a, d}
    OBVIOUS
  <2>2. Append(<<a>>, d) = Cat(<<a>>, <<d>>)
    BY <1>1, <2>1
  <2> QED BY <2>2, JoinFew
<1>4. ASSUME NEW a, NEW b, NEW d PROVE Append(<<a, b>>, d) = <<a, b, d>>
  <2>1. <<a, b>> \in Seq({a, b, d}) /\ d \in {a, b, d}
    OBVIOUS
  <2>2. Append(<<a, b>>, d) = Cat(<<a, b>>, <<d>>)
    BY <1>1, <2>1
  <2> QED BY ZenonT(60), <2>2, JoinFew
<1> QED BY <1>2, <1>3, <1>4

\* The loop handles an event: the connection is referenced while it does.
LEMMA HandleShape ==
  ASSUME Shape, NEW for, NEW m, NEW calls, Handle(for, m, calls), MemOK(m, opt), Within(mem, m),
         \A c \in DOMAIN m.call : c \in DOMAIN mem.call /\ m.call[c].sess = mem.call[c].sess,
         Plain(Append(calls, DecRef("conn", EventConn)), mem, opt), UNCHANGED <<opt, visit, gen>>
  PROVE  Shape'
<1> DEFINE k == EventConn  b == Tail(batch)  all == Append(calls, DecRef("conn", k))
           conn == m.conn[k]  r == [conn EXCEPT !.ref = @ + 1]  n == [m EXCEPT !.conn[k] = r]
<1>1. stack = <<>> /\ stack' = all /\ mem' = n /\ batch # <<>> /\ batch' = b
  BY DEF Handle, Idle, EventConn
<1>2. batch \in Seq(Events(mem))
  BY DEF Shape
<1>3. b \in Seq(Events(mem)) /\ Head(batch) \in Events(mem)
  BY <1>1, <1>2, HeadTailProperties
<1>4. k \in DOMAIN mem.conn
  BY <1>3 DEF Events, EventConn
<1>5. k \in DOMAIN m.conn
  BY <1>4 DEF Within, Types
<1> HIDE DEF k
<1>6. r \in Conns(m, opt)
  <2>1. conn \in Conns(m, opt)
    BY <1>5 DEF MemOK
  <2> HIDE DEF conn
  <2> QED BY <2>1 DEF Conns
<1> HIDE DEF r
<1>7. MemOK(n, opt) /\ Within(m, n)
  BY <1>5, <1>6, PutOK
<1>8. n.call = m.call
  BY DEF MemOK
<1> HIDE DEF n
<1>9. Within(mem, n)
  BY <1>7 DEF Within
<1>10. Plain(all, n, opt)
  BY <1>9, PlainGrows DEF k
<1>11. \A c \in DOMAIN n.call : c \in DOMAIN mem.call /\ n.call[c].sess = mem.call[c].sess
  BY <1>8
<1> HIDE DEF all, b
<1>12. opt' = opt /\ visit' = visit /\ gen' = gen
  OBVIOUS
<1> QED BY <1>1, <1>3, <1>7, <1>9, <1>10, <1>11, <1>12, ShapeStart

\* The frames that the handlers of events start with.
LEMMA EventFrames ==
  ASSUME Shape, batch # <<>>
  PROVE  LET k == EventConn  d == DecRef("conn", k)
         IN /\ k \in DOMAIN mem.conn
            /\ Plain(Append(<<>>, d), mem, opt)
            /\ Plain(Append(<<<<"conn_connected", k>>>>, d), mem, opt)
            /\ \A n, after : Plain(Append(<<<<"do_recv", k, n, after>>>>, d), mem, opt)
            /\ Plain(Append(<<<<"conn_failed", k>>, <<"core_close", k>>>>, d), mem, opt)
<1> DEFINE k == EventConn  d == DecRef("conn", k)  e == <<"conn_connected", k>>
           f == <<"conn_failed", k>>  g == <<"core_close", k>>
<1>1. batch \in Seq(Events(mem))
  BY DEF Shape
<1>2. Head(batch) \in Events(mem)
  BY <1>1, HeadTailProperties
<1>3. k \in DOMAIN mem.conn
  BY <1>2 DEF Events, EventConn
<1> HIDE DEF k
<1>4. FrameOK(d, mem, opt) /\ d[1] \notin AtOnce /\ d[1] # "call_done"
  BY <1>3, DecRefFrame DEF Types, AtOnce
<1>5. FrameOK(e, mem, opt) /\ e[1] # "call_done" /\ FrameOK(f, mem, opt) /\ f[1] # "call_done"
      /\ FrameOK(g, mem, opt) /\ g[1] \notin AtOnce
  BY <1>3, OtherFrames
<1> HIDE DEF d, e, f, g
<1>6. Plain(<<d>>, mem, opt) /\ Plain(<<e, d>>, mem, opt) /\ Plain(<<f, g, d>>, mem, opt)
  BY <1>4, <1>5, PlainFew
<1>7. ASSUME NEW n, NEW after PROVE Plain(Append(<<<<"do_recv", k, n, after>>>>, d), mem, opt)
  <2> DEFINE h == <<"do_recv", k, n, after>>
  <2>1. FrameOK(h, mem, opt) /\ h[1] # "call_done"
    BY <1>3, OtherFrames
  <2> HIDE DEF h
  <2>2. Plain(<<h, d>>, mem, opt)
    BY <1>4, <2>1, PlainFew
  <2>3. Append(<<h>>, d) = <<h, d>>
    BY AppendFew
  <2> QED BY <2>2, <2>3 DEF h
<1>8. Append(<<>>, d) = <<d>> /\ Append(<<e>>, d) = <<e, d>> /\ Append(<<f, g>>, d) = <<f, g, d>>
  BY AppendFew
<1>9. Plain(Append(<<>>, d), mem, opt) /\ Plain(Append(<<e>>, d), mem, opt)
      /\ Plain(Append(<<f, g>>, d), mem, opt)
  BY <1>6, <1>8
<1> QED BY <1>3, <1>7, <1>9 DEF d, e, f, g, k

\* What do_send has written moves to the receive queue.
LEMMA WrittenOK ==
  ASSUME MemOK(mem, opt), EventConn \in DOMAIN mem.conn, NEW n \in 0..Len(EventObj.sendq)
  PROVE  /\ MemOK(Written(n), opt) /\ Within(mem, Written(n))
         /\ Written(n).sess = mem.sess /\ Written(n).free = mem.free
         /\ \A c \in DOMAIN Written(n).call :
              /\ c \in DOMAIN mem.call /\ Written(n).call[c].sess = mem.call[c].sess
              /\ Written(n).call[c].ref = mem.call[c].ref
         /\ DOMAIN Written(n).call = DOMAIN mem.call /\ DOMAIN Written(n).conn = DOMAIN mem.conn
         /\ \A k \in DOMAIN mem.conn : /\ Written(n).conn[k].state = mem.conn[k].state
                                       /\ Written(n).conn[k].ref = mem.conn[k].ref
<1> DEFINE k == EventConn  conn == EventObj  q == conn.sendq  w == Written(n)
           front == SubSeq(q, 1, n)  rest == SubSeq(q, n + 1, Len(q))
           mask == IF n = Len(q) THEN "in" ELSE "out"
           recvq == conn.recvq \o front
           r == [conn EXCEPT !.mask = mask, !.recvq = recvq, !.sendq = rest]
           conns == [mem.conn EXCEPT ![k] = r]
           call == [c \in DOMAIN mem.call |->
                      IF Contains(front, c) THEN [mem.call[c] EXCEPT !.cut = FALSE] ELSE mem.call[c]]
<1>1. mem = [sess |-> mem.sess, conn |-> mem.conn, call |-> mem.call, free |-> mem.free]
      /\ Sized(mem.conn) /\ Sized(mem.call) /\ Sized(mem.sess)
  BY DEF MemOK
<1>2. conn = mem.conn[k] /\ conn \in Conns(mem, opt)
  BY DEF EventObj, MemOK
<1>3. q \in Seq(DOMAIN mem.call) /\ conn.recvq \in Seq(DOMAIN mem.call)
  BY <1>2 DEF Conns
<1>4. Len(q) \in Nat
  BY <1>3, LenProperties
<1>5. front \in Seq(DOMAIN mem.call) /\ rest \in Seq(DOMAIN mem.call)
  <2>1. n \in Int /\ Len(q) \in Int /\ n <= Len(q) /\ n >= 0
    BY <1>4
  <2> HIDE DEF q
  <2>2. \A i \in 1..n : q[i] \in DOMAIN mem.call
    BY <1>3, <2>1, ElementOfSeq
  <2>3. \A i \in (n + 1)..Len(q) : q[i] \in DOMAIN mem.call
    BY <1>3, <2>1, ElementOfSeq
  <2>0. ASSUME NEW x \in Int, NEW y \in Int, \A i \in x..y : q[i] \in DOMAIN mem.call
        PROVE  SubSeq(q, x, y) \in Seq(DOMAIN mem.call)
    BY <2>0, SubSeqProperties
  <2>4. front \in Seq(DOMAIN mem.call)
    <3>1. 1 \in Int
      OBVIOUS
    <3> QED BY <2>0, <2>1, <2>2, <3>1
  <2>5. rest \in Seq(DOMAIN mem.call)
    <3>1. n + 1 \in Int
      BY <2>1
    <3> QED BY <2>0, <2>1, <2>3, <3>1
  <2> QED BY <2>4, <2>5
<1>6. recvq \in Seq(DOMAIN mem.call)
  BY <1>3, <1>5, ConcatProperties
<1>7. w = [sess |-> mem.sess, conn |-> conns, call |-> call, free |-> mem.free]
  <2>1. w = [mem EXCEPT !.conn[k].mask = mask, !.conn[k].recvq = @ \o front, !.conn[k].sendq = rest,
               !.call = [c \in DOMAIN @ |->
                           IF Contains(front, c) THEN [@[c] EXCEPT !.cut = FALSE] ELSE @[c]]]
    BY DEF Written
  <2>2. recvq = mem.conn[k].recvq \o front
    BY <1>2
  <2>3. call = [c \in DOMAIN mem.call |->
                  IF Contains(front, c) THEN [mem.call[c] EXCEPT !.cut = FALSE] ELSE mem.call[c]]
    OBVIOUS
  <2> HIDE DEF front, rest, mask, recvq, call, w
  <2>4. w.sess = mem.sess /\ w.free = mem.free
    BY <1>1, <2>1
  <2>5. w.conn = conns
    BY <1>1, <1>2, <2>1, <2>2
  <2>6. w.call = call
    BY <1>1, <2>1, <2>3
  <2>7. w = [f \in DOMAIN mem |-> w[f]]
    BY <2>1
  <2>8. DOMAIN mem = {"sess", "conn", "call", "free"}
    BY <1>1
  <2> HIDE DEF conns
  <2> QED BY <2>4, <2>5, <2>6, <2>7, <2>8
<1>8. mask \in {"in", "out"}
  OBVIOUS
<1> HIDE DEF front, rest, mask, recvq, w
<1>9. r \in Conns(mem, opt) /\ r.state = conn.state /\ r.ref = conn.ref
  BY <1>2, <1>5, <1>6, <1>8 DEF Conns
<1> HIDE DEF r
<1>10. Sized(conns) /\ DOMAIN conns = DOMAIN mem.conn
  BY <1>1, SizedPut
<1>11. \A x \in DOMAIN mem.conn : /\ conns[x] = mem.conn[x] \/ conns[x] \in Conns(mem, opt)
                                  /\ conns[x].state = mem.conn[x].state /\ conns[x].ref = mem.conn[x].ref
  BY <1>2, <1>9
<1>12. \A c \in DOMAIN mem.call : /\ call[c] \in CallRecs(mem) /\ call[c].sess = mem.call[c].sess
                                  /\ call[c].ref = mem.call[c].ref
  <2> TAKE c \in DOMAIN mem.call
  <2>1. mem.call[c] \in CallRecs(mem)
    BY DEF MemOK
  <2>2. [mem.call[c] EXCEPT !.cut = FALSE] \in CallRecs(mem)
        /\ [mem.call[c] EXCEPT !.cut = FALSE].sess = mem.call[c].sess
        /\ [mem.call[c] EXCEPT !.cut = FALSE].ref = mem.call[c].ref
    BY <2>1 DEF CallRecs
  <2> QED BY <2>1, <2>2
<1>13. Sized(call) /\ DOMAIN call = DOMAIN mem.call
  <2>1. Len(mem.call) \in Nat /\ DOMAIN mem.call = 1..Len(mem.call)
    BY <1>1, SizedLen
  <2>2. call \in [1..Len(mem.call) -> CallRecs(mem)]
    BY <1>12, <2>1
  <2> HIDE DEF call
  <2>3. call \in Seq(CallRecs(mem))
    BY <2>1, <2>2, SeqDef
  <2> QED BY <2>1, <2>2, <2>3, SizedIn
<1> HIDE DEF conns, call
<1>14. w.sess = mem.sess /\ w.conn = conns /\ w.call = call /\ w.free = mem.free
  BY <1>7
<1>15. MemOK(w, opt) /\ Within(mem, w)
  BY <1>1, <1>7, <1>10, <1>11, <1>12, <1>13, <1>14, CellsOK DEF Types
<1> QED BY <1>10, <1>11, <1>12, <1>13, <1>14, <1>15 DEF w

\* The connection is established.
LEMMA EstablishedShape == Shape /\ ConnectionEstablished => Shape'
<1> SUFFICES ASSUME Shape, ConnectionEstablished PROVE Shape'
  OBVIOUS
<1> DEFINE k == EventConn  conn == mem.conn[k]
           r == [conn EXCEPT !.state = "CONNECTED", !.mask = "in"]  m == [mem EXCEPT !.conn[k] = r]
           calls == <<<<"conn_connected", k>>>>
<1>1. batch # <<>> /\ UNCHANGED <<opt, visit, gen>>
      /\ Handle("out", [mem EXCEPT !.conn[k].state = "CONNECTED", !.conn[k].mask = "in"], calls)
  BY DEF ConnectionEstablished
<1>2. k \in DOMAIN mem.conn /\ Plain(Append(calls, DecRef("conn", EventConn)), mem, opt)
  BY <1>1, EventFrames
<1> HIDE DEF k, calls
<1>3. MemOK(mem, opt) /\ conn \in Conns(mem, opt)
  BY <1>2 DEF Shape, MemOK
<1>4. [mem EXCEPT !.conn[k].state = "CONNECTED", !.conn[k].mask = "in"] = m
  BY <1>2, <1>3 DEF MemOK
<1>5. r \in Conns(mem, opt)
  BY <1>3 DEF Conns, ConnStates, Open
<1> HIDE DEF r
<1>6. MemOK(m, opt) /\ Within(mem, m)
  BY <1>2, <1>3, <1>5, PutOK
<1>7. m.call = mem.call
  BY <1>3 DEF MemOK
<1>8. Handle("out", m, calls)
  BY <1>1, <1>4
<1> HIDE DEF m
<1> QED BY <1>1, <1>2, <1>6, <1>7, <1>8, HandleShape

\* All of the send queue is written,
LEMMA DoSendShape == Shape /\ do_send => Shape'
<1> SUFFICES ASSUME Shape, do_send PROVE Shape'
  OBVIOUS
<1> DEFINE m == Written(Len(EventObj.sendq))  calls == <<>>
<1>1. batch # <<>> /\ UNCHANGED <<opt, visit, gen>> /\ Handle("out", m, calls)
  BY DEF do_send
<1>2. EventConn \in DOMAIN mem.conn /\ Plain(Append(calls, DecRef("conn", EventConn)), mem, opt)
  BY <1>1, EventFrames
<1>3. MemOK(mem, opt)
  BY DEF Shape
<1>4. Len(EventObj.sendq) \in 0..Len(EventObj.sendq)
  <2>1. EventObj.sendq \in Seq(DOMAIN mem.call)
    BY <1>2, <1>3, Pointers DEF EventObj
  <2> QED BY <2>1, LenProperties
<1>5. MemOK(m, opt) /\ Within(mem, m)
      /\ \A c \in DOMAIN m.call : c \in DOMAIN mem.call /\ m.call[c].sess = mem.call[c].sess
  BY <1>2, <1>3, <1>4, WrittenOK
<1> HIDE DEF m, calls
<1> QED BY <1>1, <1>2, <1>5, HandleShape

\* or the requests before the one that is cut.
LEMMA DoSendPartShape == Shape /\ do_send_part => Shape'
<1> SUFFICES ASSUME Shape, do_send_part PROVE Shape'
  OBVIOUS
<1> DEFINE calls == <<>>
<1>1. PICK n \in 1..Len(EventObj.sendq) :
         Handle("out", [Written(n - 1) EXCEPT !.call[EventObj.sendq[n]].cut = TRUE], calls)
  BY DEF do_send_part
<1> DEFINE w == Written(n - 1)  c == EventObj.sendq[n]  o == w.call[c]
           r == [o EXCEPT !.cut = TRUE]  m == [w EXCEPT !.call[c] = r]
<1>2. batch # <<>> /\ UNCHANGED <<opt, visit, gen>> /\ Handle("out", m, calls)
  BY <1>1 DEF do_send_part
<1>3. EventConn \in DOMAIN mem.conn /\ Plain(Append(calls, DecRef("conn", EventConn)), mem, opt)
  BY <1>2, EventFrames
<1>4. MemOK(mem, opt)
  BY DEF Shape
<1>5. EventObj.sendq \in Seq(DOMAIN mem.call)
  BY <1>3, <1>4, Pointers DEF EventObj
<1>6. Len(EventObj.sendq) \in Nat /\ c \in DOMAIN mem.call
  BY <1>5, LenProperties, ElementOfSeq
<1>7. n - 1 \in 0..Len(EventObj.sendq)
  BY <1>6
<1>8. MemOK(w, opt) /\ Within(mem, w) /\ DOMAIN w.call = DOMAIN mem.call
      /\ \A x \in DOMAIN w.call : x \in DOMAIN mem.call /\ w.call[x].sess = mem.call[x].sess
  BY <1>3, <1>4, <1>7, WrittenOK
<1> HIDE DEF w, c
<1>9. o \in CallRecs(w)
  BY <1>6, <1>8 DEF MemOK
<1>10. r \in CallRecs(w) /\ r.sess = o.sess
  BY <1>9 DEF CallRecs
<1> HIDE DEF o, r
<1>11. MemOK(m, opt) /\ Within(w, m)
  BY <1>6, <1>8, <1>10, PutOK
<1>12. m.call = [w.call EXCEPT ![c] = r]
  BY <1>8 DEF MemOK
<1> HIDE DEF m, calls
<1>13. Within(mem, m)
  BY <1>8, <1>11 DEF Within
<1>14. \A x \in DOMAIN m.call : x \in DOMAIN mem.call /\ m.call[x].sess = mem.call[x].sess
  BY <1>8, <1>10, <1>12 DEF o
<1> QED BY <1>2, <1>3, <1>11, <1>13, <1>14, HandleShape

\* A reply, a failure, or nothing.
LEMMA OtherEventsShape == Shape /\ (ReplyArrives \/ IoFails \/ EventIgnored) => Shape'
<1> SUFFICES ASSUME Shape, ReplyArrives \/ IoFails \/ EventIgnored PROVE Shape'
  OBVIOUS
<1>1. batch # <<>> /\ UNCHANGED <<opt, visit, gen>>
  BY DEF ReplyArrives, IoFails, EventIgnored
<1>2. MemOK(mem, opt) /\ Within(mem, mem)
  BY DEF Shape, Within
<1>3. CASE ReplyArrives
  <2>1. PICK n \in 1..opt.read : Handle("in", mem, <<<<"do_recv", EventConn, n, "link">>>>)
    BY <1>3 DEF ReplyArrives
  <2> DEFINE calls == <<<<"do_recv", EventConn, n, "link">>>>
  <2>2. Plain(Append(calls, DecRef("conn", EventConn)), mem, opt)
    BY <1>1, EventFrames
  <2> HIDE DEF calls
  <2>3. Handle("in", mem, calls)
    BY <2>1 DEF calls
  <2> QED BY <1>1, <1>2, <2>2, <2>3, HandleShape
<1>4. CASE IoFails
  <2> DEFINE calls == <<<<"conn_failed", EventConn>>, <<"core_close", EventConn>>>>
  <2>1. PICK for \in {"in", "out"} : Handle(for, mem, calls)
    BY <1>4 DEF IoFails
  <2>2. Plain(Append(calls, DecRef("conn", EventConn)), mem, opt)
    BY <1>1, EventFrames
  <2> HIDE DEF calls
  <2> QED BY <1>1, <1>2, <2>1, <2>2, HandleShape
<1>5. CASE EventIgnored
  <2> DEFINE calls == <<>>
  <2>1. Handle(Head(batch).for, mem, calls)
    BY <1>5 DEF EventIgnored
  <2>2. Plain(Append(calls, DecRef("conn", EventConn)), mem, opt)
    BY <1>1, EventFrames
  <2> HIDE DEF calls
  <2> QED BY <1>1, <1>2, <2>1, <2>2, HandleShape
<1> QED BY <1>3, <1>4, <1>5

-----------------------------------------------------------------------------
(* Types *)

\* The first state
LEMMA InitShape == Init => Shape
<1> SUFFICES ASSUME Init PROVE Shape
  OBVIOUS
<1> DEFINE a == <<"sess_create">>  calls == <<a>>
           m == [sess |-> <<>>, conn |-> <<>>, call |-> <<>>, free |-> [t \in Types |-> <<>>]]
<1>1. opt \in Options /\ mem = m /\ stack = calls /\ batch = <<>>
      /\ visit = [k \in 1..NumSessions |->
                    [phase |-> "new", issued |-> 0, answered |-> 0, replies |-> 0]]
  BY DEF Init, ManagerInit, ObjectsInit
<1>2. GenOK(gen)
  BY DEF Init, GenOK
<1>3. visit \in [1..NumSessions -> VisitRecs]
  BY <1>1 DEF VisitRecs
<1>4. batch \in Seq(Events(mem))
  BY <1>1, EmptySeq
<1>5. DOMAIN m.sess = {} /\ DOMAIN m.conn = {} /\ DOMAIN m.call = {}
  <2>1. DOMAIN <<>> = {}
    OBVIOUS
  <2> QED BY <2>1
<1>6. MemOK(m, opt)
  <2>1. Sized(m.sess) /\ Sized(m.conn) /\ Sized(m.call)
    BY SizedFew
  <2>2. \A t \in Types : m.free[t] \in Seq(DOMAIN m[t])
    <3>1. \A t \in Types : m.free[t] = <<>>
      OBVIOUS
    <3> QED BY <3>1, EmptySeq
  <2>3. m = [sess |-> m.sess, conn |-> m.conn, call |-> m.call, free |-> m.free]
        /\ m.free = [t \in Types |-> m.free[t]]
    OBVIOUS
  <2> HIDE DEF m
  <2> QED BY <1>5, <2>1, <2>2, <2>3 DEF MemOK
<1> HIDE DEF m
<1>7. StackOK(calls, m, opt)
  <2>1. FrameOK(a, m, opt)
    BY OtherFrames
  <2> HIDE DEF a
  <2>2. Sized(calls) /\ Len(calls) = 1 /\ calls[1] = a
    BY SizedFew
  <2> HIDE DEF calls
  <2>3. (\A i \in 1..Len(calls) : i = 1) /\ \A i \in 2..Len(calls) : FALSE
    BY <2>2
  <2> QED BY <2>1, <2>2, <2>3 DEF StackOK
<1>8. TopOK(calls, m)
  BY <1>5 DEF TopOK
<1> HIDE DEF calls
<1> QED BY <1>1, <1>2, <1>3, <1>4, <1>6, <1>7, <1>8 DEF Shape

\* The steps of the session manager
LEMMA ManagerShape == Shape /\ verdict' = "none" /\ ManagerStep /\ UNCHANGED gen => Shape'
<1> SUFFICES ASSUME Shape, verdict' = "none", ManagerStep, UNCHANGED gen PROVE Shape'
  OBVIOUS
<1>1. CASE sess_failure
  BY <1>1, SessFailureShape
<1>2. CASE DestroySess
  BY <1>2, DestroySessShape
<1>3. CASE sess_destroyed
  BY <1>3, SessDestroyedShape
<1>4. CASE close_conn_of
  BY <1>4, CloseConnOfShape
<1>5. CASE drop_ring
  BY <1>5, DropRingShape
<1>6. CASE session_issue_call
  BY <1>6, IssueCallShape
<1>7. CASE send_calls
  BY <1>7, SendCallsShape
<1>8. CASE create_conn
  BY <1>8, CreateConnShape
<1>9. CASE ConnectInProgress
  BY <1>9, InProgressShape
<1>10. CASE ConnectAtOnce
  BY <1>10, AtOnceShape
<1>11. CASE ConnectRefused
  BY <1>11, RefusedShape
<1>12. CASE conn_connected
  BY <1>12, ConnectedShape
<1>13. CASE conn_failed
  BY <1>13, ConnFailedShape
<1>14. CASE conn_timeout
  BY <1>14, ConnTimeoutShape
<1>15. CASE core_close
  BY <1>15, CoreCloseShape
<1>16. CASE close_recvq
  BY <1>16, CloseRecvqShape
<1>17. CASE close_sd
  BY <1>17, CloseSdShape
<1>18. CASE DestroyConn
  BY <1>18, DestroyConnShape
<1>19. CASE recv_done
  BY <1>19, RecvDoneShape
<1>20. CASE call_done
  BY <1>20, CallDoneShape
<1>21. CASE forget_conn
  BY <1>21, ForgetConnShape
<1>22. CASE DestroyCall
  BY <1>22, DestroyCallShape
<1>23. CASE object_dec_ref /\ UNCHANGED <<envVars, stat, visit>>
  BY <1>23, DecRefShape DEF envVars
<1>24. CASE free /\ UNCHANGED <<envVars, stat, visit>>
  BY <1>24, FreeShape DEF envVars
<1> QED BY <1>1, <1>2, <1>3, <1>4, <1>5, <1>6, <1>7, <1>8, <1>9, <1>10, <1>11, <1>12, <1>13,
           <1>14, <1>15, <1>16, <1>17, <1>18, <1>19, <1>20, <1>21, <1>22, <1>23, <1>24 DEF ManagerStep

\* Once an assertion has failed nothing happens.
LEMMA Stopped == verdict # "none" /\ [Next]_vars => UNCHANGED vars
<1>1. \A f : ~(verdict # "none" /\ Top(f))
  BY DEF Top
<1>2. verdict # "none" => ~Idle /\ ~AtTop
  BY DEF Idle, AtTop
<1>3. verdict # "none" => ~ManagerStep
  BY <1>1 DEF ManagerStep, sess_failure, DestroySess, sess_destroyed, close_conn_of, drop_ring,
     session_issue_call, send_calls, create_conn, ConnectInProgress, ConnectAtOnce, ConnectRefused,
     conn_connected, conn_failed, conn_timeout, core_close, close_recvq, close_sd, DestroyConn,
     recv_done, call_done, forget_conn, DestroyCall, object_dec_ref, free
<1>4. verdict # "none" => ~Calls
  BY <1>1, <1>3 DEF Calls, sess_create, not_done, done, IssueBurst, IssuePage, CallsCreated,
     CreateInBurst, CreateEmbedded, fetch_uri, call_destroyed, gen_sess_destroyed, do_recv
<1>5. verdict # "none" => ~Loop
  BY <1>2 DEF Loop, RateTick, user_think_time_expired, WatchdogExpired, epoll_wait,
     ConnectionEstablished, do_send, do_send_part, ReplyArrives, IoFails, EventIgnored, Handle
<1>6. verdict # "none" => ~Finished
  BY <1>2 DEF Finished
<1> QED BY <1>4, <1>5, <1>6 DEF Next

\* Every step keeps the shape, unless it fails an assertion.
LEMMA StepShape == Shape /\ [Next]_vars /\ verdict' = "none" => Shape'
<1> SUFFICES ASSUME Shape, [Next]_vars, verdict' = "none" PROVE Shape'
  OBVIOUS
<1>1. CASE ManagerStep /\ UNCHANGED gen
  BY <1>1, ManagerShape
<1>2. CASE sess_create \/ not_done \/ done
  BY <1>2, SessCreateShape, NotDoneShape, DoneShape
<1>3. CASE IssueBurst \/ IssuePage \/ CallsCreated \/ CreateInBurst \/ CreateEmbedded
  BY <1>3, IssueBurstShape, IssuePageShape, CallsCreatedShape, CreateInBurstShape,
     CreateEmbeddedShape
<1>4. CASE fetch_uri \/ call_destroyed \/ gen_sess_destroyed \/ do_recv
  BY <1>4, FetchUriShape, CallDestroyedShape, GenDestroyedShape, DoRecvShape
<1>5. CASE RateTick \/ user_think_time_expired \/ WatchdogExpired \/ epoll_wait
  BY <1>5, RateTickShape, ThinkTimeShape, WatchdogShape, EpollShape
<1>6. CASE ConnectionEstablished \/ do_send \/ do_send_part
  BY <1>6, EstablishedShape, DoSendShape, DoSendPartShape
<1>7. CASE ReplyArrives \/ IoFails \/ EventIgnored
  BY <1>7, OtherEventsShape
<1>8. CASE UNCHANGED vars
  <2>1. UNCHANGED <<stack, mem, opt, batch, visit, gen>>
    BY <1>8 DEF vars
  <2> QED BY <2>1 DEF Shape
<1> QED BY <1>1, <1>2, <1>3, <1>4, <1>5, <1>6, <1>7, <1>8 DEF Next, Calls, Loop, Finished

\* The types follow.
LEMMA ShapeTypes == Shape => TypeOK
<1> SUFFICES ASSUME Shape PROVE TypeOK
  OBVIOUS
<1>1. MemOK(mem, opt)
  BY DEF Shape
<1>2. DOMAIN mem.sess \subseteq Nat /\ DOMAIN mem.conn \subseteq Nat /\ DOMAIN mem.call \subseteq Nat
  <2>1. \A q : Sized(q) => DOMAIN q \subseteq Nat
    BY SizedLen
  <2> QED BY <1>1, <2>1 DEF MemOK
<1>3. opt.conns \in Nat
  BY OptionsAssumption DEF Shape
<1>4. ASSUME NEW c \in DOMAIN mem.call PROVE mem.call[c] \in CallCell
  <2>1. mem.call[c] \in CallRecs(mem)
    BY <1>1 DEF MemOK
  <2> QED BY <1>2, <2>1 DEF CallRecs, CallCell, NULL
<1>5. ASSUME NEW k \in DOMAIN mem.conn PROVE mem.conn[k] \in ConnCell
  <2>1. mem.conn[k] \in Conns(mem, opt)
    BY <1>1 DEF MemOK
  <2>2. \A q \in Seq(DOMAIN mem.call) : q \in Seq(Nat)
    BY <1>2, SeqGrows
  <2> QED BY <1>2, <1>3, <2>1, <2>2 DEF Conns, ConnCell
<1>6. ASSUME NEW s \in DOMAIN mem.sess
      PROVE  mem.sess[s].ref \in Nat /\ mem.sess[s].num \in 1..NumSessions
  BY <1>1 DEF MemOK, SessOK
<1>7. ASSUME NEW s \in DOMAIN mem.sess, NEW i \in 1..opt.conns
      PROVE  /\ Ci(s, i).conn \in DOMAIN mem.conn \union {NULL}
             /\ Ci(s, i).sent \in 0..Len(Ci(s, i).pending)
             /\ Len(Ci(s, i).pending) <= opt.piped
  <2>1. Ci(s, i) \in Rings(mem) /\ Ci(s, i).sent <= Len(Ci(s, i).pending)
        /\ Len(Ci(s, i).pending) <= opt.piped
    BY RingOf
  <2>2. Ci(s, i).conn \in DOMAIN mem.conn \union {NULL} /\ Ci(s, i).sent \in Nat
        /\ Ci(s, i).pending \in Seq(DOMAIN mem.call)
    BY <2>1 DEF Rings
  <2>3. Len(Ci(s, i).pending) \in Nat
    BY <2>2, LenProperties
  <2> QED BY <2>1, <2>2, <2>3
<1>8. ASSUME NEW t \in Types PROVE Range(mem.free[t]) \subseteq DOMAIN mem[t]
  <2>1. mem.free[t] \in Seq(DOMAIN mem[t])
    BY <1>1 DEF MemOK
  <2>2. Len(mem.free[t]) \in Nat /\ DOMAIN mem.free[t] = 1..Len(mem.free[t])
    BY <2>1, LenProperties
  <2> QED BY <2>1, <2>2, ElementOfSeq DEF Range
<1> QED BY <1>4, <1>5, <1>6, <1>7, <1>8 DEF TypeOK

\* session.c, core.c and the generators follow only pointers to cells of the
\* right type, through every callback of every event: unless an assertion has
\* failed, the cells, the rings, the free lists and the numbers in them are of
\* the types the code declares, and a ring holds no more than its length.
THEOREM TypesHold == Spec => [](AssertsHold => TypeOK)
<1>1. Init => (verdict = "none" => Shape)
  BY InitShape
<1>2. (verdict = "none" => Shape) /\ [Next]_vars => (verdict = "none" => Shape)'
  <2> SUFFICES ASSUME verdict = "none" => Shape, [Next]_vars, verdict' = "none" PROVE Shape'
    OBVIOUS
  <2>1. verdict = "none"
    BY Stopped DEF vars
  <2> QED BY <2>1, StepShape
<1>3. (verdict = "none" => Shape) => (AssertsHold => TypeOK)
  BY ShapeTypes DEF AssertsHold
<1> QED BY <1>1, <1>2, <1>3, PTL DEF Spec

-----------------------------------------------------------------------------
(* The life of sessions and connections: what the reference counts, the     *)
(* frames that are still to destroy and to free a cell, the free lists, the *)
(* counters and the history have to do with each other                      *)

\* The frames that are to destroy and to free the cell x
Dying(t, x) == {<<"object_destroy", t, x>>}
Freeing(t, x) == {<<"free", t, x>>}
Ending(s) == Dying("sess", s) \union Freeing("sess", s)

\* Those that are to count a session in the generators
Counting == {<<"gen_sess_destroyed", s>> : s \in Nat}

\* Those that are to give up a reference to the connection k, its own one included
Holding(k) == {DecRef("conn", k), <<"close_recvq", k>>, <<"close_sd", k>>}

\* A session has its reference, or is on its way to the free list, or is there.
SessOnce ==
  \A s \in DOMAIN mem.sess :
    mem.sess[s].ref + Number(Ending(s), stack) + Number({s}, mem.free["sess"]) = 1

Live(s) == mem.sess[s].ref = 1 \/ Number(Dying("sess", s), stack) = 1

SessOpen == \A s \in DOMAIN mem.sess : Live(s) => visit[mem.sess[s].num].phase = "open"

SessApart ==
  \A s, t \in DOMAIN mem.sess :
    Live(s) /\ Live(t) /\ mem.sess[s].num = mem.sess[t].num => s = t

NewLater == \A n \in 1..NumSessions : n > gen.generated => visit[n].phase = "new"

Tallied ==
  /\ stat.completed = Cardinality(Visited("completed"))
  /\ stat.failed = Cardinality(Visited("failed"))

Counted == gen.destroyed + Number(Counting, stack) = stat.completed + stat.failed

Running == gen.running <=> gen.destroyed < NumSessions

SessLedger ==
  SessOnce /\ SessOpen /\ SessApart /\ NewLater /\ Tallied /\ Counted /\ Running

\* A connection has a reference of its own until core_close closes it.
ConnRefs ==
  \A k \in DOMAIN mem.conn :
    mem.conn[k].ref = (IF mem.conn[k].state \in Open THEN 1 ELSE 0) + Number(Holding(k), stack)

ConnFreed ==
  \A k \in DOMAIN mem.conn :
    Number(Freeing("conn", k), stack) + Number({k}, mem.free["conn"])
      = IF mem.conn[k].state = "FREE" THEN 1 ELSE 0

ConnDies ==
  \A k \in DOMAIN mem.conn :
    Number(Dying("conn", k), stack)
      = IF mem.conn[k].state = "CLOSING" /\ mem.conn[k].ref = 0 THEN 1 ELSE 0

FreeUnheld == \A k \in DOMAIN mem.conn : mem.conn[k].state = "FREE" => mem.conn[k].ref = 0

Connecting ==
  stack # <<>> /\ stack[1][1] = "core_connect" => mem.conn[stack[1][2]].state \in Open

Existing == {k \in DOMAIN mem.conn : mem.conn[k].state # "FREE"}
Active == stat.active = Cardinality(Existing)

ConnLedger == ConnRefs /\ ConnFreed /\ ConnDies /\ FreeUnheld /\ Connecting /\ Active

\* A frame that has nothing to do with the ledger of sessions, of connections
AsideS(f) ==
  f[1] # "gen_sess_destroyed" /\ (f[1] \in {"object_destroy", "free"} => f[2] # "sess")
AsideC(f) ==
  /\ f[1] \notin {"close_recvq", "close_sd"}
  /\ f[1] \in {"object_destroy", "free", "object_dec_ref"} => f[2] # "conn"

\* The phases of the visits are kept.
Phases == \A n \in 1..NumSessions : visit'[n].phase = visit[n].phase

\* What a step leaves alone of the sessions
SessKept ==
  /\ DOMAIN mem'.sess = DOMAIN mem.sess /\ mem'.free["sess"] = mem.free["sess"]
  /\ \A s \in DOMAIN mem.sess :
       mem'.sess[s].ref = mem.sess[s].ref /\ mem'.sess[s].num = mem.sess[s].num
  /\ Phases /\ stat'.completed = stat.completed /\ stat'.failed = stat.failed
  /\ gen'.generated \in Nat /\ gen'.generated >= gen.generated
  /\ gen'.destroyed = gen.destroyed /\ gen'.running = gen.running

\* and of the connections, but for the stages of one that is not closed.
ConnKept ==
  /\ DOMAIN mem'.conn = DOMAIN mem.conn /\ mem'.free["conn"] = mem.free["conn"]
  /\ \A k \in DOMAIN mem.conn :
       /\ mem'.conn[k].ref = mem.conn[k].ref
       /\ \/ mem'.conn[k].state = mem.conn[k].state
          \/ mem'.conn[k].state \in Open /\ mem.conn[k].state \in Open
  /\ stat'.active = stat.active

SessSilent ==
  SessKept /\ \A X : (\A f \in X : ~AsideS(f)) => Number(X, stack') = Number(X, stack)

ConnSilent ==
  /\ ConnKept /\ (stack' # <<>> => stack'[1][1] # "core_connect")
  /\ \A X : (\A f \in X : ~AsideC(f)) => Number(X, stack') = Number(X, stack)

\* The frames of the ledgers
LEMMA Marked ==
  /\ \A s : \A f \in Ending(s) : ~AsideS(f)
  /\ \A s : \A f \in Dying("sess", s) : ~AsideS(f)
  /\ \A f \in Counting : ~AsideS(f)
  /\ \A k : \A f \in Holding(k) : ~AsideC(f)
  /\ \A k : \A f \in Freeing("conn", k) : ~AsideC(f)
  /\ \A k : \A f \in Dying("conn", k) : ~AsideC(f)
<1>1. ASSUME NEW s, NEW f \in Ending(s) PROVE ~AsideS(f)
  BY DEF Ending, Dying, Freeing, AsideS
<1>2. ASSUME NEW s, NEW f \in Dying("sess", s) PROVE ~AsideS(f)
  BY DEF Dying, AsideS
<1>3. ASSUME NEW f \in Counting PROVE ~AsideS(f)
  BY DEF Counting, AsideS
<1>4. ASSUME NEW k, NEW f \in Holding(k) PROVE ~AsideC(f)
  BY DEF Holding, DecRef, AsideC
<1>5. ASSUME NEW k, NEW f \in Freeing("conn", k) PROVE ~AsideC(f)
  BY DEF Freeing, AsideC
<1>6. ASSUME NEW k, NEW f \in Dying("conn", k) PROVE ~AsideC(f)
  BY DEF Dying, AsideC
<1> QED BY <1>1, <1>2, <1>3, <1>4, <1>5, <1>6

\* A step that is silent about sessions keeps their ledger.
LEMMA SilentSess == Shape /\ SessLedger /\ SessSilent => SessLedger'
<1> SUFFICES ASSUME Shape, SessLedger, SessSilent PROVE SessLedger'
  OBVIOUS
<1>1. \A s : Number(Ending(s), stack') = Number(Ending(s), stack)
             /\ Number(Dying("sess", s), stack') = Number(Dying("sess", s), stack)
  BY Marked DEF SessSilent
<1>2. Number(Counting, stack') = Number(Counting, stack)
  BY Marked DEF SessSilent
<1>3. DOMAIN mem'.sess = DOMAIN mem.sess /\ mem'.free["sess"] = mem.free["sess"]
      /\ (\A s \in DOMAIN mem.sess :
            mem'.sess[s].ref = mem.sess[s].ref /\ mem'.sess[s].num = mem.sess[s].num)
      /\ Phases
  BY DEF SessSilent, SessKept
<1>4. SessOnce'
  BY <1>1, <1>3 DEF SessLedger, SessOnce
<1>5. \A s \in DOMAIN mem.sess : Live(s)' <=> Live(s)
  BY <1>1, <1>3 DEF Live
<1>6. \A s \in DOMAIN mem.sess : mem.sess[s].num \in 1..NumSessions
  BY DEF Shape, MemOK, SessOK
<1>7. SessOpen'
  BY <1>3, <1>5, <1>6 DEF SessLedger, SessOpen, Phases
<1>8. SessApart'
  BY <1>3, <1>5 DEF SessLedger, SessApart
<1>9. NewLater'
  <2> SUFFICES ASSUME NEW n \in 1..NumSessions, n > gen'.generated PROVE visit'[n].phase = "new"
    BY DEF NewLater
  <2>1. gen'.generated \in Nat /\ gen'.generated >= gen.generated /\ gen.generated \in Nat
        /\ n \in Int
    BY SessionsAssumption DEF SessSilent, SessKept, Shape, GenOK
  <2>2. n > gen.generated
    BY <2>1
  <2> QED BY <1>3, <2>2 DEF SessLedger, NewLater, Phases
<1>10. Tallied' /\ Counted' /\ Running'
  <2>1. Visited("completed")' = Visited("completed") /\ Visited("failed")' = Visited("failed")
    BY <1>3 DEF Visited, Phases
  <2>2. stat'.completed = stat.completed /\ stat'.failed = stat.failed
        /\ gen'.destroyed = gen.destroyed /\ gen'.running = gen.running
    BY DEF SessSilent, SessKept
  <2>3. Tallied'
    BY <2>1, <2>2 DEF SessLedger, Tallied
  <2>4. Counted'
    BY <1>2, <2>2 DEF SessLedger, Counted
  <2>5. Running'
    BY <2>2 DEF SessLedger, Running
  <2> QED BY <2>3, <2>4, <2>5
<1> QED BY <1>4, <1>7, <1>8, <1>9, <1>10 DEF SessLedger

\* One that is silent about connections keeps theirs.
LEMMA SilentConn == ConnLedger /\ ConnSilent => ConnLedger'
<1> SUFFICES ASSUME ConnLedger, ConnSilent PROVE ConnLedger'
  OBVIOUS
<1>1. \A k : /\ Number(Holding(k), stack') = Number(Holding(k), stack)
             /\ Number(Freeing("conn", k), stack') = Number(Freeing("conn", k), stack)
             /\ Number(Dying("conn", k), stack') = Number(Dying("conn", k), stack)
  BY Marked DEF ConnSilent
<1>2. DOMAIN mem'.conn = DOMAIN mem.conn /\ mem'.free["conn"] = mem.free["conn"]
      /\ stat'.active = stat.active
  BY DEF ConnSilent, ConnKept
<1>3. \A k \in DOMAIN mem.conn :
        /\ mem'.conn[k].ref = mem.conn[k].ref
        /\ mem'.conn[k].state \in Open <=> mem.conn[k].state \in Open
        /\ mem'.conn[k].state = "FREE" <=> mem.conn[k].state = "FREE"
        /\ mem'.conn[k].state = "CLOSING" <=> mem.conn[k].state = "CLOSING"
  BY DEF ConnSilent, ConnKept, Open
<1>4. ConnRefs'
  BY <1>1, <1>2, <1>3 DEF ConnLedger, ConnRefs
<1>5. ConnFreed'
  BY <1>1, <1>2, <1>3 DEF ConnLedger, ConnFreed
<1>6. ConnDies'
  BY <1>1, <1>2, <1>3 DEF ConnLedger, ConnDies
<1>7. FreeUnheld'
  BY <1>2, <1>3 DEF ConnLedger, FreeUnheld
<1>8. Connecting'
  BY DEF ConnSilent, Connecting
<1>9. Active'
  <2>1. Existing' = Existing
    BY <1>2, <1>3 DEF Existing
  <2> QED BY <1>2, <2>1 DEF ConnLedger, Active
<1> QED BY <1>4, <1>5, <1>6, <1>7, <1>8, <1>9 DEF ConnLedger

\* Frames that are to be pushed, and concern sessions or connections no more
CalmS(calls) == Sized(calls) /\ \A i \in 1..Len(calls) : AsideS(calls[i])
CalmC(calls) ==
  /\ Sized(calls)
  /\ \A i \in 1..Len(calls) : AsideC(calls[i]) /\ calls[i][1] # "core_connect"

\* A call that has nothing to do with X, and makes none that has.
LEMMA NumberSilent ==
  ASSUME NEW X, NEW calls, NEW st, Sized(calls), Sized(st), st # <<>>, st[1] \notin X,
         \A i \in 1..Len(calls) : calls[i] \notin X
  PROVE  Number(X, Pushed(calls, st)) = Number(X, st)
<1>1. Number(X, calls) = 0
  BY NumberNone
<1>2. Number(X, st) \in Nat
  BY NumberType
<1>3. Number(X, Pushed(calls, st)) = Number(X, calls) + Number(X, st) - 0
  BY NumberPushed
<1> DEFINE a == Number(X, st)  b == Number(X, Pushed(calls, st))
<1> HIDE DEF a, b
<1>4. b = 0 + a - 0
  BY <1>1, <1>3 DEF a, b
<1> QED BY <1>2, <1>4 DEF a, b

\* A call that is silent about sessions.
LEMMA StepSess ==
  ASSUME Shape, stack # <<>>, AsideS(stack[1]), NEW calls, CalmS(calls),
         stack' = calls \o Tail(stack), SessKept
  PROVE  SessSilent
<1>1. stack' = Pushed(calls, stack)
  BY DEF Pushed
<1>2. Sized(calls) /\ Sized(stack)
  BY DEF Shape, StackOK, CalmS
<1>3. ASSUME NEW X, \A f \in X : ~AsideS(f)
      PROVE  Number(X, Pushed(calls, stack)) = Number(X, stack)
  <2>1. stack[1] \notin X /\ \A i \in 1..Len(calls) : calls[i] \notin X
    BY <1>3 DEF CalmS
  <2> QED BY <1>2, <2>1, NumberSilent
<1> QED BY <1>1, <1>3 DEF SessSilent

\* A call that is silent about connections.
LEMMA StepConn ==
  ASSUME Shape, stack # <<>>, AsideC(stack[1]), NEW calls, CalmC(calls),
         stack' = calls \o Tail(stack), ConnKept
  PROVE  ConnSilent
<1>1. stack' = Pushed(calls, stack)
  BY DEF Pushed
<1>2. Sized(calls) /\ Sized(stack)
  BY DEF Shape, StackOK, CalmC
<1>3. ASSUME NEW X, \A f \in X : ~AsideC(f)
      PROVE  Number(X, Pushed(calls, stack)) = Number(X, stack)
  <2>1. stack[1] \notin X /\ \A i \in 1..Len(calls) : calls[i] \notin X
    BY <1>3 DEF CalmC
  <2> QED BY <1>2, <2>1, NumberSilent
<1> DEFINE p == Pushed(calls, stack)
<1>4. ASSUME p # <<>> PROVE p[1][1] # "core_connect"
  <2>1. Sized(p)
    BY <1>2, PushedAt
  <2>2. 1 \in 1..Len(p) /\ Len(calls) \in Nat
    BY <1>2, <1>4, <2>1, SizedLen
  <2>3. \/ 1 \in 1..Len(calls) /\ p[1] = calls[1]
        \/ 1 - Len(calls) + 1 \in 2..Len(stack) /\ p[1] = stack[1 - Len(calls) + 1]
    BY <1>2, <2>2, PushedFrom
  <2>4. \A i \in 2..Len(stack) : stack[i][1] # "core_connect"
    BY DEF Shape, StackOK, AtOnce
  <2>5. \A i \in 1..Len(calls) : calls[i][1] # "core_connect"
    BY DEF CalmC
  <2> HIDE DEF p
  <2> QED BY <2>2, <2>3, <2>4, <2>5
<1> HIDE DEF p
<1>5. stack' = p
  BY <1>1 DEF p
<1> QED BY <1>1, <1>3, <1>4, <1>5 DEF ConnSilent

\* Frames that concern neither
Still(f) == AsideS(f) /\ AsideC(f) /\ f[1] # "core_connect"
Calm(calls) == Sized(calls) /\ \A i \in 1..Len(calls) : Still(calls[i])

\* Both are silent in most calls,
LEMMA SilentStep ==
  ASSUME Shape, stack # <<>>, AsideS(stack[1]), AsideC(stack[1]), NEW calls, Calm(calls),
         stack' = calls \o Tail(stack), SessKept, ConnKept
  PROVE  SessSilent /\ ConnSilent
<1>1. CalmS(calls) /\ CalmC(calls)
  BY DEF Calm, CalmS, CalmC, Still
<1> QED BY <1>1, StepSess, StepConn

\* in the first calls of the loop, and when there is none.
LEMMA SilentStart ==
  ASSUME stack = <<>>, NEW calls, Calm(calls), stack' = calls, SessKept, ConnKept
  PROVE  SessSilent /\ ConnSilent
<1>1. Sized(calls)
  BY DEF Calm
<1>2. ASSUME NEW X, \A f \in X : ~AsideS(f) \/ ~AsideC(f) PROVE Number(X, calls) = 0
  <2>1. \A i \in 1..Len(calls) : calls[i] \notin X
    BY <1>2 DEF Calm, Still
  <2> QED BY <1>1, <2>1, NumberNone
<1>3. ASSUME NEW X PROVE Number(X, stack) = 0
  BY NumberFew
<1>4. calls # <<>> => calls[1][1] # "core_connect"
  <2>1. calls # <<>> => 1 \in 1..Len(calls)
    BY <1>1, SizedLen
  <2> QED BY <2>1 DEF Calm, Still
<1>5. SessSilent
  BY <1>2, <1>3 DEF SessSilent
<1>6. ConnSilent
  BY <1>2, <1>3, <1>4 DEF ConnSilent
<1> QED BY <1>5, <1>6

\* A few such frames.
LEMMA CalmFew ==
  /\ Calm(<<>>)
  /\ \A a : Still(a) => Calm(<<a>>)
  /\ \A a, b : Still(a) /\ Still(b) => Calm(<<a, b>>)
  /\ \A a, b, c : Still(a) /\ Still(b) /\ Still(c) => Calm(<<a, b, c>>)
  /\ \A a, b, c, d : Still(a) /\ Still(b) /\ Still(c) /\ Still(d) => Calm(<<a, b, c, d>>)
<1>1. Calm(<<>>)
  BY SizedFew DEF Calm
<1>2. ASSUME NEW a, Still(a) PROVE Calm(<<a>>)
  BY <1>2, SizedFew DEF Calm
<1>3. ASSUME NEW a, NEW b, Still(a), Still(b) PROVE Calm(<<a, b>>)
  BY <1>3, SizedFew DEF Calm
<1>4. ASSUME NEW a, NEW b, NEW c, Still(a), Still(b), Still(c) PROVE Calm(<<a, b, c>>)
  BY <1>4, SizedFew DEF Calm
<1>5. ASSUME NEW a, NEW b, NEW c, NEW d, Still(a), Still(b), Still(c), Still(d)
      PROVE  Calm(<<a, b, c, d>>)
  BY <1>5, SizedFew DEF Calm
<1> QED BY <1>1, <1>2, <1>3, <1>4, <1>5

\* The functions that concern neither, whatever their arguments are
StillCalls == {"sess_create", "not_done", "done", "issue_calls", "create_calls", "create_embedded",
               "fetch_uri", "call_destroyed", "do_recv", "sess_failure", "sess_destroyed",
               "close_conn_of", "drop_ring", "session_issue_call", "send_calls", "create_conn",
               "conn_connected", "conn_failed", "conn_timeout", "core_close", "recv_done",
               "call_done", "forget_conn"}

\* Their frames, and those about the references of calls and sessions.
LEMMA StillFrames ==
  /\ \A f : f[1] \in StillCalls => Still(f)
  /\ \A x : Still(DecRef("call", x)) /\ Still(DecRef("sess", x))
  /\ \A x : Still(<<"object_destroy", "call", x>>) /\ Still(<<"free", "call", x>>)
<1>1. ASSUME NEW f, f[1] \in StillCalls PROVE Still(f)
  BY <1>1 DEF StillCalls, Still, AsideS, AsideC
<1>2. ASSUME NEW x PROVE Still(DecRef("call", x)) /\ Still(DecRef("sess", x))
  BY DEF DecRef, Still, AsideS, AsideC
<1>3. ASSUME NEW x PROVE Still(<<"object_destroy", "call", x>>) /\ Still(<<"free", "call", x>>)
  BY DEF Still, AsideS, AsideC
<1> QED BY <1>1, <1>2, <1>3

\* The counters and the history are left alone,
Told ==
  /\ Phases /\ stat'.completed = stat.completed /\ stat'.failed = stat.failed
  /\ gen'.generated \in Nat /\ gen'.generated >= gen.generated
  /\ gen'.destroyed = gen.destroyed /\ gen'.running = gen.running
  /\ stat'.active = stat.active

\* They are left alone by a step that does not change them.
LEMMA ToldSame == Shape /\ UNCHANGED <<stat, visit, gen>> => Told
<1> SUFFICES ASSUME Shape, UNCHANGED <<stat, visit, gen>> PROVE Told
  OBVIOUS
<1>1. gen.generated \in Nat
  BY DEF Shape, GenOK
<1> QED BY <1>1 DEF Told, Phases

\* and so are the cells,
LEMMA KeptCells ==
  ASSUME NEW n, mem' = n, DOMAIN n.sess = DOMAIN mem.sess, DOMAIN n.conn = DOMAIN mem.conn,
         n.free["sess"] = mem.free["sess"], n.free["conn"] = mem.free["conn"],
         \A s \in DOMAIN mem.sess : n.sess[s].ref = mem.sess[s].ref /\ n.sess[s].num = mem.sess[s].num,
         \A k \in DOMAIN mem.conn :
           n.conn[k].ref = mem.conn[k].ref /\ n.conn[k].state = mem.conn[k].state,
         Told
  PROVE  SessKept /\ ConnKept
BY DEF SessKept, ConnKept, Told

\* whether nothing is changed,
LEMMA KeptSame == Shape /\ UNCHANGED <<mem, stat, visit, gen>> => SessKept /\ ConnKept
BY ToldSame DEF SessKept, ConnKept, Told

\* one session,
LEMMA KeptSess ==
  ASSUME MemOK(mem, opt), Told, NEW s \in DOMAIN mem.sess, NEW r,
         mem' = [mem EXCEPT !.sess[s] = r], r.ref = mem.sess[s].ref, r.num = mem.sess[s].num
  PROVE  SessKept /\ ConnKept
<1> DEFINE n == [mem EXCEPT !.sess[s] = r]
<1>1. n.sess = [mem.sess EXCEPT ![s] = r] /\ n.conn = mem.conn /\ n.free = mem.free
  BY DEF MemOK
<1>2. mem' = n
  OBVIOUS
<1> HIDE DEF n
<1> QED BY <1>1, <1>2, KeptCells

\* one connection
LEMMA KeptConn ==
  ASSUME MemOK(mem, opt), Told, NEW k \in DOMAIN mem.conn, NEW r,
         mem' = [mem EXCEPT !.conn[k] = r], r.ref = mem.conn[k].ref,
         r.state = mem.conn[k].state \/ (r.state \in Open /\ mem.conn[k].state \in Open)
  PROVE  SessKept /\ ConnKept
<1> DEFINE n == [mem EXCEPT !.conn[k] = r]
<1>1. n.conn = [mem.conn EXCEPT ![k] = r] /\ n.sess = mem.sess /\ n.free = mem.free
  BY DEF MemOK
<1>2. mem' = n
  OBVIOUS
<1> HIDE DEF n
<1>3. \A x \in DOMAIN mem.conn :
        /\ n.conn[x].ref = mem.conn[x].ref
        /\ n.conn[x].state = mem.conn[x].state \/ (n.conn[x].state \in Open /\ mem.conn[x].state \in Open)
  BY <1>1
<1> QED BY <1>1, <1>2, <1>3 DEF SessKept, ConnKept, Told

\* or calls only.
LEMMA KeptCall ==
  ASSUME Told, NEW n, mem' = n, n.sess = mem.sess, n.conn = mem.conn,
         n.free["sess"] = mem.free["sess"], n.free["conn"] = mem.free["conn"]
  PROVE  SessKept /\ ConnKept
BY KeptCells

Silent == SessSilent /\ ConnSilent

\* A call that changes nothing but the stack, and is not about destruction.
LEMMA SilentSame ==
  ASSUME Shape, stack # <<>>, stack[1][1] \in StillCalls \union {"core_connect"}, NEW calls,
         Calm(calls), stack' = calls \o Tail(stack), UNCHANGED <<mem, stat, visit, gen>>
  PROVE  Silent
<1>1. AsideS(stack[1]) /\ AsideC(stack[1])
  BY DEF StillCalls, AsideS, AsideC
<1>2. SessKept /\ ConnKept
  BY KeptSame
<1> QED BY <1>1, <1>2, SilentStep DEF Silent

\* The calls of the session manager that only make other calls.
LEMMA CallersSilent ==
  Shape /\ UNCHANGED gen
    /\ (sess_destroyed \/ close_conn_of \/ drop_ring \/ conn_failed \/ conn_timeout \/ ConnectRefused)
  => Silent
<1> SUFFICES ASSUME Shape, UNCHANGED gen,
                    sess_destroyed \/ close_conn_of \/ drop_ring \/ conn_failed \/ conn_timeout
                      \/ ConnectRefused
             PROVE  Silent
  OBVIOUS
<1>1. stack # <<>> /\ stack[1][1] \in StillCalls \union {"core_connect"}
      /\ UNCHANGED <<mem, stat, visit, gen>>
  BY DEF sess_destroyed, close_conn_of, drop_ring, conn_failed, conn_timeout, ConnectRefused,
         Top, StillCalls
<1>2. ASSUME NEW calls, Calm(calls), stack' = calls \o Tail(stack) PROVE Silent
  BY <1>1, <1>2, SilentSame
<1>3. CASE sess_destroyed
  <2> DEFINE s == Arg(1)  i == Arg(2)  a == <<"close_conn_of", s, i>>  b == <<"drop_ring", s, i, 1>>
             c == <<"sess_destroyed", s, i + 1>>
             calls == IF i > opt.conns THEN <<>> ELSE <<a, b, c>>
  <2>1. stack' = calls \o Tail(stack)
    BY <1>3 DEF sess_destroyed, Run
  <2>2. Still(a) /\ Still(b) /\ Still(c)
    BY StillFrames DEF StillCalls
  <2> HIDE DEF a, b, c
  <2>3. Calm(calls)
    BY <2>2, CalmFew
  <2> HIDE DEF calls
  <2> QED BY <1>2, <2>1, <2>3
<1>4. CASE close_conn_of
  <2> DEFINE k == Ci(Arg(1), Arg(2)).conn  a == <<"core_close", k>>
             calls == IF k = NULL THEN <<>> ELSE <<a>>
  <2>1. stack' = calls \o Tail(stack)
    BY <1>4 DEF close_conn_of, Run
  <2>2. Still(a)
    BY StillFrames DEF StillCalls
  <2> HIDE DEF a
  <2>3. Calm(calls)
    BY <2>2, CalmFew
  <2> HIDE DEF calls
  <2> QED BY <1>2, <2>1, <2>3
<1>5. CASE drop_ring
  <2> DEFINE ring == Ci(Arg(1), Arg(2)).pending  j == Arg(3)  a == DecRef("call", ring[j])
             b == <<"drop_ring", Arg(1), Arg(2), j + 1>>
             calls == IF j > Len(ring) THEN <<>> ELSE <<a, b>>
  <2>1. stack' = calls \o Tail(stack)
    BY <1>5 DEF drop_ring, Run
  <2>2. Still(a) /\ Still(b)
    BY StillFrames DEF StillCalls
  <2> HIDE DEF a, b
  <2>3. Calm(calls)
    BY <2>2, CalmFew
  <2> HIDE DEF calls
  <2> QED BY <1>2, <2>1, <2>3
<1>6. CASE conn_failed
  <2> DEFINE k == mem.conn[Arg(1)]  ci == Ci(k.sess, k.ci)  a == <<"create_conn", k.sess, k.ci>>
             b == <<"sess_failure", k.sess>>
             calls == IF ci.successful \/ opt.retry THEN <<a>> ELSE <<b>>
  <2>1. stack' = calls \o Tail(stack)
    BY <1>6 DEF conn_failed, Run
  <2>2. Still(a) /\ Still(b)
    BY StillFrames DEF StillCalls
  <2> HIDE DEF a, b
  <2>3. Calm(calls)
    BY <2>2, CalmFew
  <2> HIDE DEF calls
  <2> QED BY <1>2, <2>1, <2>3
<1>7. CASE conn_timeout
  <2> DEFINE a == <<"sess_failure", mem.conn[Arg(1)].sess>>  calls == <<a>>
  <2>1. stack' = calls \o Tail(stack)
    BY <1>7 DEF conn_timeout, Run
  <2>2. Still(a)
    BY StillFrames DEF StillCalls
  <2> HIDE DEF a
  <2>3. Calm(calls)
    BY <2>2, CalmFew
  <2> HIDE DEF calls
  <2> QED BY <1>2, <2>1, <2>3
<1>8. CASE ConnectRefused
  <2> DEFINE a == <<"conn_failed", Arg(1)>>  b == <<"core_close", Arg(1)>>
             c == <<"sess_failure", mem.conn[Arg(1)].sess>>  calls == <<a, b, c>>
  <2>1. stack' = calls \o Tail(stack)
    BY <1>8 DEF ConnectRefused, Run
  <2>2. Still(a) /\ Still(b) /\ Still(c)
    BY StillFrames DEF StillCalls
  <2> HIDE DEF a, b, c
  <2>3. Calm(calls)
    BY <2>2, CalmFew
  <2> HIDE DEF calls
  <2> QED BY <1>2, <2>1, <2>3
<1> QED BY <1>3, <1>4, <1>5, <1>6, <1>7, <1>8

\* Those of the generators.
LEMMA CreatorsSilent ==
  Shape /\ (not_done \/ done \/ IssuePage \/ CallsCreated) => Silent
<1> SUFFICES ASSUME Shape, not_done \/ done \/ IssuePage \/ CallsCreated PROVE Silent
  OBVIOUS
<1>1. stack # <<>> /\ stack[1][1] \in StillCalls \union {"core_connect"}
  BY DEF not_done, done, IssuePage, CallsCreated, Top, StillCalls
<1>2. CASE not_done
  <2> DEFINE calls == <<>>
  <2>1. stack' = calls \o Tail(stack) /\ UNCHANGED <<mem, stat, visit>>
        /\ gen' = [gen EXCEPT !.done = FALSE]
    BY <1>2 DEF not_done, Return, Run
  <2>2. AsideS(stack[1]) /\ AsideC(stack[1])
    BY <1>1 DEF StillCalls, AsideS, AsideC
  <2>3. Told
    <3>1. GenOK(gen)
      BY DEF Shape
    <3>2. gen'.generated = gen.generated /\ gen'.destroyed = gen.destroyed /\ gen'.running = gen.running
          /\ gen.generated \in Nat
      BY <2>1, <3>1 DEF GenOK
    <3> QED BY <2>1, <3>2 DEF Told, Phases
  <2>4. SessKept /\ ConnKept
    BY <2>1, <2>3 DEF SessKept, ConnKept, Told
  <2>5. Calm(calls)
    BY CalmFew
  <2> HIDE DEF calls
  <2> QED BY <1>1, <2>1, <2>2, <2>4, <2>5, SilentStep DEF Silent
<1>3. CASE done
  <2> DEFINE a == <<"sess_create">>  calls == IF gen.done THEN <<>> ELSE <<a>>
  <2>1. stack' = calls \o Tail(stack) /\ UNCHANGED <<mem, stat, visit, gen>>
    BY <1>3 DEF done, Run
  <2>2. Still(a)
    BY StillFrames DEF StillCalls
  <2> HIDE DEF a
  <2>3. Calm(calls)
    BY <2>2, CalmFew
  <2> HIDE DEF calls
  <2> QED BY <1>1, <2>1, <2>3, SilentSame
<1>4. CASE IssuePage
  <2> DEFINE s == Arg(1)  a == <<"create_embedded", s, QueueLeft(s)>>  b == <<"create_calls", s, 1>>
             calls == IF mem.sess[s].created > 0 THEN <<a>> ELSE <<b>>
  <2>1. stack' = calls \o Tail(stack) /\ UNCHANGED <<mem, stat, visit, gen>>
    BY <1>4 DEF IssuePage, Run
  <2>2. Still(a) /\ Still(b)
    BY StillFrames DEF StillCalls
  <2> HIDE DEF a, b
  <2>3. Calm(calls)
    BY <2>2, CalmFew
  <2> HIDE DEF calls
  <2> QED BY <1>1, <2>1, <2>3, SilentSame
<1>5. CASE CallsCreated
  <2> DEFINE calls == <<>>
  <2>1. stack' = calls \o Tail(stack) /\ UNCHANGED <<mem, stat, visit, gen>>
    BY <1>5 DEF CallsCreated, Return, Run
  <2>2. Calm(calls)
    BY CalmFew
  <2> HIDE DEF calls
  <2> QED BY <1>1, <2>1, <2>2, SilentSame
<1> QED BY <1>2, <1>3, <1>4, <1>5

\* The destruction of a call.
LEMMA DestroyCallSilent == Shape /\ DestroyCall /\ UNCHANGED gen => Silent
<1> SUFFICES ASSUME Shape, DestroyCall, UNCHANGED gen PROVE Silent
  OBVIOUS
<1> DEFINE c == Arg(2)  a == <<"call_destroyed", c>>  b == <<"free", "call", c>>  calls == <<a, b>>
<1>1. stack # <<>> /\ stack[1][1] = "object_destroy" /\ Arg(1) = "call" /\ stack' = calls \o Tail(stack)
      /\ UNCHANGED <<mem, stat, visit, gen>>
  BY DEF DestroyCall, Top, Run
<1>2. AsideS(stack[1]) /\ AsideC(stack[1])
  BY <1>1 DEF AsideS, AsideC, Arg
<1>3. Still(a) /\ Still(b)
  <2>1. Still(a)
    BY StillFrames DEF StillCalls
  <2>2. Still(b)
    BY DEF Still, AsideS, AsideC
  <2> HIDE DEF a, b
  <2> QED BY <2>1, <2>2
<1> HIDE DEF a, b
<1>4. Calm(calls)
  BY <1>3, CalmFew
<1> HIDE DEF calls
<1>5. SessKept /\ ConnKept
  BY <1>1, KeptSame
<1> QED BY <1>1, <1>2, <1>4, <1>5, SilentStep DEF Silent

\* The loop's calls.
LEMMA LoopSilent ==
  Shape /\ (RateTick \/ user_think_time_expired \/ WatchdogExpired \/ epoll_wait) => Silent
<1> SUFFICES ASSUME Shape, RateTick \/ user_think_time_expired \/ WatchdogExpired \/ epoll_wait
             PROVE  Silent
  OBVIOUS
<1>1. stack = <<>> /\ UNCHANGED <<stat, visit, gen>> /\ opt' = opt
  BY DEF RateTick, user_think_time_expired, WatchdogExpired, epoll_wait, AtTop, Idle, envVars
<1>2. CASE RateTick
  <2> DEFINE a == <<"sess_create">>  calls == <<a>>
  <2>1. stack' = calls /\ mem' = mem
    BY <1>2 DEF RateTick
  <2>2. Still(a)
    BY StillFrames DEF StillCalls
  <2> HIDE DEF a
  <2>3. Calm(calls)
    BY <2>2, CalmFew
  <2> HIDE DEF calls
  <2>4. SessKept /\ ConnKept
    BY <1>1, <2>1, KeptSame
  <2> QED BY <1>1, <2>1, <2>3, <2>4, SilentStart DEF Silent
<1>3. CASE user_think_time_expired
  <2>1. PICK s \in DOMAIN mem.sess : mem' = SetSess(s, "timer", FALSE) /\ stack' = <<<<"issue_calls", s>>>>
    BY <1>3 DEF user_think_time_expired
  <2> DEFINE o == mem.sess[s]  r == [o EXCEPT !.timer = FALSE]  a == <<"issue_calls", s>>  calls == <<a>>
  <2>2. mem' = [mem EXCEPT !.sess[s] = r] /\ stack' = calls
    BY <2>1 DEF SetSess
  <2>3. MemOK(mem, opt) /\ SessOK(o, mem, opt)
    BY DEF Shape, MemOK
  <2>4. r.ref = o.ref /\ r.num = o.num
    BY <2>3 DEF SessOK
  <2> HIDE DEF r
  <2>5. SessKept /\ ConnKept
    BY <1>1, <2>2, <2>3, <2>4, KeptSess, ToldSame
  <2>6. Still(a)
    BY StillFrames DEF StillCalls
  <2> HIDE DEF a
  <2>7. Calm(calls)
    BY <2>6, CalmFew
  <2> HIDE DEF calls
  <2> QED BY <1>1, <2>2, <2>5, <2>7, SilentStart DEF Silent
<1>4. CASE WatchdogExpired
  <2>1. PICK k \in Used("conn") : stack' = <<<<"conn_timeout", k>>, <<"core_close", k>>>>
    BY <1>4 DEF WatchdogExpired
  <2> DEFINE a == <<"conn_timeout", k>>  b == <<"core_close", k>>  calls == <<a, b>>
  <2>2. stack' = calls /\ mem' = mem
    BY <1>4, <2>1 DEF WatchdogExpired
  <2>3. Still(a) /\ Still(b)
    BY StillFrames DEF StillCalls
  <2> HIDE DEF a, b
  <2>4. Calm(calls)
    BY <2>3, CalmFew
  <2> HIDE DEF calls
  <2>5. SessKept /\ ConnKept
    BY <1>1, <2>2, KeptSame
  <2> QED BY <1>1, <2>2, <2>4, <2>5, SilentStart DEF Silent
<1>5. CASE epoll_wait
  <2> DEFINE calls == <<>>
  <2>1. stack' = calls /\ mem' = mem
    BY <1>1, <1>5 DEF epoll_wait
  <2>2. Calm(calls)
    BY CalmFew
  <2> HIDE DEF calls
  <2>3. SessKept /\ ConnKept
    BY <1>1, <2>1, KeptSame
  <2> QED BY <1>1, <2>1, <2>2, <2>3, SilentStart DEF Silent
<1> QED BY <1>2, <1>3, <1>4, <1>5

\* A session whose connection table is another one keeps its reference and its number.
LEMMA TableChanged ==
  ASSUME NEW m, NEW op, NEW o, SessOK(o, m, op), NEW i, NEW ci
  PROVE  [o EXCEPT !.ci[i] = ci].ref = o.ref /\ [o EXCEPT !.ci[i] = ci].num = o.num
BY DEF SessOK, SessFields

\* A call that changes one session,
LEMMA SilentOne ==
  ASSUME Shape, stack # <<>>, stack[1][1] \in StillCalls, NEW calls, Calm(calls),
         stack' = calls \o Tail(stack), Told, NEW s \in DOMAIN mem.sess, NEW r,
         mem' = [mem EXCEPT !.sess[s] = r], r.ref = mem.sess[s].ref, r.num = mem.sess[s].num
  PROVE  Silent
<1>1. AsideS(stack[1]) /\ AsideC(stack[1])
  BY DEF StillCalls, AsideS, AsideC
<1>2. SessKept /\ ConnKept
  BY KeptSess DEF Shape
<1> QED BY <1>1, <1>2, SilentStep DEF Silent

\* as sess_failure does,
LEMMA SessFailureSilent == Shape /\ sess_failure /\ UNCHANGED gen => Silent
<1> SUFFICES ASSUME Shape, sess_failure, UNCHANGED gen PROVE Silent
  OBVIOUS
<1> DEFINE s == Arg(1)  o == mem.sess[s]  r == [o EXCEPT !.failed = TRUE]  a == DecRef("sess", s)
<1>1. stack # <<>> /\ stack[1][1] = "sess_failure" /\ UNCHANGED <<stat, visit, gen>>
  BY DEF sess_failure, Top
<1>2. s \in DOMAIN mem.sess /\ stack[1][1] \in StillCalls /\ Told
  BY <1>1, Args, ToldSame DEF SessCalls, StillCalls
<1>3. CASE o.failed
  <2> DEFINE calls == <<>>
  <2>1. mem' = mem /\ stack' = calls \o Tail(stack)
    BY <1>3 DEF sess_failure, Return, Run
  <2>2. Calm(calls)
    BY CalmFew
  <2> HIDE DEF calls
  <2> QED BY <1>1, <1>2, <2>1, <2>2, SilentSame
<1>4. CASE ~o.failed
  <2> DEFINE calls == <<a>>
  <2>1. mem' = [mem EXCEPT !.sess[s] = r] /\ stack' = calls \o Tail(stack)
    BY <1>4 DEF sess_failure, Run, SetSess
  <2>2. Still(a)
    BY StillFrames
  <2>3. SessOK(o, mem, opt)
    BY <1>2 DEF Shape, MemOK
  <2>4. r.ref = o.ref /\ r.num = o.num
    BY <2>3 DEF SessOK, SessFields
  <2> HIDE DEF a, r
  <2>5. Calm(calls)
    BY <2>2, CalmFew
  <2> HIDE DEF calls, s
  <2> QED BY <1>1, <1>2, <2>1, <2>4, <2>5, SilentOne
<1> QED BY <1>3, <1>4

\* conn_connected and forget_conn do with its table,
LEMMA ConnectedSilent == Shape /\ conn_connected /\ UNCHANGED gen => Silent
<1> SUFFICES ASSUME Shape, conn_connected, UNCHANGED gen PROVE Silent
  OBVIOUS
<1> DEFINE k == mem.conn[Arg(1)]  s == k.sess  i == k.ci  o == mem.sess[s]
           ci == Ci(s, i)  new == [ci EXCEPT !.connected = TRUE]  r == [o EXCEPT !.ci[i] = new]
           a == <<"send_calls", s, i>>  calls == <<a>>
<1>1. stack # <<>> /\ stack[1][1] = "conn_connected" /\ stack' = calls \o Tail(stack)
      /\ UNCHANGED <<stat, visit, gen>> /\ mem' = [mem EXCEPT !.sess[s].ci[i].connected = TRUE]
  BY DEF conn_connected, Top, Run
<1>2. s \in DOMAIN mem.sess /\ i \in 1..opt.conns
  BY <1>1, Args, Pointers DEF Shape, ConnCalls
<1>3. SessOK(o, mem, opt) /\ ci \in Rings(mem) /\ ci = o.ci[i]
  BY <1>2, RingOf
<1>4. mem' = [mem EXCEPT !.sess[s] = r]
  BY <1>1, <1>3
<1>5. Still(a)
  BY StillFrames DEF StillCalls
<1>6. Told /\ stack[1][1] \in StillCalls
  BY <1>1, ToldSame DEF StillCalls
<1> HIDE DEF a, s, i, o, ci, new
<1>7. Calm(calls)
  BY <1>5, CalmFew
<1>8. r.ref = o.ref /\ r.num = o.num
  BY <1>3, TableChanged
<1> HIDE DEF calls, r
<1> QED BY <1>1, <1>2, <1>4, <1>6, <1>7, <1>8, SilentOne DEF o

\* A slot that forgets its connection tells nothing of sessions.
LEMMA ForgetConnSilent == Shape /\ forget_conn /\ UNCHANGED gen => Silent
<1> SUFFICES ASSUME Shape, forget_conn, UNCHANGED gen PROVE Silent
  OBVIOUS
<1> DEFINE s == Arg(1)  i == Arg(2)  o == mem.sess[s]
           ci == Ci(s, i)  new == [ci EXCEPT !.conn = NULL]  r == [o EXCEPT !.ci[i] = new]
           calls == <<>>
<1>1. stack # <<>> /\ stack[1][1] = "forget_conn" /\ stack' = calls \o Tail(stack)
      /\ UNCHANGED <<stat, visit, gen>> /\ mem' = [mem EXCEPT !.sess[s].ci[i].conn = NULL]
  BY DEF forget_conn, Top, Return, Run
<1>2. s \in DOMAIN mem.sess /\ i \in 1..opt.conns
  BY <1>1, Args DEF SessCalls, RingCalls
<1>3. SessOK(o, mem, opt) /\ ci \in Rings(mem) /\ ci = o.ci[i]
  BY <1>2, RingOf
<1>4. mem' = [mem EXCEPT !.sess[s] = r]
  BY <1>1, <1>3
<1>5. Told /\ stack[1][1] \in StillCalls
  BY <1>1, ToldSame DEF StillCalls
<1> HIDE DEF s, i, o, ci, new
<1>6. Calm(calls)
  BY CalmFew
<1>7. r.ref = o.ref /\ r.num = o.num
  BY <1>3, TableChanged
<1> HIDE DEF calls, r
<1> QED BY <1>1, <1>2, <1>4, <1>5, <1>6, <1>7, SilentOne DEF o

\* the generators with its counts,
LEMMA BurstSilent == Shape /\ (IssueBurst \/ fetch_uri) => Silent
<1> SUFFICES ASSUME Shape, IssueBurst \/ fetch_uri PROVE Silent
  OBVIOUS
<1> DEFINE s == Arg(1)  o == mem.sess[s]
<1>1. stack # <<>> /\ stack[1][1] \in {"issue_calls", "fetch_uri"} /\ UNCHANGED <<stat, visit, gen>>
  BY DEF IssueBurst, fetch_uri, Top
<1>2. s \in DOMAIN mem.sess /\ stack[1][1] \in StillCalls /\ Told
  BY <1>1, Args, ToldSame DEF SessCalls, StillCalls
<1>3. SessOK(o, mem, opt)
  BY <1>2 DEF Shape, MemOK
<1>4. CASE IssueBurst
  <2> DEFINE new == o.created + ToCreate(s)  r == [o EXCEPT !.created = new]
             a == <<"create_calls", s, ToCreate(s)>>  calls == <<a>>
  <2>1. mem' = [mem EXCEPT !.sess[s] = r] /\ stack' = calls \o Tail(stack)
    BY <1>4 DEF IssueBurst, Run
  <2>2. Still(a)
    BY StillFrames DEF StillCalls
  <2> HIDE DEF a, new
  <2>3. Calm(calls)
    BY <2>2, CalmFew
  <2>4. r.ref = o.ref /\ r.num = o.num
    BY <1>3 DEF SessOK, SessFields
  <2> HIDE DEF calls, s, r
  <2> QED BY <1>1, <1>2, <2>1, <2>3, <2>4, SilentOne
<1>5. CASE fetch_uri
  <2> DEFINE r == [o EXCEPT !.uris = @ + 1]  a == <<"issue_calls", s>>  calls == <<a>>
  <2>1. mem' = [mem EXCEPT !.sess[s] = r] /\ stack' = calls \o Tail(stack)
    BY <1>5 DEF fetch_uri, Run
  <2>2. Still(a)
    BY StillFrames DEF StillCalls
  <2> HIDE DEF a
  <2>3. Calm(calls)
    BY <2>2, CalmFew
  <2>4. r.ref = o.ref /\ r.num = o.num
    BY <1>3 DEF SessOK, SessFields
  <2> HIDE DEF calls, s, r
  <2> QED BY <1>1, <1>2, <2>1, <2>3, <2>4, SilentOne
<1> QED BY <1>4, <1>5

\* and the destruction of a call with what its session has done.
LEMMA CallDestroyedSilent == Shape /\ call_destroyed => Silent
<1> SUFFICES ASSUME Shape, call_destroyed PROVE Silent
  OBVIOUS
<1> DEFINE s == mem.call[Arg(1)].sess
           count == IF opt.gen = "wsesslog" /\ mem.sess[s].failed
                    THEN mem.sess[s].destroyed ELSE mem.sess[s].destroyed + 1
           p == mem.sess[s]
           o == [p EXCEPT !.destroyed = count]
           decision == CASE opt.gen = "wsess"     -> WsessDecision(o)
                         [] opt.gen = "wsesslog"  -> WsesslogDecision(o)
                         [] opt.gen = "wsesspage" -> WsesspageDecision(o)
           r == IF decision = "think" THEN Thinking(o) ELSE o
           a == DecRef("sess", s)  b == <<"issue_calls", s>>
           calls == CASE decision = "finish" -> <<a>>
                      [] decision = "issue"  -> <<b>>
                      [] OTHER               -> <<>>
<1>1. stack # <<>> /\ stack[1][1] = "call_destroyed" /\ UNCHANGED <<stat, visit, gen>>
  BY DEF call_destroyed, Top
<1>2. mem' = [mem EXCEPT !.sess[s] = r] /\ stack' = calls \o Tail(stack)
  BY DEF call_destroyed, Run
<1>3. s \in DOMAIN mem.sess
  BY <1>1, Args, HasSession DEF CallCalls
<1>4. p = [f \in SessFields |-> p[f]]
  BY <1>3 DEF Shape, MemOK, SessOK
<1> HIDE DEF count, p
<1>5. o = [f \in SessFields |-> o[f]] /\ o.ref = p.ref /\ o.num = p.num
  BY <1>4 DEF SessFields
<1> HIDE DEF o
<1> DEFINE w == Thinking(o)
<1>6. w.ref = o.ref /\ w.num = o.num
  <2> DEFINE burst == IF opt.gen = "wsesslog" THEN o.burst + 1 ELSE o.burst
             target == o.target + (CASE opt.gen = "wsess"    -> opt.burst
                              [] opt.gen = "wsesslog" -> templates[o.template][o.burst + 1]
                              [] OTHER                -> 0)
             fetched == o.fetched + 1
  <2>1. w = [o EXCEPT !.timer = TRUE, !.created = 0, !.req = 1, !.burst = burst,
                      !.target = target, !.fetched = fetched]
    BY DEF Thinking
  <2> HIDE DEF burst, target, fetched, w
  <2> QED BY <1>5, <2>1 DEF SessFields
<1> HIDE DEF w
<1>7. r.ref = p.ref /\ r.num = p.num
  BY <1>5, <1>6 DEF w
<1>8. Still(a) /\ Still(b)
  <2>1. Still(a)
    BY StillFrames
  <2>2. Still(b)
    BY StillFrames DEF StillCalls
  <2> QED BY <2>1, <2>2
<1> HIDE DEF a, b, decision, r, s
<1>9. Calm(calls)
  BY <1>8, CalmFew
<1> HIDE DEF calls
<1>10. Told /\ stack[1][1] \in StillCalls
  BY <1>1, ToldSame DEF StillCalls
<1> QED BY <1>1, <1>2, <1>3, <1>7, <1>9, <1>10, SilentOne DEF p

\* The history is told what calls are created and answered.
LEMMA VisitTold ==
  ASSUME Shape, UNCHANGED <<stat, gen>>, NEW v \in 1..NumSessions, NEW w, visit' = [visit EXCEPT ![v] = w],
         w.phase = visit[v].phase
  PROVE  Told
<1>1. Phases
  BY DEF Phases, Shape
<1>2. gen.generated \in Nat
  BY DEF Shape, GenOK
<1> QED BY <1>1, <1>2 DEF Told

\* What call_done goes on to do has nothing to do with destruction.
LEMMA DoneCalm ==
  ASSUME NEW s, NEW i, NEW c, NEW bad, NEW retry, NEW http11
  PROVE  LET calls == (IF bad THEN (IF retry THEN <<<<"session_issue_call", s, c>>>>
                                    ELSE <<<<"sess_failure", s>>>>)
                       ELSE <<>>)
                      \o <<DecRef("call", c)>>
                      \o (IF http11 THEN <<>>
                          ELSE <<<<"close_conn_of", s, i>>, <<"forget_conn", s, i>>>>)
         IN  Calm(calls)
<1> DEFINE a == <<"session_issue_call", s, c>>  b == <<"sess_failure", s>>  d == DecRef("call", c)
           e == <<"close_conn_of", s, i>>  f == <<"forget_conn", s, i>>
           first == IF bad THEN (IF retry THEN <<a>> ELSE <<b>>) ELSE <<>>
           last == IF http11 THEN <<>> ELSE <<e, f>>
<1>1. Still(a) /\ Still(b) /\ Still(e) /\ Still(f)
  BY StillFrames DEF StillCalls
<1>2. Still(d)
  BY StillFrames
<1>3. first \in {<<>>, <<a>>, <<b>>} /\ last \in {<<>>, <<e, f>>}
  OBVIOUS
<1> HIDE DEF a, b, d, e, f, first, last
<1>4. Cat(first, <<d>>) \in {<<d>>, <<a, d>>, <<b, d>>}
  BY <1>3, JoinFew
<1>5. Cat(Cat(first, <<d>>), last) \in {<<d>>, <<a, d>>, <<b, d>>, <<d, e, f>>, <<a, d, e, f>>, <<b, d, e, f>>}
  BY <1>3, <1>4, JoinFew
<1>6. Calm(Cat(Cat(first, <<d>>), last))
  BY <1>1, <1>2, <1>5, CalmFew
<1> QED BY <1>6 DEF Cat, first, last, a, b, d, e, f

\* call_done takes the call from its ring.
LEMMA CallDoneSilent == Shape /\ call_done /\ UNCHANGED gen => Silent
<1> SUFFICES ASSUME Shape, call_done, UNCHANGED gen PROVE Silent
  OBVIOUS
<1> DEFINE c == Arg(1)  bad == Arg(2)  k == mem.call[c].conn
           s == mem.conn[k].sess  i == mem.conn[k].ci  ci == Ci(s, i)  z == mem.call[c].sess
           calls == (IF bad THEN (IF opt.retry THEN <<<<"session_issue_call", s, c>>>>
                                  ELSE <<<<"sess_failure", s>>>>)
                       ELSE <<>>)
                      \o <<DecRef("call", c)>>
                      \o (IF opt.http11 THEN <<>>
                          ELSE <<<<"close_conn_of", s, i>>, <<"forget_conn", s, i>>>>)
           answered == IF bad /\ opt.retry THEN visit[Num(s)].answered ELSE visit[Num(s)].answered + 1
           new == [ci EXCEPT !.successful = TRUE, !.pending = Tail(ci.pending), !.sent = ci.sent - 1]
           m == [mem EXCEPT !.sess[s].ci[i] = new]
           count == mem.sess[z].completed + 1
           n == [m EXCEPT !.sess[z].completed = count]
<1>1. stack # <<>> /\ stack[1][1] = "call_done" /\ UNCHANGED <<stat, gen>>
  BY DEF call_done, Top
<1>2. MemOK(mem, opt)
  BY DEF Shape
<1>3. c \in DOMAIN mem.call /\ k \in DOMAIN mem.conn /\ s \in DOMAIN mem.sess /\ i \in 1..opt.conns
  <2>1. c \in DOMAIN mem.call
    BY <1>1, Args DEF CallCalls
  <2>2. k \in DOMAIN mem.conn
    BY <1>1 DEF Shape, TopOK, Arg
  <2> QED BY <1>2, <2>1, <2>2, Pointers
<1>4. z \in DOMAIN mem.sess
  <2>1. z # NULL
    BY <1>1, <1>3 DEF Shape, TopOK
  <2> QED BY <1>2, <1>3, <2>1, Pointers
<1>5. SessOK(mem.sess[s], mem, opt)
  BY <1>3, RingOf
<1>6. stack' = calls \o Tail(stack)
  BY DEF call_done, Run
<1>7. visit' = [visit EXCEPT ![Num(s)].replies = @ + 1, ![Num(s)].answered = answered]
  BY DEF call_done
<1>8. mem' = n
  BY DEF call_done
<1>9. Told
  <2> DEFINE j == Num(s)  v == visit[j]  w == [v EXCEPT !.replies = @ + 1, !.answered = answered]
  <2>1. visit \in [1..NumSessions -> VisitRecs] /\ j \in 1..NumSessions
    BY <1>5 DEF Shape, SessOK, Num
  <2>2. v \in VisitRecs
    BY <2>1
  <2>3. visit' = [visit EXCEPT ![j] = w]
    BY <1>7, <2>1
  <2> HIDE DEF answered, j, v
  <2>4. w.phase = v.phase
    BY <2>2 DEF VisitRecs
  <2> HIDE DEF w
  <2> QED BY <1>1, <2>1, <2>3, <2>4, VisitTold DEF v
<1>10. Calm(calls)
  BY DoneCalm
<1> HIDE DEF calls, c, k, s, i, z, new, count
<1> DEFINE o == mem.sess[s]  r == [o EXCEPT !.ci[i] = new]
<1>11. m = [mem EXCEPT !.sess[s] = r]
  OBVIOUS
<1>12. r.ref = o.ref /\ r.num = o.num
  BY <1>5, TableChanged
<1>13. r = [f \in SessFields |-> r[f]] /\ \A x \in DOMAIN mem.sess : mem.sess[x] = [f \in SessFields |-> mem.sess[x][f]]
  <2>1. \A x \in DOMAIN mem.sess : mem.sess[x] = [f \in SessFields |-> mem.sess[x][f]]
    BY <1>2 DEF MemOK, SessOK
  <2>2. o = [f \in SessFields |-> o[f]]
    BY <1>3, <2>1
  <2> HIDE DEF o
  <2> QED BY <2>1, <2>2 DEF SessFields
<1> HIDE DEF r, m
<1>14. m.call = mem.call /\ m.conn = mem.conn /\ m.free = mem.free /\ m.sess = [mem.sess EXCEPT ![s] = r]
       /\ m = [f \in {"sess", "conn", "call", "free"} |-> m[f]]
  BY <1>2, <1>11 DEF MemOK
<1> DEFINE p == m.sess[z]  t == [p EXCEPT !.completed = count]
<1>15. p = [f \in SessFields |-> p[f]]
  BY <1>3, <1>4, <1>13, <1>14
<1>16. t.ref = p.ref /\ t.num = p.num
  BY <1>15 DEF SessFields
<1>17. n = [m EXCEPT !.sess[z] = t]
  OBVIOUS
<1> HIDE DEF t, n
<1>18. n.conn = mem.conn /\ n.free = mem.free /\ n.sess = [m.sess EXCEPT ![z] = t]
  BY <1>14, <1>17
<1>19. DOMAIN n.sess = DOMAIN mem.sess
       /\ \A x \in DOMAIN mem.sess : n.sess[x].ref = mem.sess[x].ref /\ n.sess[x].num = mem.sess[x].num
  BY <1>3, <1>4, <1>12, <1>14, <1>16, <1>18
<1>20. SessKept /\ ConnKept
  BY <1>8, <1>9, <1>18, <1>19, KeptCells
<1>21. AsideS(stack[1]) /\ AsideC(stack[1])
  BY <1>1 DEF AsideS, AsideC
<1> QED BY <1>1, <1>6, <1>10, <1>20, <1>21, SilentStep DEF Silent

\* A call is created.
LEMMA CreateCallSilent ==
  ASSUME Shape, stack # <<>>, stack[1][1] \in StillCalls, NEW s \in DOMAIN mem.sess,
         NEW o, o.ref = mem.sess[s].ref, o.num = mem.sess[s].num, NEW links, NEW b, Still(b),
         CreateCall(s, o, links, <<b>>), UNCHANGED <<stat, gen>>
  PROVE  Silent
<1> DEFINE c == New("call")
           call == [ref |-> 1, sess |-> NULL, conn |-> NULL, links |-> links,
                    cut |-> FALSE, whole |-> TRUE]
           m == object_new(mem, "call", call)  n == [m EXCEPT !.sess[s] = o]
           a == <<"session_issue_call", s, c>>  d == DecRef("call", c)
           v == o.num  w == [visit[v] EXCEPT !.issued = @ + 1]
           calls == <<a, d, b>>
<1>1. mem' = n /\ stack' = <<a, d>> \o <<b>> \o Tail(stack)
      /\ visit' = [visit EXCEPT ![v].issued = @ + 1]
  BY DEF CreateCall, Run
<1>2. MemOK(mem, opt) /\ visit \in [1..NumSessions -> VisitRecs] /\ SessOK(mem.sess[s], mem, opt)
  BY DEF Shape, MemOK
<1> HIDE DEF c, m
<1>3. Allocated(mem, m, "call", c, call)
  BY <1>2, Allocates DEF m, c, Types
<1> HIDE DEF call
<1>4. m.sess = mem.sess /\ m.conn = mem.conn /\ m.free["sess"] = mem.free["sess"]
      /\ m.free["conn"] = mem.free["conn"] /\ m = [sess |-> m.sess, conn |-> m.conn, call |-> m.call, free |-> m.free]
  BY <1>3 DEF Allocated, Types
<1> HIDE DEF n
<1>5. n.conn = m.conn /\ n.free = m.free /\ n.sess = [m.sess EXCEPT ![s] = o]
  BY <1>4 DEF n
<1>6. Told
  <2>1. v \in 1..NumSessions
    BY <1>2 DEF SessOK
  <2> HIDE DEF v
  <2>2. visit[v] \in VisitRecs
    BY <1>2, <2>1
  <2>3. w.phase = visit[v].phase
    BY <2>2 DEF VisitRecs
  <2>4. visit' = [visit EXCEPT ![v] = w]
    BY <1>1
  <2> HIDE DEF w
  <2> QED BY <2>1, <2>3, <2>4, VisitTold
<1>7. SessKept /\ ConnKept
  <2>1. \A x \in DOMAIN mem.sess : n.sess[x].ref = mem.sess[x].ref /\ n.sess[x].num = mem.sess[x].num
    BY <1>4, <1>5
  <2>2. DOMAIN n.sess = DOMAIN mem.sess /\ n.conn = mem.conn /\ n.free["sess"] = mem.free["sess"]
        /\ n.free["conn"] = mem.free["conn"]
    BY <1>4, <1>5
  <2> QED BY <1>1, <1>6, <2>1, <2>2, KeptCells
<1>8. Still(a) /\ Still(d)
  <2>1. Still(a)
    BY StillFrames DEF StillCalls
  <2>2. Still(d)
    BY StillFrames
  <2> QED BY <2>1, <2>2
<1> HIDE DEF a, d
<1>9. Calm(calls)
  BY <1>8, CalmFew
<1>10. stack' = calls \o Tail(stack)
  <2>1. Cat(<<a, d>>, <<b>>) = calls
    BY JoinFew
  <2> QED BY <1>1, <2>1 DEF Cat
<1> HIDE DEF calls
<1>11. AsideS(stack[1]) /\ AsideC(stack[1])
  BY DEF StillCalls, AsideS, AsideC
<1> QED BY <1>7, <1>9, <1>10, <1>11, SilentStep DEF Silent

\* The calls of bursts and pages.
LEMMA CreateSilent == Shape /\ (CreateInBurst \/ CreateEmbedded) => Silent
<1> SUFFICES ASSUME Shape, CreateInBurst \/ CreateEmbedded PROVE Silent
  OBVIOUS
<1> DEFINE s == Arg(1)  o == mem.sess[s]
<1>1. stack # <<>> /\ stack[1][1] \in {"create_calls", "create_embedded"} /\ UNCHANGED <<stat, gen>>
  BY DEF CreateInBurst, CreateEmbedded, Top
<1>2. s \in DOMAIN mem.sess /\ stack[1][1] \in StillCalls
  BY <1>1, Args DEF SessCalls, StillCalls
<1>3. o = [f \in SessFields |-> o[f]]
  BY <1>2 DEF Shape, MemOK, SessOK
<1>4. CASE CreateInBurst
  <2> DEFINE n == Arg(2) - 1
             created == IF opt.gen = "wsesspage" THEN o.created + 1 ELSE o.created
             r == [o EXCEPT !.created = created, !.req = @ + 1]  b == <<"create_calls", s, n>>
  <2>1. CreateCall(s, r, opt.links, <<b>>)
    BY <1>4 DEF CreateInBurst
  <2> HIDE DEF created, n
  <2>2. r.ref = o.ref /\ r.num = o.num
    BY <1>3 DEF SessFields
  <2>3. Still(b)
    BY StillFrames DEF StillCalls
  <2> HIDE DEF b, s, r
  <2> QED BY <1>1, <1>2, <2>1, <2>2, <2>3, CreateCallSilent
<1>5. CASE CreateEmbedded
  <2> DEFINE n == Arg(2) - 1
             r == [o EXCEPT !.created = @ + 1, !.uris = @ - 1]  b == <<"create_embedded", s, n>>
  <2>1. CreateCall(s, r, 0, <<b>>)
    BY <1>5 DEF CreateEmbedded
  <2> HIDE DEF n
  <2>2. r.ref = o.ref /\ r.num = o.num
    BY <1>3 DEF SessFields
  <2>3. Still(b)
    BY StillFrames DEF StillCalls
  <2> HIDE DEF b, s, r
  <2> QED BY <1>1, <1>2, <2>1, <2>2, <2>3, CreateCallSilent
<1> QED BY <1>4, <1>5

\* core_send queues calls: it leaves references and states of connections alone.
LEMMA CoreSendKeeps ==
  ASSUME NEW m, NEW op, MemOK(m, op), NEW k \in DOMAIN m.conn, NEW q
  PROVE  LET n == CoreSend(m, k, q)
         IN  /\ n = [sess |-> n.sess, conn |-> n.conn, call |-> n.call, free |-> n.free]
             /\ n.sess = m.sess /\ n.free = m.free /\ DOMAIN n.conn = DOMAIN m.conn
             /\ \A x \in DOMAIN m.conn : n.conn[x].ref = m.conn[x].ref /\ n.conn[x].state = m.conn[x].state
<1> DEFINE n == CoreSend(m, k, q)
           mask == IF q # <<>> /\ m.conn[k].sendq = <<>> THEN "out" ELSE m.conn[k].mask
           sendq == m.conn[k].sendq \o q
           r == [m.conn[k] EXCEPT !.sendq = sendq, !.mask = mask]
           conn == [m.conn EXCEPT ![k] = r]
<1>1. m = [sess |-> m.sess, conn |-> m.conn, call |-> m.call, free |-> m.free]
      /\ m.conn[k] \in Conns(m, op)
  BY DEF MemOK
<1>2. sendq = m.conn[k].sendq \o q
  OBVIOUS
<1> HIDE DEF sendq
<1>3. n.sess = m.sess /\ n.conn = conn /\ n.free = m.free
  BY <1>1, <1>2 DEF CoreSend
<1>4. n = [f \in DOMAIN m |-> n[f]]
  BY DEF CoreSend
<1>5. DOMAIN m = {"sess", "conn", "call", "free"}
  BY <1>1
<1> HIDE DEF n, mask
<1>6. n = [sess |-> n.sess, conn |-> n.conn, call |-> n.call, free |-> n.free]
  BY <1>4, <1>5
<1>7. r.ref = m.conn[k].ref /\ r.state = m.conn[k].state
  BY <1>1 DEF Conns
<1> HIDE DEF r
<1> QED BY <1>3, <1>6, <1>7 DEF n

\* send_calls sends, or has a connection created.
LEMMA SendCallsSilent == Shape /\ send_calls /\ UNCHANGED gen => Silent
<1> SUFFICES ASSUME Shape, send_calls, UNCHANGED gen PROVE Silent
  OBVIOUS
<1> DEFINE s == Arg(1)  i == Arg(2)  ci == Ci(s, i)
           unsent == SubSeq(ci.pending, ci.sent + 1, Len(ci.pending))
           m == CoreSend(mem, ci.conn, unsent)
           n == [m EXCEPT !.sess[s].ci[i].sent = Len(ci.pending)]
           a == <<"create_conn", s, i>>
           calls == IF ci.conn = NULL THEN <<a>> ELSE <<>>
<1>1. stack # <<>> /\ stack[1][1] = "send_calls" /\ stack' = calls \o Tail(stack)
      /\ UNCHANGED <<stat, visit, gen>>
      /\ mem' = IF ci.conn # NULL /\ ci.connected THEN n ELSE mem
  BY DEF send_calls, Top, Run
<1>2. s \in DOMAIN mem.sess /\ i \in 1..opt.conns
  BY <1>1, Args DEF SessCalls, RingCalls
<1>3. MemOK(mem, opt)
  BY DEF Shape
<1>4. SessOK(mem.sess[s], mem, opt) /\ ci \in Rings(mem) /\ ci = mem.sess[s].ci[i]
  BY <1>2, RingOf
<1>5. Still(a)
  BY StillFrames DEF StillCalls
<1>6. Told /\ AsideS(stack[1]) /\ AsideC(stack[1]) /\ stack[1][1] \in StillCalls
  BY <1>1, ToldSame DEF AsideS, AsideC, StillCalls
<1> HIDE DEF a, m, unsent
<1>7. Calm(calls)
  BY <1>5, CalmFew
<1> HIDE DEF calls, ci
<1>8. CASE ci.conn # NULL /\ ci.connected
  <2>1. ci.conn \in DOMAIN mem.conn
    BY <1>4, <1>8 DEF Rings
  <2>2. /\ m = [sess |-> m.sess, conn |-> m.conn, call |-> m.call, free |-> m.free]
        /\ m.sess = mem.sess /\ m.free = mem.free /\ DOMAIN m.conn = DOMAIN mem.conn
        /\ \A x \in DOMAIN mem.conn : m.conn[x].ref = mem.conn[x].ref /\ m.conn[x].state = mem.conn[x].state
    BY <1>3, <2>1, CoreSendKeeps DEF m
  <2> DEFINE o == m.sess[s]  new == [ci EXCEPT !.sent = Len(ci.pending)]  r == [o EXCEPT !.ci[i] = new]
  <2>3. n = [m EXCEPT !.sess[s] = r]
    BY <1>4, <2>2
  <2> HIDE DEF new
  <2>4. r.ref = o.ref /\ r.num = o.num
    BY <1>4, <2>2, TableChanged
  <2> HIDE DEF r, n
  <2>5. n.sess = [mem.sess EXCEPT ![s] = r] /\ n.conn = m.conn /\ n.free = mem.free
    BY <2>2, <2>3
  <2>6. DOMAIN n.sess = DOMAIN mem.sess
        /\ \A x \in DOMAIN mem.sess : n.sess[x].ref = mem.sess[x].ref /\ n.sess[x].num = mem.sess[x].num
    BY <1>2, <2>2, <2>4, <2>5
  <2>7. mem' = n
    BY <1>1, <1>8
  <2>8. SessKept /\ ConnKept
    BY <1>6, <2>2, <2>5, <2>6, <2>7, KeptCells
  <2> QED BY <1>1, <1>6, <1>7, <2>8, SilentStep DEF Silent
<1>9. CASE ~(ci.conn # NULL /\ ci.connected)
  <2>1. mem' = mem
    BY <1>1, <1>9
  <2> QED BY <1>1, <1>6, <1>7, <2>1, SilentSame
<1> QED BY <1>8, <1>9

\* The ring takes a call.
LEMMA IssueCallSilent == Shape /\ session_issue_call /\ UNCHANGED gen => Silent
<1> SUFFICES ASSUME Shape, session_issue_call, UNCHANGED gen PROVE Silent
  OBVIOUS
<1> DEFINE s == Arg(1)  c == Arg(2)
           room == {j \in 1..opt.conns : Len(Ci(s, j).pending) < opt.piped}
           i == CHOOSE i \in room : \A j \in room : i <= j
           ci == Ci(s, i)  longer == Append(ci.pending, c)
           call == [mem.call EXCEPT ![c] = [mem.call[c] EXCEPT !.sess = s, !.ref = @ + 1]]
           a == <<"send_calls", s, i>>
<1>1. stack # <<>> /\ stack[1][1] = "session_issue_call" /\ UNCHANGED <<stat, visit, gen>>
  BY DEF session_issue_call, Top
<1>2. s \in DOMAIN mem.sess /\ c \in DOMAIN mem.call
  BY <1>1, Args DEF SessCalls
<1>3. MemOK(mem, opt)
  BY DEF Shape
<1>4. Told /\ AsideS(stack[1]) /\ AsideC(stack[1]) /\ stack[1][1] \in StillCalls
  BY <1>1, ToldSame DEF AsideS, AsideC, StillCalls
<1>5. CASE room = {}
  <2> DEFINE calls == <<>>
  <2>1. mem' = mem /\ stack' = calls \o Tail(stack)
    BY <1>5 DEF session_issue_call, Return, Run
  <2>2. Calm(calls)
    BY CalmFew
  <2> HIDE DEF calls
  <2> QED BY <1>1, <1>4, <2>1, <2>2, SilentSame
<1>6. CASE room # {}
  <2> DEFINE calls == <<a>>
  <2>1. mem' = [mem EXCEPT !.call[c].sess = s, !.call[c].ref = @ + 1,
                           !.sess[s].ci[i].pending = Append(@, c)]
        /\ stack' = calls \o Tail(stack)
    BY <1>6 DEF session_issue_call, Run
  <2>2. Still(a)
    BY StillFrames DEF StillCalls
  <2> HIDE DEF a, room, i, s, c
  <2>3. SessOK(mem.sess[s], mem, opt) /\ ci = mem.sess[s].ci[i]
    BY <1>2, <1>3 DEF MemOK, Ci
  <2> DEFINE o == mem.sess[s]  new == [ci EXCEPT !.pending = longer]  t == [o EXCEPT !.ci[i] = new]
             n == [mem EXCEPT !.call = call, !.sess[s] = t]
  <2>4. mem' = n
    <3>1. longer = Append(ci.pending, c)
      OBVIOUS
    <3>2. call = [mem.call EXCEPT ![c].sess = s, ![c].ref = @ + 1]
      BY <1>2
    <3> HIDE DEF longer, call
    <3> QED BY ZenonT(60), <1>3, <2>1, <2>3, <3>1, <3>2 DEF MemOK
  <2> HIDE DEF new, call, ci
  <2>5. t.ref = o.ref /\ t.num = o.num
    BY <2>3, TableChanged
  <2> HIDE DEF t
  <2>6. n.sess = [mem.sess EXCEPT ![s] = t] /\ n.conn = mem.conn /\ n.free = mem.free
    BY <1>3 DEF MemOK
  <2> HIDE DEF n
  <2>7. DOMAIN n.sess = DOMAIN mem.sess
        /\ \A x \in DOMAIN mem.sess : n.sess[x].ref = mem.sess[x].ref /\ n.sess[x].num = mem.sess[x].num
    BY <1>2, <2>5, <2>6
  <2>8. SessKept /\ ConnKept
    BY <1>4, <2>4, <2>6, <2>7, KeptCells
  <2>9. Calm(calls)
    BY <2>2, CalmFew
  <2> HIDE DEF calls
  <2> QED BY <1>1, <1>4, <2>1, <2>8, <2>9, SilentStep DEF Silent
<1> QED BY <1>5, <1>6

\* A call that changes one connection, and not its reference
LEMMA SilentConnStep ==
  ASSUME Shape, stack # <<>>, AsideS(stack[1]), AsideC(stack[1]), NEW calls, Calm(calls),
         stack' = calls \o Tail(stack), UNCHANGED <<stat, visit, gen>>, NEW k \in DOMAIN mem.conn, NEW r,
         mem' = [mem EXCEPT !.conn[k] = r], r.ref = mem.conn[k].ref,
         r.state = mem.conn[k].state \/ (r.state \in Open /\ mem.conn[k].state \in Open)
  PROVE  Silent
<1>1. SessKept /\ ConnKept
  BY KeptConn, ToldSame DEF Shape
<1> QED BY <1>1, SilentStep DEF Silent

\* recv_done takes a call from the receive queue.
LEMMA RecvDoneSilent == Shape /\ recv_done /\ verdict' = "none" /\ UNCHANGED gen => Silent
<1> SUFFICES ASSUME Shape, recv_done, verdict' = "none", UNCHANGED gen PROVE Silent
  OBVIOUS
<1> DEFINE c == Arg(1)  k == mem.call[c].conn  o == mem.conn[k]  queue == Tail(o.recvq)
           mask == IF Len(o.recvq) = 1 THEN "out" ELSE o.mask
           r == [o EXCEPT !.recvq = queue, !.mask = mask]
           a == <<"call_done", c, Arg(2)>>  b == DecRef("call", c)  calls == <<a, b>>
<1>1. stack # <<>> /\ stack[1][1] = "recv_done" /\ stack' = calls \o Tail(stack)
      /\ UNCHANGED <<stat, visit, gen>> /\ k # NULL
      /\ mem' = [mem EXCEPT !.conn[k].recvq = Tail(@), !.conn[k].mask = mask]
  BY DEF recv_done, Top, Run, Check
<1>2. MemOK(mem, opt)
  BY DEF Shape
<1>3. c \in DOMAIN mem.call /\ k \in DOMAIN mem.conn
  BY <1>1, <1>2, Args, Pointers DEF CallCalls
<1>4. o \in Conns(mem, opt)
  BY <1>2, <1>3 DEF MemOK
<1>5. mem' = [mem EXCEPT !.conn[k] = r]
  <2>1. queue = Tail(o.recvq)
    OBVIOUS
  <2> HIDE DEF mask, queue
  <2> QED BY <1>1, <1>2, <1>3, <1>4, <2>1 DEF MemOK, Conns
<1>6. r.ref = o.ref /\ r.state = o.state
  <2> HIDE DEF mask, queue
  <2> QED BY <1>4 DEF Conns
<1>7. Still(a) /\ Still(b)
  <2>1. Still(a)
    BY StillFrames DEF StillCalls
  <2>2. Still(b)
    BY StillFrames
  <2> QED BY <2>1, <2>2
<1>8. AsideS(stack[1]) /\ AsideC(stack[1])
  BY <1>1 DEF AsideS, AsideC
<1> HIDE DEF a, b
<1>9. Calm(calls)
  BY <1>7, CalmFew
<1> HIDE DEF calls, r, k
<1> QED BY <1>1, <1>3, <1>5, <1>6, <1>8, <1>9, SilentConnStep

\* The stages of a connection that is being established
LEMMA ConnectSilent ==
  Shape /\ ConnLedger /\ (ConnectInProgress \/ ConnectAtOnce) /\ UNCHANGED gen => Silent
<1> SUFFICES ASSUME Shape, ConnLedger, ConnectInProgress \/ ConnectAtOnce, UNCHANGED gen PROVE Silent
  OBVIOUS
<1> DEFINE k == Arg(1)  o == mem.conn[k]  a == <<"conn_connected", k>>
<1>1. stack # <<>> /\ stack[1][1] = "core_connect" /\ UNCHANGED <<stat, visit, gen>>
  BY DEF ConnectInProgress, ConnectAtOnce, Top
<1>2. k \in DOMAIN mem.conn
  BY <1>1, Args DEF ConnCalls
<1>3. o \in Conns(mem, opt) /\ o.state \in Open
  BY <1>1, <1>2 DEF Shape, MemOK, ConnLedger, Connecting, Arg
<1>4. AsideS(stack[1]) /\ AsideC(stack[1])
  BY <1>1 DEF AsideS, AsideC
<1>5. Still(a)
  BY StillFrames DEF StillCalls
<1> HIDE DEF a
<1>6. CASE ConnectInProgress
  <2> DEFINE r == [o EXCEPT !.state = "CONNECTING"]  calls == <<>>
  <2>1. mem' = [mem EXCEPT !.conn[k] = r] /\ stack' = calls \o Tail(stack)
    BY <1>6 DEF ConnectInProgress, Return, Run
  <2>2. r.ref = o.ref /\ r.state \in Open
    BY <1>3 DEF Conns, Open
  <2>3. Calm(calls)
    BY CalmFew
  <2> HIDE DEF calls, r, k
  <2> QED BY <1>1, <1>2, <1>3, <1>4, <2>1, <2>2, <2>3, SilentConnStep
<1>7. CASE ConnectAtOnce
  <2> DEFINE r == [o EXCEPT !.state = "CONNECTED"]  calls == <<a>>
  <2>1. mem' = [mem EXCEPT !.conn[k] = r] /\ stack' = calls \o Tail(stack)
    BY <1>7 DEF ConnectAtOnce, Run, a
  <2>2. r.ref = o.ref /\ r.state \in Open
    BY <1>3 DEF Conns, Open
  <2>3. Calm(calls)
    BY <1>5, CalmFew
  <2> HIDE DEF calls, r, k
  <2> QED BY <1>1, <1>2, <1>3, <1>4, <2>1, <2>2, <2>3, SilentConnStep
<1> QED BY <1>6, <1>7

\* The rest of a read
LEMMA DoRecvSilent == Shape /\ do_recv /\ verdict' = "none" => Silent
<1> SUFFICES ASSUME Shape, do_recv, verdict' = "none" PROVE Silent
  OBVIOUS
<1> DEFINE k == Arg(1)  n == Arg(2) - 1
           conn == mem.conn[k]  q == conn.recvq  c == Head(q)
<1>1. stack # <<>> /\ stack[1][1] = "do_recv" /\ UNCHANGED <<stat, visit, gen>>
  BY DEF do_recv, Top
<1>2. k \in DOMAIN mem.conn
  BY <1>1, Args DEF ConnCalls
<1>3. conn \in Conns(mem, opt) /\ MemOK(mem, opt)
  BY <1>2 DEF Shape, MemOK
<1>4. AsideS(stack[1]) /\ AsideC(stack[1]) /\ stack[1][1] \in StillCalls /\ Told
  BY <1>1, ToldSame DEF AsideS, AsideC, StillCalls
<1>5. \/ /\ mem' = [mem EXCEPT !.conn[k].mask = IF q # <<>> /\ conn.state \in Open THEN "in" ELSE @]
         /\ stack' = <<>> \o Tail(stack)
      \/ /\ mem' = [mem EXCEPT !.call[c].links = @ - 1]
         /\ stack' = <<<<"fetch_uri", mem.call[c].sess>>, <<"do_recv", k, n, "link">>>> \o Tail(stack)
      \/ /\ mem' = mem
         /\ \E bad \in BOOLEAN :
              stack' = <<<<"recv_done", c, bad>>, <<"do_recv", k, n, "reply">>>> \o Tail(stack)
  BY DEF do_recv, Return, Run
<1>6. CASE /\ mem' = [mem EXCEPT !.conn[k].mask = IF q # <<>> /\ conn.state \in Open THEN "in" ELSE @]
           /\ stack' = <<>> \o Tail(stack)
  <2> DEFINE mask == IF q # <<>> /\ conn.state \in Open THEN "in" ELSE conn.mask
             r == [conn EXCEPT !.mask = mask]  calls == <<>>
  <2>1. mem' = [mem EXCEPT !.conn[k] = r] /\ stack' = calls \o Tail(stack)
    BY <1>6
  <2> HIDE DEF mask
  <2>2. r.ref = conn.ref /\ r.state = conn.state
    BY <1>3 DEF Conns
  <2>3. Calm(calls)
    BY CalmFew
  <2> HIDE DEF r, calls, k
  <2> QED BY <1>1, <1>2, <1>4, <2>1, <2>2, <2>3, SilentConnStep
<1>7. CASE /\ mem' = [mem EXCEPT !.call[c].links = @ - 1]
           /\ stack' = <<<<"fetch_uri", mem.call[c].sess>>, <<"do_recv", k, n, "link">>>> \o Tail(stack)
  <2> DEFINE a == <<"fetch_uri", mem.call[c].sess>>  b == <<"do_recv", k, n, "link">>  calls == <<a, b>>
             new == [mem EXCEPT !.call[c].links = @ - 1]
  <2>1. mem' = new /\ stack' = calls \o Tail(stack)
    BY <1>7
  <2>2. new.sess = mem.sess /\ new.conn = mem.conn /\ new.free = mem.free
    BY <1>3 DEF MemOK
  <2> HIDE DEF new
  <2>3. SessKept /\ ConnKept
    BY <1>4, <2>1, <2>2, KeptCall
  <2>4. Still(a) /\ Still(b)
    BY StillFrames DEF StillCalls
  <2> HIDE DEF a, b
  <2>5. Calm(calls)
    BY <2>4, CalmFew
  <2> HIDE DEF calls
  <2> QED BY <1>1, <1>4, <2>1, <2>3, <2>5, SilentStep DEF Silent
<1>8. ASSUME mem' = mem, NEW bad \in BOOLEAN,
             stack' = <<<<"recv_done", c, bad>>, <<"do_recv", k, n, "reply">>>> \o Tail(stack)
      PROVE  Silent
  <2> DEFINE a == <<"recv_done", c, bad>>  b == <<"do_recv", k, n, "reply">>  calls == <<a, b>>
  <2>1. stack' = calls \o Tail(stack)
    BY <1>8
  <2>2. Still(a) /\ Still(b)
    BY StillFrames DEF StillCalls
  <2> HIDE DEF a, b
  <2>3. Calm(calls)
    BY <2>2, CalmFew
  <2> HIDE DEF calls
  <2> QED BY <1>1, <1>4, <1>8, <2>1, <2>3, SilentSame
<1> QED BY <1>5, <1>6, <1>7, <1>8

\* The end of the references to a call.
LEMMA CallRefsSilent ==
  Shape /\ (object_dec_ref \/ free) /\ Arg(1) = "call" /\ UNCHANGED <<stat, visit, gen>> => Silent
<1> SUFFICES ASSUME Shape, object_dec_ref \/ free, Arg(1) = "call", UNCHANGED <<stat, visit, gen>>
             PROVE  Silent
  OBVIOUS
<1> DEFINE x == Arg(2)
<1>1. stack # <<>> /\ stack[1][1] \in {"object_dec_ref", "free"}
  BY DEF object_dec_ref, free, Top
<1>2. AsideS(stack[1]) /\ AsideC(stack[1]) /\ Told /\ MemOK(mem, opt)
  BY <1>1, ToldSame DEF AsideS, AsideC, Arg, Shape
<1>3. CASE object_dec_ref
  <2> DEFINE n == [mem EXCEPT !.call[x].ref = @ - 1]  a == <<"object_destroy", "call", x>>
             calls == IF mem.call[x].ref = 1 THEN <<a>> ELSE <<>>
  <2>1. mem' = [mem EXCEPT !["call"][x].ref = @ - 1]
        /\ stack' = (IF mem["call"][x].ref = 1 THEN <<<<"object_destroy", "call", x>>>> ELSE <<>>) \o Tail(stack)
    BY <1>3 DEF object_dec_ref, Run
  <2>2. mem' = n /\ stack' = calls \o Tail(stack)
    BY <2>1
  <2>3. n.sess = mem.sess /\ n.conn = mem.conn /\ n.free = mem.free
    BY <1>2 DEF MemOK
  <2> HIDE DEF n
  <2>4. SessKept /\ ConnKept
    BY <1>2, <2>2, <2>3, KeptCall
  <2>5. Still(a)
    BY DEF Still, AsideS, AsideC
  <2> HIDE DEF a
  <2>6. Calm(calls)
    BY <2>5, CalmFew
  <2> HIDE DEF calls
  <2> QED BY <1>1, <1>2, <2>2, <2>4, <2>6, SilentStep DEF Silent
<1>4. CASE free
  <2> DEFINE n == [mem EXCEPT !.free["call"] = <<x>> \o @]  calls == <<>>
  <2>1. mem' = n /\ stack' = calls \o Tail(stack)
    BY <1>4 DEF free, Return, Run
  <2>2. n.sess = mem.sess /\ n.conn = mem.conn /\ n.free["sess"] = mem.free["sess"]
        /\ n.free["conn"] = mem.free["conn"]
    BY <1>2 DEF MemOK, Types
  <2> HIDE DEF n
  <2>3. SessKept /\ ConnKept
    BY <1>2, <2>1, <2>2, KeptCall
  <2>4. Calm(calls)
    BY CalmFew
  <2> HIDE DEF calls
  <2> QED BY <1>1, <1>2, <2>1, <2>3, <2>4, SilentStep DEF Silent
<1> QED BY <1>3, <1>4

-----------------------------------------------------------------------------
(* The calls that destroy, free and create sessions *)

\* The numbers after a call that makes at most two others.
LEMMA PushedFew ==
  ASSUME NEW X, NEW st, Sized(st), st # <<>>
  PROVE  LET n == Number(X, st) - (IF st[1] \in X THEN 1 ELSE 0)
         IN  /\ Number(X, Pushed(<<>>, st)) = n
             /\ \A a : Number(X, Pushed(<<a>>, st)) = (IF a \in X THEN 1 ELSE 0) + n
             /\ \A a, b : Number(X, Pushed(<<a, b>>, st))
                            = (IF a \in X THEN 1 ELSE 0) + (IF b \in X THEN 1 ELSE 0) + n
<1> DEFINE k == IF st[1] \in X THEN 1 ELSE 0  y == Number(X, st)
<1>1. y \in Nat /\ k \in 0..1
  BY NumberType
<1>2. ASSUME NEW calls, Sized(calls), NEW m \in Nat, Number(X, calls) = m
      PROVE  Number(X, Pushed(calls, st)) = m + (y - k)
  <2> DEFINE z == Number(X, Pushed(calls, st))
  <2>1. z = m + y - k
    BY <1>2, NumberPushed
  <2> HIDE DEF z, y, k
  <2>2. z = m + (y - k)
    BY <1>1, <2>1
  <2> QED BY <2>2 DEF z
<1> HIDE DEF y, k
<1>3. Number(X, Pushed(<<>>, st)) = y - k
  <2>1. Number(X, Pushed(<<>>, st)) = 0 + (y - k)
    BY <1>2, SizedFew, NumberFew
  <2> DEFINE z == Number(X, Pushed(<<>>, st))
  <2> HIDE DEF z
  <2>2. z = y - k
    BY <1>1, <2>1 DEF z
  <2> QED BY <2>2 DEF z
<1>4. ASSUME NEW a PROVE Number(X, Pushed(<<a>>, st)) = (IF a \in X THEN 1 ELSE 0) + (y - k)
  <2> DEFINE m == IF a \in X THEN 1 ELSE 0
  <2>1. Number(X, <<a>>) = m /\ m \in Nat /\ Sized(<<a>>)
    BY SizedFew, NumberFew
  <2> HIDE DEF m
  <2>2. Number(X, Pushed(<<a>>, st)) = m + (y - k)
    BY <1>2, <2>1
  <2> QED BY <2>2 DEF m
<1>5. ASSUME NEW a, NEW b
      PROVE  Number(X, Pushed(<<a, b>>, st))
               = (IF a \in X THEN 1 ELSE 0) + (IF b \in X THEN 1 ELSE 0) + (y - k)
  <2> DEFINE m == (IF a \in X THEN 1 ELSE 0) + (IF b \in X THEN 1 ELSE 0)
  <2>1. Sized(<<a, b>>)
    BY SizedFew
  <2>2. Number(X, <<a, b>>) = m
    BY NumberFew
  <2>3. m \in Nat
    OBVIOUS
  <2> HIDE DEF m
  <2>4. Number(X, Pushed(<<a, b>>, st)) = m + (y - k)
    BY <1>2, <2>1, <2>2, <2>3
  <2> QED BY <2>4 DEF m
<1> QED BY <1>3, <1>4, <1>5 DEF y, k

\* The number in a sequence that has lost its head,
LEMMA NumberTail ==
  ASSUME NEW X, NEW S, NEW q \in Seq(S), q # <<>>
  PROVE  /\ Tail(q) \in Seq(S) /\ Number(X, Tail(q)) \in Nat
         /\ Number(X, q) = (IF Head(q) \in X THEN 1 ELSE 0) + Number(X, Tail(q))
<1>1. Tail(q) \in Seq(S) /\ Head(q) = q[1]
  BY HeadTailProperties
<1>2. Pushed(<<>>, q) = Tail(q)
  BY <1>1, ConcatEmptySeq DEF Pushed
<1>3. Sized(q) /\ Sized(Tail(q))
  BY <1>1, SizedIn
<1> DEFINE y == Number(X, q)  z == Number(X, Tail(q))  k == IF q[1] \in X THEN 1 ELSE 0
<1>4. z = y - k
  <2>1. Number(X, Pushed(<<>>, q)) = Number(X, q) - (IF q[1] \in X THEN 1 ELSE 0)
    BY <1>3, PushedFew
  <2> QED BY <1>2, <2>1
<1>5. y \in Nat /\ z \in Nat /\ k \in 0..1
  BY <1>3, NumberType
<1> HIDE DEF y, z, k
<1>6. y = k + z
  BY <1>4, <1>5
<1> QED BY <1>1, <1>5, <1>6 DEF y, z, k

\* or has got another one.
LEMMA NumberCons ==
  ASSUME NEW X, NEW S, NEW q \in Seq(S), NEW a \in S
  PROVE  Number(X, <<a>> \o q) = (IF a \in X THEN 1 ELSE 0) + Number(X, q)
<1> DEFINE one == <<a>>  p == Cat(one, q)
<1>1. one \in Seq(S) /\ Len(one) = 1 /\ one[1] = a
  OBVIOUS
<1> HIDE DEF one
<1>2. p \in Seq(S) /\ Len(p) = 1 + Len(q)
      /\ \A i \in 1..(1 + Len(q)) : p[i] = IF i <= 1 THEN one[i] ELSE q[i - 1]
  <2>1. p \in Seq(S) /\ Len(p) = Len(one) + Len(q)
        /\ \A i \in 1..(Len(one) + Len(q)) : p[i] = IF i <= Len(one) THEN one[i] ELSE q[i - Len(one)]
    BY <1>1, ConcatProperties DEF Cat
  <2> HIDE DEF p
  <2> QED BY <1>1, <2>1
<1>3. Len(q) \in Nat
  BY LenProperties
<1> HIDE DEF p
<1>4. p # <<>> /\ p[1] = a
  BY <1>1, <1>2, <1>3, EmptySeq
<1>5. Tail(p) \in Seq(S) /\ Len(Tail(p)) = Len(p) - 1 /\ Head(p) = p[1]
      /\ \A i \in 1..Len(Tail(p)) : Tail(p)[i] = p[i + 1]
  BY <1>2, <1>4, HeadTailProperties
<1> DEFINE r == Tail(p)
<1> HIDE DEF r
<1>6. r = q
  <2>1. Len(r) = Len(q)
    BY <1>2, <1>3, <1>5 DEF r
  <2>2. \A i \in 1..Len(r) : r[i] = q[i]
    <3> TAKE i \in 1..Len(r)
    <3>1. r[i] = p[i + 1] /\ i + 1 \in 1..(1 + Len(q)) /\ ~(i + 1 <= 1) /\ i + 1 - 1 = i
      BY <1>3, <1>5, <2>1 DEF r
    <3> QED BY <1>2, <3>1
  <2> QED BY <1>5, <2>1, <2>2, SeqEqual DEF r
<1>7. Number(X, p) = (IF Head(p) \in X THEN 1 ELSE 0) + Number(X, Tail(p))
  BY <1>2, <1>4, NumberTail
<1>8. Tail(p) = q /\ Head(p) = a
  BY <1>4, <1>5, <1>6 DEF r
<1>9. Number(X, p) = (IF a \in X THEN 1 ELSE 0) + Number(X, q)
  BY <1>7, <1>8
<1> QED BY <1>9 DEF p, one, Cat

\* The frames of the ledger of sessions
LEMMA SessSets ==
  ASSUME NEW s, NEW t
  PROVE  /\ <<"object_destroy", "sess", s>> \in Dying("sess", t) <=> s = t
         /\ <<"object_destroy", "sess", s>> \in Ending(t) <=> s = t
         /\ <<"free", "sess", s>> \in Ending(t) <=> s = t
         /\ <<"free", "sess", s>> \notin Dying("sess", t)
         /\ <<"object_destroy", "sess", s>> \notin Counting /\ <<"free", "sess", s>> \notin Counting
         /\ <<"gen_sess_destroyed", s>> \notin Ending(t)
         /\ <<"gen_sess_destroyed", s>> \notin Dying("sess", t)
         /\ s \in Nat => <<"gen_sess_destroyed", s>> \in Counting
<1>1. /\ <<"object_destroy", "sess", s>> \in Dying("sess", t) <=> s = t
      /\ <<"free", "sess", s>> \notin Dying("sess", t)
      /\ <<"gen_sess_destroyed", s>> \notin Dying("sess", t)
  BY DEF Dying
<1>2. /\ <<"object_destroy", "sess", s>> \in Ending(t) <=> s = t
      /\ <<"free", "sess", s>> \in Ending(t) <=> s = t
      /\ <<"gen_sess_destroyed", s>> \notin Ending(t)
  BY DEF Ending, Dying, Freeing
<1>3. <<"object_destroy", "sess", s>> \notin Counting /\ <<"free", "sess", s>> \notin Counting
  BY DEF Counting
<1>4. s \in Nat => <<"gen_sess_destroyed", s>> \in Counting
  BY DEF Counting
<1> QED BY <1>1, <1>2, <1>3, <1>4

\* Frames that concern no connection
Easy(f) == AsideC(f) /\ f[1] # "core_connect"

\* Calls that concern no connection, made explicitly.
LEMMA EasyFew ==
  /\ CalmC(<<>>)
  /\ \A a : Easy(a) => CalmC(<<a>>)
  /\ \A a, b : Easy(a) /\ Easy(b) => CalmC(<<a, b>>)
  /\ \A a, b, c : Easy(a) /\ Easy(b) /\ Easy(c) => CalmC(<<a, b, c>>)
  /\ \A a, b, c, d : Easy(a) /\ Easy(b) /\ Easy(c) /\ Easy(d) => CalmC(<<a, b, c, d>>)
<1>1. CalmC(<<>>)
  BY SizedFew DEF CalmC
<1>2. ASSUME NEW a, Easy(a) PROVE CalmC(<<a>>)
  BY <1>2, SizedFew DEF CalmC, Easy
<1>3. ASSUME NEW a, NEW b, Easy(a), Easy(b) PROVE CalmC(<<a, b>>)
  BY <1>3, SizedFew DEF CalmC, Easy
<1>4. ASSUME NEW a, NEW b, NEW c, Easy(a), Easy(b), Easy(c) PROVE CalmC(<<a, b, c>>)
  BY <1>4, SizedFew DEF CalmC, Easy
<1>5. ASSUME NEW a, NEW b, NEW c, NEW d, Easy(a), Easy(b), Easy(c), Easy(d)
      PROVE  CalmC(<<a, b, c, d>>)
  BY <1>5, SizedFew DEF CalmC, Easy
<1> QED BY <1>1, <1>2, <1>3, <1>4, <1>5

\* The numbers of a session in the ledger are small.
LEMMA SessNumbers ==
  ASSUME Shape, SessLedger, NEW s \in DOMAIN mem.sess
  PROVE  /\ mem.sess[s].ref \in Nat /\ Number(Ending(s), stack) \in Nat
         /\ Number({s}, mem.free["sess"]) \in Nat /\ Number(Dying("sess", s), stack) \in Nat
         /\ mem.sess[s].ref + Number(Ending(s), stack) + Number({s}, mem.free["sess"]) = 1
         /\ Number(Dying("sess", s), stack) <= Number(Ending(s), stack)
         /\ s \in Nat /\ mem.sess[s].num \in 1..NumSessions
<1>1. Sized(stack) /\ MemOK(mem, opt)
  BY DEF Shape, StackOK
<1>2. mem.sess[s].ref \in Nat /\ mem.sess[s].num \in 1..NumSessions
  BY <1>1 DEF MemOK, SessOK
<1>3. Sized(mem.free["sess"]) /\ Sized(mem.sess)
  BY <1>1, SizedIn DEF MemOK, Types
<1>4. At(Dying("sess", s), stack) \subseteq At(Ending(s), stack)
  BY DEF At, Ending
<1>5. Number(Dying("sess", s), stack) <= Number(Ending(s), stack)
  BY <1>1, <1>4, NumberType, FS_Subset DEF Number
<1>6. s \in Nat
  BY <1>3, SizedLen
<1> QED BY <1>1, <1>2, <1>3, <1>5, <1>6, NumberType DEF SessLedger, SessOnce

\* No session comes alive and none is told over.
LEMMA SessRest ==
  ASSUME Shape, SessLedger, SessOnce', DOMAIN mem'.sess = DOMAIN mem.sess,
         \A s \in DOMAIN mem.sess : (Live(s)' => Live(s)) /\ mem'.sess[s].num = mem.sess[s].num,
         UNCHANGED <<stat, visit>>, gen'.generated = gen.generated, Counted', Running'
  PROVE  SessLedger'
<1>1. SessOpen'
  BY DEF SessLedger, SessOpen
<1>2. SessApart'
  BY DEF SessLedger, SessApart
<1>3. NewLater'
  BY DEF SessLedger, NewLater
<1>4. Tallied'
  BY DEF SessLedger, Tallied, Visited
<1> QED BY <1>1, <1>2, <1>3, <1>4 DEF SessLedger

\* A session loses its last reference: it is to be destroyed.
LEMMA SessDecRef ==
  Shape /\ SessLedger /\ object_dec_ref /\ Arg(1) = "sess" /\ verdict' = "none"
    /\ UNCHANGED <<stat, visit, gen>>
  => SessLedger' /\ ConnSilent
<1> SUFFICES ASSUME Shape, SessLedger, object_dec_ref, Arg(1) = "sess", verdict' = "none",
                    UNCHANGED <<stat, visit, gen>>
             PROVE  SessLedger' /\ ConnSilent
  OBVIOUS
<1> DEFINE s == Arg(2)  o == mem.sess[s]  r == [o EXCEPT !.ref = @ - 1]
           n == [mem EXCEPT !.sess[s] = r]  a == <<"object_destroy", "sess", s>>  calls == <<a>>
<1>1. stack # <<>> /\ stack[1][1] = "object_dec_ref" /\ o.ref > 0 /\ mem' = n
      /\ stack' = (IF o.ref = 1 THEN calls ELSE <<>>) \o Tail(stack)
  BY DEF object_dec_ref, Top, Run, Check
<1>2. s \in DOMAIN mem.sess
  BY <1>1, Args DEF ObjectCalls
<1>3. /\ o.ref = 1 /\ Number(Ending(s), stack) = 0 /\ Number({s}, mem.free["sess"]) = 0
      /\ Number(Dying("sess", s), stack) = 0
  <2> DEFINE e == Number(Ending(s), stack)  f == Number({s}, mem.free["sess"])
             d == Number(Dying("sess", s), stack)  x == o.ref
  <2>1. x \in Nat /\ e \in Nat /\ f \in Nat /\ d \in Nat /\ x + e + f = 1 /\ d <= e /\ x > 0
    BY <1>1, <1>2, SessNumbers
  <2> HIDE DEF e, f, d, x
  <2>2. x = 1 /\ e = 0 /\ f = 0 /\ d = 0
    BY <2>1
  <2> QED BY <2>2 DEF e, f, d, x
<1>4. MemOK(mem, opt) /\ SessOK(o, mem, opt) /\ Sized(stack)
  BY <1>2 DEF Shape, MemOK, StackOK
<1>5. r.ref = 0 /\ r.num = o.num
  BY <1>3, <1>4 DEF SessOK, SessFields
<1>6. n.sess = [mem.sess EXCEPT ![s] = r] /\ n.conn = mem.conn /\ n.free = mem.free
  BY <1>4 DEF MemOK
<1>7. stack' = Pushed(calls, stack)
  BY <1>1, <1>3 DEF Pushed
<1>8. AsideS(stack[1]) /\ AsideC(stack[1]) /\ Easy(a)
  <2>1. stack[1][1] = "object_dec_ref"
    BY <1>1
  <2>2. stack[1][2] = "sess"
    BY DEF Arg
  <2>3. AsideS(stack[1]) /\ AsideC(stack[1])
    BY <2>1, <2>2 DEF AsideS, AsideC
  <2>4. a[1] = "object_destroy" /\ a[2] = "sess"
    OBVIOUS
  <2> HIDE DEF a
  <2>5. Easy(a)
    BY <2>4 DEF Easy, AsideC
  <2> QED BY <2>3, <2>5
<1>9. stack[1] \notin Counting /\ \A t : stack[1] \notin Ending(t) /\ stack[1] \notin Dying("sess", t)
  BY <1>8, Marked
<1> HIDE DEF r, n, s
<1>10. \A t \in DOMAIN mem.sess :
         /\ Number(Ending(t), stack') = (IF s = t THEN 1 ELSE 0) + Number(Ending(t), stack)
         /\ Number(Dying("sess", t), stack') = (IF s = t THEN 1 ELSE 0) + Number(Dying("sess", t), stack)
  <2> TAKE t \in DOMAIN mem.sess
  <2>1. a \in Ending(t) <=> s = t
    BY SessSets
  <2>2. a \in Dying("sess", t) <=> s = t
    BY SessSets
  <2> HIDE DEF a
  <2>3. Number(Ending(t), Pushed(calls, stack))
          = (IF a \in Ending(t) THEN 1 ELSE 0) + (Number(Ending(t), stack) - 0)
    BY <1>1, <1>4, <1>9, PushedFew
  <2>4. Number(Dying("sess", t), Pushed(calls, stack))
          = (IF a \in Dying("sess", t) THEN 1 ELSE 0) + (Number(Dying("sess", t), stack) - 0)
    BY <1>1, <1>4, <1>9, PushedFew
  <2>5. Number(Ending(t), stack) \in Nat /\ Number(Dying("sess", t), stack) \in Nat
    BY SessNumbers
  <2> DEFINE e == Number(Ending(t), stack)  d == Number(Dying("sess", t), stack)
  <2>6. e - 0 = e /\ d - 0 = d
    BY <2>5
  <2> QED BY <1>7, <2>1, <2>2, <2>3, <2>4, <2>6
<1>11. Number(Counting, stack') = Number(Counting, stack)
  <2>1. a \notin Counting
    BY SessSets
  <2> HIDE DEF a
  <2>2. Number(Counting, Pushed(calls, stack)) = 0 + (Number(Counting, stack) - 0)
    BY <1>1, <1>4, <1>9, <2>1, PushedFew
  <2>3. Number(Counting, stack) \in Nat
    BY <1>4, NumberType
  <2> DEFINE c == Number(Counting, stack)
  <2>4. 0 + (c - 0) = c
    BY <2>3
  <2> QED BY <1>7, <2>2, <2>4
<1>12. SessOnce'
  <2> SUFFICES ASSUME NEW t \in DOMAIN mem'.sess
               PROVE  mem'.sess[t].ref + Number(Ending(t), stack') + Number({t}, mem'.free["sess"]) = 1
    BY DEF SessOnce
  <2>1. t \in DOMAIN mem.sess /\ mem'.free = mem.free
    BY <1>1, <1>6
  <2>2. CASE t = s
    <3>1. mem'.sess[t].ref = 0 /\ Number(Ending(t), stack') = 1 + 0 /\ Number({t}, mem'.free["sess"]) = 0
      BY <1>1, <1>2, <1>3, <1>5, <1>6, <1>10, <2>1, <2>2
    <3> QED BY <3>1
  <2>3. CASE t # s
    <3>1. mem'.sess[t].ref = mem.sess[t].ref /\ Number({t}, mem'.free["sess"]) = Number({t}, mem.free["sess"])
      BY <1>1, <1>6, <2>1, <2>3
    <3>2. Number(Ending(t), stack') = 0 + Number(Ending(t), stack) /\ Number(Ending(t), stack) \in Nat
      BY <1>10, <2>1, <2>3, SessNumbers
    <3> DEFINE e == Number(Ending(t), stack)
    <3>3. 0 + e = e
      BY <3>2
    <3> QED BY <2>1, <3>1, <3>2, <3>3 DEF SessLedger, SessOnce
  <2> QED BY <2>2, <2>3
<1>13. \A t \in DOMAIN mem.sess : (Live(t)' => Live(t)) /\ mem'.sess[t].num = mem.sess[t].num
  <2> TAKE t \in DOMAIN mem.sess
  <2>1. CASE t = s
    BY <1>1, <1>2, <1>3, <1>5, <1>6, <2>1 DEF Live
  <2>2. CASE t # s
    <3>1. Number(Dying("sess", t), stack') = 0 + Number(Dying("sess", t), stack)
          /\ Number(Dying("sess", t), stack) \in Nat
      BY <1>10, <2>2, SessNumbers
    <3> DEFINE d == Number(Dying("sess", t), stack)
    <3>2. 0 + d = d
      BY <3>1
    <3> QED BY <1>1, <1>6, <2>2, <3>1, <3>2 DEF Live
  <2> QED BY <2>1, <2>2
<1>14. Counted' /\ Running'
  BY <1>11 DEF SessLedger, Counted, Running
<1>15. SessLedger'
  BY <1>1, <1>6, <1>12, <1>13, <1>14, SessRest
<1>16. ConnKept
  BY <1>1, <1>6 DEF ConnKept
<1> HIDE DEF a
<1>17. CalmC(calls)
  BY <1>8, EasyFew
<1> HIDE DEF calls
<1>18. stack' = calls \o Tail(stack)
  BY <1>7 DEF Pushed
<1> QED BY <1>1, <1>8, <1>15, <1>16, <1>17, <1>18, StepConn

\* A session that has been destroyed goes to the free list.
LEMMA SessFree ==
  Shape /\ SessLedger /\ free /\ Arg(1) = "sess" /\ UNCHANGED <<stat, visit, gen>>
  => SessLedger' /\ ConnSilent
<1> SUFFICES ASSUME Shape, SessLedger, free, Arg(1) = "sess", UNCHANGED <<stat, visit, gen>>
             PROVE  SessLedger' /\ ConnSilent
  OBVIOUS
<1> DEFINE s == Arg(2)  list == <<s>> \o mem.free["sess"]
           n == [mem EXCEPT !.free["sess"] = list]  calls == <<>>
<1>1. stack # <<>> /\ stack[1][1] = "free" /\ mem' = n /\ stack' = calls \o Tail(stack)
  BY DEF free, Top, Run, Return
<1>2. s \in DOMAIN mem.sess /\ stack[1] = <<"free", "sess", s>>
  BY <1>1, Args DEF ObjectCalls
<1>3. MemOK(mem, opt) /\ Sized(stack) /\ mem.free["sess"] \in Seq(DOMAIN mem.sess)
  BY DEF Shape, MemOK, StackOK, Types
<1>4. AsideC(stack[1])
  BY <1>1 DEF AsideC, Arg
<1> HIDE DEF s, list
<1>5. n.sess = mem.sess /\ n.conn = mem.conn /\ n.free["sess"] = list /\ n.free["conn"] = mem.free["conn"]
  BY <1>3 DEF MemOK, Types
<1> HIDE DEF n
<1>6. stack' = Pushed(calls, stack)
  BY <1>1 DEF Pushed
<1>7. \A t \in DOMAIN mem.sess :
        /\ Number(Ending(t), stack') = Number(Ending(t), stack) - (IF s = t THEN 1 ELSE 0)
        /\ Number(Dying("sess", t), stack') = Number(Dying("sess", t), stack)
        /\ Number({t}, list) = (IF s = t THEN 1 ELSE 0) + Number({t}, mem.free["sess"])
  <2> TAKE t \in DOMAIN mem.sess
  <2>1. (stack[1] \in Ending(t) <=> s = t) /\ stack[1] \notin Dying("sess", t)
    <3> DEFINE f == <<"free", "sess", s>>
    <3>1. (f \in Ending(t) <=> s = t) /\ f \notin Dying("sess", t)
      BY SessSets
    <3> HIDE DEF f
    <3>2. stack[1] = f
      BY <1>2 DEF f
    <3> QED BY <3>1, <3>2
  <2>2. Number(Ending(t), Pushed(calls, stack))
          = Number(Ending(t), stack) - (IF stack[1] \in Ending(t) THEN 1 ELSE 0)
    BY <1>1, <1>3, PushedFew
  <2>3. Number(Dying("sess", t), Pushed(calls, stack)) = Number(Dying("sess", t), stack) - 0
    BY <1>1, <1>3, <2>1, PushedFew
  <2>4. Number(Dying("sess", t), stack) \in Nat
    BY SessNumbers
  <2> DEFINE d == Number(Dying("sess", t), stack)
  <2>5. d - 0 = d
    BY <2>4
  <2>6. Number({t}, list) = (IF s \in {t} THEN 1 ELSE 0) + Number({t}, mem.free["sess"])
    BY <1>2, <1>3, NumberCons DEF list
  <2>7. s \in {t} <=> s = t
    OBVIOUS
  <2> QED BY <1>6, <2>1, <2>2, <2>3, <2>5, <2>6, <2>7
<1>8. Number(Counting, stack') = Number(Counting, stack)
  <2>1. stack[1] \notin Counting
    <3>1. <<"free", "sess", s>> \notin Counting
      BY SessSets
    <3> QED BY <1>2, <3>1
  <2>2. Number(Counting, Pushed(calls, stack)) = Number(Counting, stack) - 0
    BY <1>1, <1>3, <2>1, PushedFew
  <2>3. Number(Counting, stack) \in Nat
    BY <1>3, NumberType
  <2> DEFINE c == Number(Counting, stack)
  <2>4. c - 0 = c
    BY <2>3
  <2> QED BY <1>6, <2>2, <2>4
<1>9. SessOnce'
  <2> SUFFICES ASSUME NEW t \in DOMAIN mem'.sess
               PROVE  mem'.sess[t].ref + Number(Ending(t), stack') + Number({t}, mem'.free["sess"]) = 1
    BY DEF SessOnce
  <2>1. t \in DOMAIN mem.sess /\ mem'.free["sess"] = list /\ mem'.sess[t].ref = mem.sess[t].ref
    BY <1>1, <1>5
  <2> DEFINE x == mem.sess[t].ref  e == Number(Ending(t), stack)  f == Number({t}, mem.free["sess"])
             i == IF s = t THEN 1 ELSE 0
  <2>2. x \in Nat /\ e \in Nat /\ f \in Nat /\ x + e + f = 1
    BY <2>1, SessNumbers
  <2>3. Number(Ending(t), stack') = e - i /\ Number({t}, mem'.free["sess"]) = i + f /\ i \in 0..1
    BY <1>7, <2>1
  <2> HIDE DEF x, e, f, i
  <2>4. x + (e - i) + (i + f) = 1
    BY <2>2, <2>3
  <2> QED BY <2>1, <2>3, <2>4 DEF x
<1>10. \A t \in DOMAIN mem.sess : (Live(t)' => Live(t)) /\ mem'.sess[t].num = mem.sess[t].num
  BY <1>1, <1>5, <1>7 DEF Live
<1>11. Counted' /\ Running'
  BY <1>8 DEF SessLedger, Counted, Running
<1>12. SessLedger'
  BY <1>1, <1>5, <1>9, <1>10, <1>11, SessRest
<1>13. ConnKept
  BY <1>1, <1>5 DEF ConnKept
<1>14. CalmC(calls)
  BY EasyFew
<1> HIDE DEF calls
<1> QED BY <1>1, <1>4, <1>12, <1>13, <1>14, StepConn

\* A session that is over is counted by the generators.
LEMMA GenCounts == Shape /\ SessLedger /\ gen_sess_destroyed => SessLedger' /\ ConnSilent
<1> SUFFICES ASSUME Shape, SessLedger, gen_sess_destroyed PROVE SessLedger' /\ ConnSilent
  OBVIOUS
<1> DEFINE s == Arg(1)  o == mem.sess[s]  r == [o EXCEPT !.timer = FALSE]
           n == [mem EXCEPT !.sess[s] = r]  calls == <<>>
           running == gen.running /\ gen.destroyed + 1 < NumSessions
           h == [gen EXCEPT !.destroyed = @ + 1, !.running = running]
<1>1. stack # <<>> /\ stack[1][1] = "gen_sess_destroyed" /\ UNCHANGED <<stat, visit>>
      /\ mem' = n /\ stack' = calls \o Tail(stack) /\ gen' = h
  BY DEF gen_sess_destroyed, Top, Return, Run
<1>2. s \in DOMAIN mem.sess /\ stack[1] = <<"gen_sess_destroyed", s>>
  <2>1. stack[1] = <<stack[1][1], Arg(1)>>
    BY <1>1, Args
  <2> QED BY <1>1, <2>1, Args DEF SessCalls
<1>3. MemOK(mem, opt) /\ SessOK(o, mem, opt) /\ Sized(stack) /\ GenOK(gen)
  BY <1>2 DEF Shape, MemOK, StackOK
<1>4. r.ref = o.ref /\ r.num = o.num
  BY <1>3 DEF SessOK, SessFields
<1>5. n.sess = [mem.sess EXCEPT ![s] = r] /\ n.conn = mem.conn /\ n.free = mem.free
  BY <1>3 DEF MemOK
<1>6. AsideC(stack[1])
  BY <1>1 DEF AsideC
<1>7. stack' = Pushed(calls, stack)
  BY <1>1 DEF Pushed
<1>8. s \in Nat
  BY <1>2, SessNumbers
<1>9. h.generated = gen.generated /\ h.destroyed = gen.destroyed + 1 /\ h.running = running
  BY <1>3 DEF GenOK
<1> HIDE DEF s, r, n, h
<1>10. /\ stack[1] \in Counting
       /\ \A t : stack[1] \notin Ending(t) /\ stack[1] \notin Dying("sess", t)
  <2> DEFINE f == <<"gen_sess_destroyed", s>>
  <2>1. f \in Counting /\ \A t : f \notin Ending(t) /\ f \notin Dying("sess", t)
    BY <1>8, SessSets
  <2> HIDE DEF f
  <2>2. stack[1] = f
    BY <1>2 DEF f
  <2> QED BY <2>1, <2>2
<1>11. \A t \in DOMAIN mem.sess :
         /\ Number(Ending(t), stack') = Number(Ending(t), stack)
         /\ Number(Dying("sess", t), stack') = Number(Dying("sess", t), stack)
  <2> TAKE t \in DOMAIN mem.sess
  <2>1. Number(Ending(t), Pushed(calls, stack)) = Number(Ending(t), stack) - 0
    BY <1>1, <1>3, <1>10, PushedFew
  <2>2. Number(Dying("sess", t), Pushed(calls, stack)) = Number(Dying("sess", t), stack) - 0
    BY <1>1, <1>3, <1>10, PushedFew
  <2>3. Number(Dying("sess", t), stack) \in Nat /\ Number(Ending(t), stack) \in Nat
    BY SessNumbers
  <2> DEFINE d == Number(Dying("sess", t), stack)  e == Number(Ending(t), stack)
  <2>4. d - 0 = d /\ e - 0 = e
    BY <2>3
  <2> QED BY <1>7, <2>1, <2>2, <2>4
<1>12. Number(Counting, stack') = Number(Counting, stack) - 1
  BY <1>1, <1>3, <1>7, <1>10, PushedFew
<1>13. DOMAIN mem'.sess = DOMAIN mem.sess /\ mem'.free = mem.free /\ \A t \in DOMAIN mem.sess :
         mem'.sess[t].ref = mem.sess[t].ref /\ mem'.sess[t].num = mem.sess[t].num
  BY <1>1, <1>2, <1>4, <1>5
<1>14. SessOnce'
  BY <1>11, <1>13 DEF SessLedger, SessOnce
<1>15. \A t \in DOMAIN mem.sess : (Live(t)' => Live(t)) /\ mem'.sess[t].num = mem.sess[t].num
  BY <1>11, <1>13 DEF Live
<1>16. Counted'
  <2> DEFINE c == Number(Counting, stack)  d == gen.destroyed  z == stat.completed + stat.failed
  <2>1. c \in Nat /\ d \in Nat /\ d + c = z
    BY <1>3, NumberType DEF GenOK, SessLedger, Counted
  <2>2. Number(Counting, stack') = c - 1 /\ gen'.destroyed = d + 1 /\ stat'.completed + stat'.failed = z
    BY <1>1, <1>9, <1>12
  <2> HIDE DEF c, d, z
  <2>3. (d + 1) + (c - 1) = z
    BY <2>1
  <2> QED BY <2>2, <2>3 DEF Counted, z
<1>17. Running'
  <2>1. gen'.running = (gen.running /\ gen.destroyed + 1 < NumSessions) /\ gen'.destroyed = gen.destroyed + 1
        /\ gen.destroyed \in Nat /\ NumSessions \in Nat
        /\ (gen.running <=> gen.destroyed < NumSessions)
    BY <1>1, <1>3, <1>9, SessionsAssumption DEF GenOK, SessLedger, Running
  <2> DEFINE d == gen.destroyed
  <2>2. d + 1 < NumSessions => d < NumSessions
    BY <2>1
  <2> QED BY <2>1, <2>2 DEF Running
<1>18. SessLedger'
  BY <1>1, <1>9, <1>13, <1>14, <1>15, <1>16, <1>17, SessRest
<1>19. ConnKept
  BY <1>1, <1>5 DEF ConnKept
<1>20. CalmC(calls)
  BY EasyFew
<1> HIDE DEF calls
<1> QED BY <1>1, <1>6, <1>18, <1>19, <1>20, StepConn

\* The report's counters
StatOK == DOMAIN stat = {"active", "completed", "failed", "hist"}

\* The visit j was open, and is over.
Over(v, w, j) ==
  /\ v \in [1..NumSessions -> VisitRecs] /\ j \in 1..NumSessions /\ v[j].phase = "open"
  /\ w = [v EXCEPT ![j] = [v[j] EXCEPT !.phase = w[j].phase]] /\ w[j].phase \in {"completed", "failed"}

\* How many visits are in the phase q
Tally(v, q) == Cardinality({n \in 1..NumSessions : v[n].phase = q})

\* It is one more of its kind.
LEMMA VisitOver ==
  ASSUME NEW v, NEW w, NEW j, Over(v, w, j), NEW q \in {"completed", "failed"}
  PROVE  Tally(w, q) = Tally(v, q) + (IF w[j].phase = q THEN 1 ELSE 0)
<1> USE DEF Over, Tally
<1> DEFINE V == {n \in 1..NumSessions : v[n].phase = q}
           W == {n \in 1..NumSessions : w[n].phase = q}
<1>1. j \notin V
  OBVIOUS
<1>2. \A n \in 1..NumSessions : n # j => w[n].phase = v[n].phase
  OBVIOUS
<1>3. IsFiniteSet(V)
  <2>1. V \subseteq 1..NumSessions
    OBVIOUS
  <2> HIDE DEF V, W
  <2>2. NumSessions \in Int /\ 1 \in Int
    BY SessionsAssumption
  <2>3. IsFiniteSet(1..NumSessions)
    BY <2>2, FS_Interval
  <2> QED BY <2>1, <2>3, FS_Subset
<1>4. CASE w[j].phase = q
  <2>1. W = V \union {j}
    BY <1>1, <1>2, <1>4
  <2> HIDE DEF V, W
  <2>2. Cardinality(W) = Cardinality(V) + 1
    BY <1>1, <1>3, <2>1, FS_AddElement
  <2> QED BY <1>4, <2>2 DEF V, W
<1>5. CASE w[j].phase # q
  <2>1. W = V
    BY <1>1, <1>2, <1>5
  <2> HIDE DEF V, W
  <2>2. Cardinality(V) \in Nat
    BY <1>3, FS_CardinalityType
  <2> DEFINE c == Cardinality(V)
  <2>3. c + 0 = c
    BY <2>2
  <2>4. Cardinality(W) = Cardinality(V) + 0
    BY <2>1, <2>3
  <2> QED BY <1>5, <2>4 DEF V, W
<1> QED BY <1>4, <1>5

\* What the destruction of a session may call: the handlers m and g in some order, then
\* d or not, and f.
Handlings(m, g, d, f) == {<<m, g, f>>, <<g, m, f>>, <<m, g, d, f>>, <<g, m, d, f>>}

\* Of these calls only the last counts in X.
LEMMA NumberLast ==
  ASSUME NEW X, NEW m, NEW g, NEW d, NEW f, m \notin X, g \notin X, d \notin X,
         NEW calls \in Handlings(m, g, d, f)
  PROVE  Number(X, calls) = IF f \in X THEN 1 ELSE 0
<1>1. CASE calls = <<m, g, f>> \/ calls = <<g, m, f>>
  <2>1. At(X, calls) = IF f \in X THEN {3} ELSE {}
    BY <1>1 DEF At
  <2> QED BY <2>1, FS_Singleton, FS_EmptySet DEF Number
<1>2. CASE calls = <<m, g, d, f>> \/ calls = <<g, m, d, f>>
  <2>1. At(X, calls) = IF f \in X THEN {4} ELSE {}
    BY <1>2 DEF At
  <2> QED BY <2>1, FS_Singleton, FS_EmptySet DEF Number
<1> QED BY <1>1, <1>2 DEF Handlings

\* A session is destroyed: it is told over, and its handlers are to run.
LEMMA SessDestroyed ==
  Shape /\ SessLedger /\ StatOK /\ DestroySess /\ UNCHANGED gen => SessLedger' /\ ConnSilent
<1> SUFFICES ASSUME Shape, SessLedger, StatOK, DestroySess, UNCHANGED gen PROVE SessLedger' /\ ConnSilent
  OBVIOUS
<1> DEFINE s == Arg(2)  o == mem.sess[s]  j == o.num
           m == <<"sess_destroyed", s, 1>>  g == <<"gen_sess_destroyed", s>>
           d == <<"done">>  f == <<"free", "sess", s>>
           calls == SessHandlers(s) \o <<f>>
           phase == IF o.failed THEN "failed" ELSE "completed"
           failed == IF o.failed THEN stat.failed + 1 ELSE stat.failed
           completed == IF o.failed THEN stat.completed ELSE stat.completed + 1
           hist == stat.hist (+) Count(o.completed)
<1>1. stack # <<>> /\ stack[1][1] = "object_destroy" /\ Arg(1) = "sess" /\ stack' = calls \o Tail(stack)
      /\ UNCHANGED <<mem, gen>>
      /\ visit' = [visit EXCEPT ![j].phase = phase]
      /\ stat' = [stat EXCEPT !.failed = failed, !.completed = completed, !.hist = hist]
  BY DEF DestroySess, Top, Run
<1>2. s \in DOMAIN mem.sess /\ stack[1] = <<"object_destroy", "sess", s>>
  BY <1>1, Args DEF ObjectCalls
<1>3. calls \in {<<m, g, f>>, <<g, m, f>>, <<m, g, d, f>>, <<g, m, d, f>>}
  BY SessHandlersFew
<1>32. calls \in Handlings(m, g, d, f)
  BY <1>3 DEF Handlings
<1>4. Sized(stack) /\ j \in 1..NumSessions /\ visit \in [1..NumSessions -> VisitRecs] /\ s \in Nat
  BY <1>2, SessNumbers DEF Shape, StackOK
<1>5. Easy(m) /\ Easy(g) /\ Easy(d) /\ Easy(f) /\ AsideS(m) /\ AsideS(d)
  BY DEF Easy, AsideC, AsideS
<1>6. AsideC(stack[1])
  <2>1. stack[1][1] = "object_destroy" /\ stack[1][2] = "sess"
    BY <1>2
  <2> QED BY <2>1 DEF AsideC
<1> HIDE DEF s, phase, hist
<1>7. stat'.failed = failed /\ stat'.completed = completed /\ stat'.active = stat.active
  BY <1>1 DEF StatOK
<1> HIDE DEF failed, completed
<1>8. \A t : /\ g \notin Ending(t) /\ g \notin Dying("sess", t) /\ f \notin Dying("sess", t)
             /\ f \in Ending(t) <=> s = t
             /\ m \notin Ending(t) /\ m \notin Dying("sess", t) /\ d \notin Ending(t) /\ d \notin Dying("sess", t)
  <2> TAKE t
  <2>1. g \notin Ending(t) /\ g \notin Dying("sess", t) /\ f \notin Dying("sess", t)
        /\ (f \in Ending(t) <=> s = t)
    BY SessSets
  <2> HIDE DEF m, d
  <2>2. m \notin Ending(t) /\ m \notin Dying("sess", t) /\ d \notin Ending(t) /\ d \notin Dying("sess", t)
    BY <1>5, Marked
  <2> QED BY <2>1, <2>2
<1>9. g \in Counting /\ f \notin Counting /\ m \notin Counting /\ d \notin Counting
  <2>1. g \in Counting /\ f \notin Counting
    BY <1>4, SessSets
  <2> HIDE DEF m, d
  <2>2. m \notin Counting /\ d \notin Counting
    BY <1>5, Marked
  <2> QED BY <2>1, <2>2
<1> DEFINE top == <<"object_destroy", "sess", s>>
<1>10. (\A t : (top \in Ending(t) <=> s = t) /\ (top \in Dying("sess", t) <=> s = t)) /\ top \notin Counting
  BY SessSets
<1> HIDE DEF m, g, d, f, calls, top
<1>11. CalmC(calls) /\ Sized(calls)
  <2>1. CalmC(calls)
    BY <1>3, <1>5, EasyFew
  <2> QED BY <2>1 DEF CalmC
<1>12. stack' = Pushed(calls, stack) /\ stack[1] = top
  BY <1>1, <1>2 DEF Pushed, top
<1>13. \A t : Number(Ending(t), calls) = (IF s = t THEN 1 ELSE 0) /\ Number(Dying("sess", t), calls) = 0
  <2> TAKE t
  <2> DEFINE X == Ending(t)  Y == Dying("sess", t)
  <2>1. g \notin X /\ m \notin X /\ d \notin X /\ (f \in X <=> s = t)
        /\ g \notin Y /\ m \notin Y /\ d \notin Y /\ f \notin Y
    BY <1>8
  <2> HIDE DEF X, Y
  <2>2. Number(X, calls) = (IF f \in X THEN 1 ELSE 0)
    BY <1>32, <2>1, NumberLast
  <2>3. Number(Y, calls) = (IF f \in Y THEN 1 ELSE 0)
    BY <1>32, <2>1, NumberLast
  <2>4. Number(X, calls) = (IF s = t THEN 1 ELSE 0) /\ Number(Y, calls) = 0
    BY <2>1, <2>2, <2>3
  <2> QED BY <2>4 DEF X, Y
<1>14. Number(Counting, calls) = 1
  BY SMTT(30), <1>3, <1>9, NumberFew
<1>15. \A t \in DOMAIN mem.sess :
         /\ Number(Ending(t), stack') = Number(Ending(t), stack)
         /\ Number(Dying("sess", t), stack') = Number(Dying("sess", t), stack) - (IF s = t THEN 1 ELSE 0)
  <2> TAKE t \in DOMAIN mem.sess
  <2> DEFINE i == IF s = t THEN 1 ELSE 0  e == Number(Ending(t), stack)  y == Number(Dying("sess", t), stack)
  <2>1. Number(Ending(t), Pushed(calls, stack)) = i + e - i
    BY <1>1, <1>4, <1>10, <1>11, <1>12, <1>13, NumberPushed
  <2>2. Number(Dying("sess", t), Pushed(calls, stack)) = 0 + y - i
    BY <1>1, <1>4, <1>10, <1>11, <1>12, <1>13, NumberPushed
  <2>3. i \in Nat /\ e \in Nat /\ y \in Nat
    BY SessNumbers
  <2> HIDE DEF i, e, y
  <2>4. i + e - i = e /\ 0 + y - i = y - i
    BY <2>3
  <2> QED BY <1>12, <2>1, <2>2, <2>4 DEF i, e, y
<1>16. Number(Counting, stack') = Number(Counting, stack) + 1 /\ Number(Counting, stack) \in Nat
  <2> DEFINE c == Number(Counting, stack)
  <2>1. Number(Counting, Pushed(calls, stack)) = 1 + c - 0
    BY <1>1, <1>4, <1>10, <1>11, <1>12, <1>14, NumberPushed
  <2>2. c \in Nat
    BY <1>4, NumberType
  <2> HIDE DEF c
  <2>3. 1 + c - 0 = c + 1
    BY <2>2
  <2> QED BY <1>12, <2>1, <2>2, <2>3 DEF c
<1>17. o.ref = 0 /\ Number(Dying("sess", s), stack) = 1
  <2> DEFINE e == Number(Ending(s), stack)  y == Number({s}, mem.free["sess"])
             z == Number(Dying("sess", s), stack)  x == o.ref
  <2>1. x \in Nat /\ e \in Nat /\ y \in Nat /\ z \in Nat /\ x + e + y = 1 /\ z <= e
    BY <1>2, SessNumbers
  <2>2. z > 0
    <3>1. 1 \in 1..Len(stack) /\ stack[1] \in Dying("sess", s)
      <4>1. Len(stack) \in Nat /\ Len(stack) # 0
        BY <1>1, <1>4, SizedLen
      <4> QED BY <1>10, <1>12, <4>1
    <3> QED BY <1>4, <3>1, NumberSome
  <2> HIDE DEF e, x, y, z
  <2>3. x = 0 /\ z = 1
    BY <2>1, <2>2
  <2> QED BY <2>3 DEF x, z
<1>18. Live(s) /\ visit[j].phase = "open"
  BY <1>2, <1>17 DEF Live, SessLedger, SessOpen
<1>19. \A t \in DOMAIN mem.sess : Live(t)' => Live(t) /\ t # s
  <2> TAKE t \in DOMAIN mem.sess
  <2>1. CASE t = s
    BY <1>1, <1>15, <1>17, <2>1 DEF Live
  <2>2. CASE t # s
    <3>1. Number(Dying("sess", t), stack') = Number(Dying("sess", t), stack) - 0
          /\ Number(Dying("sess", t), stack) \in Nat
      BY <1>15, <2>2, SessNumbers
    <3> DEFINE y == Number(Dying("sess", t), stack)
    <3>2. y - 0 = y
      BY <3>1
    <3> QED BY <1>1, <2>2, <3>1, <3>2 DEF Live
  <2> QED BY <2>1, <2>2
<1>20. SessOnce'
  BY <1>1, <1>15 DEF SessLedger, SessOnce
<1>21. \A n \in 1..NumSessions : n # j => visit'[n].phase = visit[n].phase
  BY <1>1, <1>4
<1>22. SessOpen'
  <2> SUFFICES ASSUME NEW t \in DOMAIN mem'.sess, Live(t)' PROVE visit'[mem'.sess[t].num].phase = "open"
    BY DEF SessOpen
  <2>1. t \in DOMAIN mem.sess /\ Live(t) /\ t # s /\ mem'.sess[t].num = mem.sess[t].num
    BY <1>1, <1>19
  <2>2. mem.sess[t].num # j
    BY <1>2, <1>18, <2>1 DEF SessLedger, SessApart
  <2>3. mem.sess[t].num \in 1..NumSessions /\ visit[mem.sess[t].num].phase = "open"
    BY <2>1, SessNumbers DEF SessLedger, SessOpen
  <2> QED BY <1>21, <2>1, <2>2, <2>3
<1>23. SessApart'
  BY <1>1, <1>19 DEF SessLedger, SessApart
<1>24. NewLater'
  <2> SUFFICES ASSUME NEW n \in 1..NumSessions, n > gen'.generated PROVE visit'[n].phase = "new"
    BY DEF NewLater
  <2>1. visit[n].phase = "new"
    BY <1>1 DEF SessLedger, NewLater
  <2> QED BY <1>18, <1>21, <2>1
<1>25. visit'[j].phase = phase /\ visit' = [visit EXCEPT ![j] = [visit[j] EXCEPT !.phase = phase]]
  <2>1. visit[j] \in VisitRecs
    BY <1>4
  <2> QED BY <1>1, <1>4, <2>1 DEF VisitRecs
<1>26. \A q \in {"completed", "failed"} :
         Cardinality(Visited(q)') = Cardinality(Visited(q)) + (IF phase = q THEN 1 ELSE 0)
  <2> TAKE q \in {"completed", "failed"}
  <2>1. phase \in {"completed", "failed"}
    BY DEF phase
  <2> DEFINE v == visit  w == visit'
  <2>2. Over(v, w, j) /\ w[j].phase = phase
    BY <1>4, <1>18, <1>25, <2>1 DEF Over
  <2> HIDE DEF v, w, j
  <2>3. Tally(w, q) = Tally(v, q) + (IF w[j].phase = q THEN 1 ELSE 0)
    BY <2>2, VisitOver
  <2> QED BY <2>2, <2>3 DEF v, w, Visited, Tally
<1>27. Tallied'
  <2>1. stat.completed = Cardinality(Visited("completed")) /\ stat.failed = Cardinality(Visited("failed"))
    BY DEF SessLedger, Tallied
  <2>2. IsFiniteSet(Visited("completed")) /\ IsFiniteSet(Visited("failed"))
    <3>1. Visited("completed") \subseteq 1..NumSessions /\ Visited("failed") \subseteq 1..NumSessions
          /\ IsFiniteSet(1..NumSessions)
      BY FS_Interval, SessionsAssumption DEF Visited
    <3> QED BY <3>1, FS_Subset
  <2>3. stat.completed \in Nat /\ stat.failed \in Nat
    BY <2>1, <2>2, FS_CardinalityType
  <2>4. CASE o.failed
    <3>1. Cardinality(Visited("completed")') = Cardinality(Visited("completed")) + 0
          /\ Cardinality(Visited("failed")') = Cardinality(Visited("failed")) + 1
      BY <1>26, <2>4 DEF phase
    <3>2. stat'.failed = stat.failed + 1 /\ stat'.completed = stat.completed
      BY <1>7, <2>4 DEF failed, completed
    <3>3. stat.completed + 0 = stat.completed
      BY <2>3
    <3> QED BY <2>1, <3>1, <3>2, <3>3 DEF Tallied
  <2>5. CASE ~o.failed
    <3>1. Cardinality(Visited("completed")') = Cardinality(Visited("completed")) + 1
          /\ Cardinality(Visited("failed")') = Cardinality(Visited("failed")) + 0
      BY <1>26, <2>5 DEF phase
    <3>2. stat'.completed = stat.completed + 1 /\ stat'.failed = stat.failed
      BY <1>7, <2>5 DEF failed, completed
    <3>3. stat.failed + 0 = stat.failed
      BY <2>3
    <3> QED BY <2>1, <3>1, <3>2, <3>3 DEF Tallied
  <2> QED BY <2>4, <2>5
<1>28. Counted'
  <2> DEFINE c == Number(Counting, stack)  y == gen.destroyed  x == stat.completed  z == stat.failed
  <2>1. c \in Nat /\ y \in Nat /\ y + c = x + z
    BY <1>16 DEF Shape, GenOK, SessLedger, Counted
  <2>2. x \in Nat /\ z \in Nat
    <3>1. Visited("completed") \subseteq 1..NumSessions /\ Visited("failed") \subseteq 1..NumSessions
          /\ IsFiniteSet(1..NumSessions)
      BY FS_Interval, SessionsAssumption DEF Visited
    <3>2. IsFiniteSet(Visited("completed")) /\ IsFiniteSet(Visited("failed"))
      BY <3>1, FS_Subset
    <3> QED BY <3>2, FS_CardinalityType DEF SessLedger, Tallied
  <2>3. gen'.destroyed = y /\ Number(Counting, stack') = c + 1
    BY <1>1, <1>16
  <2>4. stat'.completed + stat'.failed = x + 1 + z \/ stat'.completed + stat'.failed = x + (z + 1)
    BY <1>7 DEF failed, completed
  <2> HIDE DEF c, x, y, z
  <2>5. y + (c + 1) = x + 1 + z /\ y + (c + 1) = x + (z + 1)
    BY <2>1, <2>2
  <2> QED BY <2>3, <2>4, <2>5 DEF Counted
<1>29. Running'
  BY <1>1 DEF SessLedger, Running
<1>30. SessLedger'
  BY <1>20, <1>22, <1>23, <1>24, <1>27, <1>28, <1>29 DEF SessLedger
<1>31. ConnKept
  BY <1>1, <1>7 DEF ConnKept
<1> QED BY <1>1, <1>6, <1>11, <1>30, <1>31, StepConn

\* When all sessions have been created only that is noted.
LEMMA NoneLeft == Shape /\ sess_create /\ gen.generated >= NumSessions => Silent
<1> SUFFICES ASSUME Shape, sess_create, gen.generated >= NumSessions PROVE Silent
  OBVIOUS
<1> DEFINE calls == <<>>  h == [gen EXCEPT !.generated = @ + 1, !.done = TRUE]
<1>1. stack # <<>> /\ stack[1][1] = "sess_create" /\ stack' = calls \o Tail(stack)
      /\ UNCHANGED <<mem, visit, stat>> /\ gen' = h
  BY DEF sess_create, Top, Return, Run
<1>2. GenOK(gen)
  BY DEF Shape
<1>3. h.generated = gen.generated + 1 /\ h.destroyed = gen.destroyed /\ h.running = gen.running
  BY <1>2 DEF GenOK
<1>4. gen.generated \in Nat
  BY <1>2 DEF GenOK
<1> HIDE DEF h
<1>5. h.generated \in Nat /\ h.generated >= gen.generated
  BY <1>3, <1>4
<1>6. Told
  BY <1>1, <1>3, <1>5 DEF Told, Phases
<1> DEFINE n == mem
<1> HIDE DEF n
<1>7. mem' = n /\ DOMAIN n.sess = DOMAIN mem.sess /\ DOMAIN n.conn = DOMAIN mem.conn
      /\ n.free["sess"] = mem.free["sess"] /\ n.free["conn"] = mem.free["conn"]
      /\ (\A s \in DOMAIN mem.sess : n.sess[s].ref = mem.sess[s].ref /\ n.sess[s].num = mem.sess[s].num)
      /\ (\A k \in DOMAIN mem.conn :
            n.conn[k].ref = mem.conn[k].ref /\ n.conn[k].state = mem.conn[k].state)
  BY <1>1 DEF n
<1>8. SessKept /\ ConnKept
  BY <1>6, <1>7, KeptCells
<1>9. Calm(calls)
  BY CalmFew
<1>10. AsideS(stack[1]) /\ AsideC(stack[1])
  BY <1>1 DEF AsideS, AsideC
<1> HIDE DEF calls
<1> QED BY <1>1, <1>8, <1>9, <1>10, SilentStep DEF Silent

\* The numbers of all that concerns sessions are kept by a call that has nothing to do
\* with their destruction.
LEMMA SessSame ==
  ASSUME Shape, stack # <<>>, AsideS(stack[1]), NEW calls, CalmS(calls), stack' = calls \o Tail(stack)
  PROVE  /\ \A t : Number(Ending(t), stack') = Number(Ending(t), stack)
         /\ \A t : Number(Dying("sess", t), stack') = Number(Dying("sess", t), stack)
         /\ Number(Counting, stack') = Number(Counting, stack)
<1>1. stack' = Pushed(calls, stack) /\ Sized(stack) /\ Sized(calls)
  BY DEF Pushed, Shape, StackOK, CalmS
<1>2. ASSUME NEW X, \A f \in X : ~AsideS(f) PROVE Number(X, Pushed(calls, stack)) = Number(X, stack)
  <2>1. stack[1] \notin X /\ \A i \in 1..Len(calls) : calls[i] \notin X
    BY <1>2 DEF CalmS
  <2> QED BY <1>1, <2>1, NumberSilent
<1>3. ASSUME NEW t PROVE Number(Ending(t), stack') = Number(Ending(t), stack)
  <2>1. \A f \in Ending(t) : ~AsideS(f)
    BY Marked
  <2> QED BY <1>1, <1>2, <2>1
<1>4. ASSUME NEW t PROVE Number(Dying("sess", t), stack') = Number(Dying("sess", t), stack)
  <2>1. \A f \in Dying("sess", t) : ~AsideS(f)
    BY Marked
  <2> QED BY <1>1, <1>2, <2>1
<1>5. Number(Counting, stack') = Number(Counting, stack)
  <2>1. \A f \in Counting : ~AsideS(f)
    BY Marked
  <2> QED BY <1>1, <1>2, <2>1
<1> QED BY <1>3, <1>4, <1>5

\* A frame that destroys or frees a session names one there is.
LEMMA EndingKnown ==
  ASSUME Shape, NEW s, s \notin DOMAIN mem.sess
  PROVE  Number(Ending(s), stack) = 0
<1>1. Sized(stack)
  BY DEF Shape, StackOK
<1>2. \A i \in 1..Len(stack) : stack[i] \notin Ending(s)
  <2> SUFFICES ASSUME NEW i \in 1..Len(stack), stack[i] \in Ending(s) PROVE FALSE
    OBVIOUS
  <2>1. stack[i] = <<"object_destroy", "sess", s>> \/ stack[i] = <<"free", "sess", s>>
    BY DEF Ending, Dying, Freeing
  <2>2. FrameOK(stack[i], mem, opt)
    BY DEF Shape, StackOK
  <2>5. stack[i][1] \in ObjectCalls
    BY <2>1 DEF ObjectCalls
  <2>6. PICK t \in Types : \E x \in DOMAIN mem[t] : stack[i] = <<stack[i][1], t, x>>
    BY <2>2, <2>5 DEF FrameOK
  <2>3. PICK x \in DOMAIN mem[t] : stack[i] = <<stack[i][1], t, x>>
    BY <2>6
  <2>4. t = "sess" /\ x = s
    BY <2>1, <2>3
  <2> QED BY <2>4, <2>3
<1> QED BY <1>1, <1>2, NumberNone

\* A new session is in no frame and not in the free list any more, and its visit is open.
LEMMA SessCreated ==
  Shape /\ SessLedger /\ sess_create => SessLedger' /\ ConnSilent
<1> SUFFICES ASSUME Shape, SessLedger, sess_create PROVE SessLedger' /\ ConnSilent
  OBVIOUS
<1>1. stack # <<>> /\ stack[1][1] = "sess_create" /\ UNCHANGED stat
  BY DEF sess_create, Top
<1>2. GenOK(gen) /\ MemOK(mem, opt) /\ opt \in Options /\ visit \in [1..NumSessions -> VisitRecs]
      /\ gen.generated \in Nat /\ gen.destroyed \in Nat
  BY DEF Shape, GenOK
<1>3. CASE gen.generated >= NumSessions
  BY <1>3, NoneLeft, SilentSess DEF Silent
<1>4. CASE ~(gen.generated >= NumSessions)
  <2> DEFINE s == New("sess")  o == NewSess  n == object_new(mem, "sess", o)
             t == IF gen.template >= Len(templates) THEN 1 ELSE gen.template + 1
             h == [gen EXCEPT !.generated = @ + 1, !.template = t]
             v == gen.generated + 1
             a == <<"issue_calls", s>>  b == <<"not_done">>  calls == <<a, b>>
  <2>1. stack' = calls \o Tail(stack) /\ gen' = h /\ mem' = n
        /\ visit' = [visit EXCEPT ![v].phase = "open"]
    BY <1>4 DEF sess_create, Run
  <2>2. gen.generated < NumSessions
    BY <1>2, <1>4, SessionsAssumption DEF GenOK
  <2> HIDE DEF t
  <2>3. h.generated = v /\ h.destroyed = gen.destroyed /\ h.running = gen.running
    BY <1>2 DEF GenOK
  <2> HIDE DEF h
  <2>4. v \in 1..NumSessions /\ v > gen.generated
    BY <1>2, <2>2, SessionsAssumption
  <2>5. o.ref = 1 /\ o.num = v
    BY <1>2, <2>2, NewSessOK
  <2>6. visit[v].phase = "new" /\ visit'[v].phase = "open"
        /\ \A q \in 1..NumSessions : q # v => visit'[q].phase = visit[q].phase
    <3>1. visit[v].phase = "new"
      BY <2>4 DEF SessLedger, NewLater
    <3>2. visit[v] \in VisitRecs
      BY <1>2, <2>4
    <3> HIDE DEF v
    <3>3. visit' = [visit EXCEPT ![v] = [visit[v] EXCEPT !.phase = "open"]]
      BY <2>1
    <3>4. [visit[v] EXCEPT !.phase = "open"].phase = "open"
      BY <3>2 DEF VisitRecs
    <3> DEFINE w == [visit[v] EXCEPT !.phase = "open"]
    <3> HIDE DEF w
    <3> QED BY <1>2, <2>4, <3>1, <3>3, <3>4 DEF w
  <2> HIDE DEF s, n, o
  <2>7. Allocated(mem, n, "sess", s, o)
    BY <1>2, Allocates DEF n, s, Types
  <2>8. DOMAIN n.sess = DOMAIN mem.sess \union {s} /\ n.sess[s] = o
        /\ (\A y \in DOMAIN mem.sess \ {s} : n.sess[y] = mem.sess[y])
        /\ n.conn = mem.conn /\ n.free["conn"] = mem.free["conn"]
    BY <2>7 DEF Allocated, Types
  <2>9. \/ mem.free["sess"] = <<>> /\ n.free["sess"] = <<>> /\ s \notin DOMAIN mem.sess
        \/ mem.free["sess"] # <<>> /\ n.free["sess"] = Tail(mem.free["sess"])
             /\ s = Head(mem.free["sess"]) /\ s \in DOMAIN mem.sess
    BY <2>7 DEF Allocated
  <2>10. Still(a) /\ Still(b)
    BY StillFrames DEF StillCalls
  <2>11. Calm(calls)
    BY <2>10, CalmFew
  <2> HIDE DEF calls, v
  <2>12. CalmS(calls) /\ CalmC(calls)
    BY <2>11 DEF Calm, CalmS, CalmC, Still
  <2>13. AsideS(stack[1]) /\ AsideC(stack[1])
    BY <1>1 DEF AsideS, AsideC
  <2>14. /\ \A x : Number(Ending(x), stack') = Number(Ending(x), stack)
         /\ \A x : Number(Dying("sess", x), stack') = Number(Dying("sess", x), stack)
         /\ Number(Counting, stack') = Number(Counting, stack)
    BY <1>1, <2>1, <2>12, <2>13, SessSame
  <2>15. mem.free["sess"] \in Seq(DOMAIN mem.sess)
    BY <1>2 DEF MemOK, Types
  <2>16. Number(Ending(s), stack) = 0 /\ Number({s}, n.free["sess"]) = 0
    <3>1. CASE mem.free["sess"] = <<>>
      <4>1. n.free["sess"] = <<>> /\ s \notin DOMAIN mem.sess
        BY <2>9, <3>1
      <4>2. Number({s}, <<>>) = 0
        BY NumberFew
      <4> QED BY <4>1, <4>2, EndingKnown
    <3>2. CASE mem.free["sess"] # <<>>
      <4> DEFINE q == mem.free["sess"]  D == DOMAIN mem.sess
      <4>1. q \in Seq(D) /\ q # <<>> /\ s = Head(q) /\ n.free["sess"] = Tail(q) /\ s \in D
        BY <2>9, <2>15, <3>2
      <4> HIDE DEF q, D
      <4>2. Number({s}, Tail(q)) \in Nat
            /\ Number({s}, q) = (IF Head(q) \in {s} THEN 1 ELSE 0) + Number({s}, Tail(q))
        BY <4>1, NumberTail
      <4>3. Number({s}, q) = 1 + Number({s}, Tail(q))
        BY <4>1, <4>2
      <4>4. mem.sess[s].ref \in Nat /\ Number(Ending(s), stack) \in Nat
            /\ mem.sess[s].ref + Number(Ending(s), stack) + Number({s}, q) = 1
        BY <4>1, SessNumbers DEF q, D
      <4> DEFINE x == mem.sess[s].ref  e == Number(Ending(s), stack)  y == Number({s}, Tail(q))
                 z == Number({s}, q)
      <4> HIDE DEF x, e, y, z
      <4>5. x \in Nat /\ e \in Nat /\ y \in Nat /\ x + e + z = 1 /\ z = 1 + y
        BY <4>2, <4>3, <4>4 DEF x, e, y, z
      <4>6. e = 0 /\ y = 0
        BY <4>5
      <4> QED BY <4>1, <4>6 DEF e, y
    <3> QED BY <3>1, <3>2
  <2>17. \A x \in DOMAIN mem.sess : x # s => Number({x}, n.free["sess"]) = Number({x}, mem.free["sess"])
    <3> TAKE x \in DOMAIN mem.sess
    <3> HAVE x # s
    <3>1. CASE mem.free["sess"] = <<>>
      BY <2>9, <3>1
    <3>2. CASE mem.free["sess"] # <<>>
      <4> DEFINE q == mem.free["sess"]  D == DOMAIN mem.sess
      <4>1. q \in Seq(D) /\ q # <<>> /\ s = Head(q) /\ n.free["sess"] = Tail(q)
        BY <2>9, <2>15, <3>2
      <4> HIDE DEF q, D
      <4>2. Number({x}, Tail(q)) \in Nat
            /\ Number({x}, q) = (IF Head(q) \in {x} THEN 1 ELSE 0) + Number({x}, Tail(q))
        BY <4>1, NumberTail
      <4> DEFINE y == Number({x}, Tail(q))
      <4> HIDE DEF y
      <4>3. Number({x}, q) = 0 + y /\ y \in Nat
        BY <4>1, <4>2 DEF y
      <4>4. 0 + y = y
        BY <4>3
      <4> QED BY <4>1, <4>3, <4>4 DEF q, y
    <3> QED BY <3>1, <3>2
  <2>18. SessOnce'
    <3> SUFFICES ASSUME NEW x \in DOMAIN mem'.sess
                 PROVE  mem'.sess[x].ref + Number(Ending(x), stack') + Number({x}, mem'.free["sess"]) = 1
      BY DEF SessOnce
    <3>1. CASE x = s
      <4>1. mem'.sess[x].ref = 1 /\ Number(Ending(x), stack') = 0 /\ Number({x}, mem'.free["sess"]) = 0
        BY <2>1, <2>5, <2>8, <2>14, <2>16, <3>1
      <4> QED BY <4>1
    <3>2. CASE x # s
      <4>1. x \in DOMAIN mem.sess
        BY <2>1, <2>8, <3>2
      <4>2. mem'.sess[x].ref = mem.sess[x].ref /\ Number(Ending(x), stack') = Number(Ending(x), stack)
            /\ Number({x}, mem'.free["sess"]) = Number({x}, mem.free["sess"])
        BY <2>1, <2>8, <2>14, <2>17, <3>2, <4>1
      <4> QED BY <4>1, <4>2 DEF SessLedger, SessOnce
    <3> QED BY <3>1, <3>2
  <2>19. ASSUME NEW x \in DOMAIN mem'.sess, Live(x)', x # s
         PROVE  x \in DOMAIN mem.sess /\ Live(x) /\ mem'.sess[x].num = mem.sess[x].num
    BY <2>1, <2>8, <2>14, <2>19 DEF Live
  <2>20. ASSUME NEW x \in DOMAIN mem'.sess, Live(x)', x # s
         PROVE  mem'.sess[x].num # v /\ visit'[mem'.sess[x].num].phase = "open"
    <3>1. visit[mem.sess[x].num].phase = "open" /\ mem.sess[x].num \in 1..NumSessions
      BY <2>19, <2>20, SessNumbers DEF SessLedger, SessOpen
    <3> QED BY <2>6, <2>19, <2>20, <3>1
  <2>21. mem'.sess[s].num = v
    BY <2>1, <2>5, <2>8
  <2>22. SessOpen'
    <3> SUFFICES ASSUME NEW x \in DOMAIN mem'.sess, Live(x)' PROVE visit'[mem'.sess[x].num].phase = "open"
      BY DEF SessOpen
    <3>1. CASE x = s
      BY <2>6, <2>21, <3>1
    <3>2. CASE x # s
      BY <2>20, <3>2
    <3> QED BY <3>1, <3>2
  <2>23. SessApart'
    <3> SUFFICES ASSUME NEW x \in DOMAIN mem'.sess, NEW y \in DOMAIN mem'.sess, Live(x)', Live(y)',
                        mem'.sess[x].num = mem'.sess[y].num
                 PROVE  x = y
      BY DEF SessApart
    <3>1. CASE x = s
      BY <2>20, <2>21, <3>1
    <3>2. CASE y = s
      BY <2>20, <2>21, <3>2
    <3>3. CASE x # s /\ y # s
      BY <2>19, <3>3 DEF SessLedger, SessApart
    <3> QED BY <3>1, <3>2, <3>3
  <2>24. NewLater'
    <3> SUFFICES ASSUME NEW q \in 1..NumSessions, q > gen'.generated PROVE visit'[q].phase = "new"
      BY DEF NewLater
    <3>1. q > v
      BY <2>1, <2>3
    <3>2. q > gen.generated /\ q # v
      BY <1>2, <3>1 DEF v
    <3>3. visit[q].phase = "new"
      BY <3>2 DEF SessLedger, NewLater
    <3> QED BY <2>6, <3>2, <3>3
  <2>25. Tallied'
    <3>1. Visited("completed")' = Visited("completed") /\ Visited("failed")' = Visited("failed")
      BY <2>6 DEF Visited
    <3> QED BY <1>1, <3>1 DEF SessLedger, Tallied
  <2>26. Counted' /\ Running'
    BY <1>1, <2>1, <2>3, <2>14 DEF SessLedger, Counted, Running
  <2>27. SessLedger'
    BY <2>18, <2>22, <2>23, <2>24, <2>25, <2>26 DEF SessLedger
  <2>28. ConnKept
    BY <1>1, <2>1, <2>8 DEF ConnKept
  <2> QED BY <1>1, <2>1, <2>12, <2>13, <2>27, <2>28, StepConn
<1> QED BY <1>3, <1>4
-----------------------------------------------------------------------------
(* The calls that reference, close, destroy, free and create connections *)

\* The entries of the ledger for one connection: its references and state, how many frames
\* are to give up, to free and to destroy it, and how often it is in the free list.
Balanced(ref, state, h, f, d, l) ==
  /\ ref = (IF state \in Open THEN 1 ELSE 0) + h
  /\ f + l = IF state = "FREE" THEN 1 ELSE 0
  /\ d = IF state = "CLOSING" /\ ref = 0 THEN 1 ELSE 0
  /\ state = "FREE" => ref = 0

\* What the ledger says of a connection.
LEMMA ConnNumbers ==
  ASSUME Shape, ConnLedger, NEW k \in DOMAIN mem.conn
  PROVE  /\ mem.conn[k].ref \in Nat /\ mem.conn[k].state \in ConnStates
         /\ Number(Holding(k), stack) \in Nat /\ Number(Freeing("conn", k), stack) \in Nat
         /\ Number(Dying("conn", k), stack) \in Nat /\ Number({k}, mem.free["conn"]) \in Nat
         /\ Balanced(mem.conn[k].ref, mem.conn[k].state, Number(Holding(k), stack),
                     Number(Freeing("conn", k), stack), Number(Dying("conn", k), stack),
                     Number({k}, mem.free["conn"]))
<1>1. Sized(stack) /\ MemOK(mem, opt)
  BY DEF Shape, StackOK
<1>2. mem.conn[k].ref \in Nat /\ mem.conn[k].state \in ConnStates
  BY <1>1 DEF MemOK, Conns
<1>3. Sized(mem.free["conn"])
  BY <1>1, SizedIn DEF MemOK, Types
<1>4. Balanced(mem.conn[k].ref, mem.conn[k].state, Number(Holding(k), stack),
               Number(Freeing("conn", k), stack), Number(Dying("conn", k), stack),
               Number({k}, mem.free["conn"]))
  BY DEF ConnLedger, ConnRefs, ConnFreed, ConnDies, FreeUnheld, Balanced
<1> QED BY <1>1, <1>2, <1>3, <1>4, NumberType

\* The ledger after a step that concerns the connection k only.
LEMMA ConnMoved ==
  ASSUME ConnLedger, NEW k, k \in DOMAIN mem'.conn,
         \A j \in DOMAIN mem'.conn : j # k =>
           /\ j \in DOMAIN mem.conn
           /\ mem'.conn[j].ref = mem.conn[j].ref /\ mem'.conn[j].state = mem.conn[j].state
           /\ Number(Holding(j), stack') = Number(Holding(j), stack)
           /\ Number(Freeing("conn", j), stack') = Number(Freeing("conn", j), stack)
           /\ Number(Dying("conn", j), stack') = Number(Dying("conn", j), stack)
           /\ Number({j}, mem'.free["conn"]) = Number({j}, mem.free["conn"]),
         Balanced(mem'.conn[k].ref, mem'.conn[k].state, Number(Holding(k), stack'),
                  Number(Freeing("conn", k), stack'), Number(Dying("conn", k), stack'),
                  Number({k}, mem'.free["conn"])),
         Connecting', Active'
  PROVE  ConnLedger'
<1>1. ConnRefs'
  <2> SUFFICES ASSUME NEW j \in DOMAIN mem'.conn
               PROVE  mem'.conn[j].ref = (IF mem'.conn[j].state \in Open THEN 1 ELSE 0)
                                           + Number(Holding(j), stack')
    BY DEF ConnRefs
  <2>1. CASE j = k
    BY <2>1 DEF Balanced
  <2>2. CASE j # k
    BY <2>2 DEF ConnLedger, ConnRefs
  <2> QED BY <2>1, <2>2
<1>2. ConnFreed'
  <2> SUFFICES ASSUME NEW j \in DOMAIN mem'.conn
               PROVE  Number(Freeing("conn", j), stack') + Number({j}, mem'.free["conn"])
                        = IF mem'.conn[j].state = "FREE" THEN 1 ELSE 0
    BY DEF ConnFreed
  <2>1. CASE j = k
    BY <2>1 DEF Balanced
  <2>2. CASE j # k
    BY <2>2 DEF ConnLedger, ConnFreed
  <2> QED BY <2>1, <2>2
<1>3. ConnDies'
  <2> SUFFICES ASSUME NEW j \in DOMAIN mem'.conn
               PROVE  Number(Dying("conn", j), stack')
                        = IF mem'.conn[j].state = "CLOSING" /\ mem'.conn[j].ref = 0 THEN 1 ELSE 0
    BY DEF ConnDies
  <2>1. CASE j = k
    BY <2>1 DEF Balanced
  <2>2. CASE j # k
    BY <2>2 DEF ConnLedger, ConnDies
  <2> QED BY <2>1, <2>2
<1>4. FreeUnheld'
  <2> SUFFICES ASSUME NEW j \in DOMAIN mem'.conn, mem'.conn[j].state = "FREE"
               PROVE  mem'.conn[j].ref = 0
    BY DEF FreeUnheld
  <2>1. CASE j = k
    BY <2>1 DEF Balanced
  <2>2. CASE j # k
    BY <2>2 DEF ConnLedger, FreeUnheld
  <2> QED BY <2>1, <2>2
<1> QED BY <1>1, <1>2, <1>3, <1>4 DEF ConnLedger

\* A frame that concerns no connection but k.
Ours(f, k) == AsideC(f) \/ f \in Holding(k) \/ f \in Freeing("conn", k) \/ f \in Dying("conn", k)

\* Such frames, that are to be pushed
Ones(calls, k) ==
  /\ Sized(calls)
  /\ \A i \in 1..Len(calls) : Ours(calls[i], k) /\ calls[i][1] # "core_connect"

\* A frame that is one of the connection k's own is none that holds, destroys or frees
\* another connection.
LEMMA Others ==
  ASSUME NEW k, NEW j, j # k, NEW f, Ours(f, k)
  PROVE  f \notin Holding(j) /\ f \notin Freeing("conn", j) /\ f \notin Dying("conn", j)
<1>1. CASE AsideC(f)
  BY <1>1, Marked
<1>2. CASE f \in Holding(k)
  BY <1>2 DEF Holding, DecRef, Freeing, Dying
<1>3. CASE f \in Freeing("conn", k)
  BY <1>3 DEF Holding, DecRef, Freeing, Dying
<1>4. CASE f \in Dying("conn", k)
  BY <1>4 DEF Holding, DecRef, Freeing, Dying
<1> QED BY <1>1, <1>2, <1>3, <1>4 DEF Ours

\* Their numbers are kept by a call that concerns k only.
LEMMA Elsewhere ==
  ASSUME NEW st, Sized(st), st # <<>>, NEW calls, NEW k, Ours(st[1], k), Ones(calls, k), NEW j, j # k
  PROVE  /\ Number(Holding(j), Pushed(calls, st)) = Number(Holding(j), st)
         /\ Number(Freeing("conn", j), Pushed(calls, st)) = Number(Freeing("conn", j), st)
         /\ Number(Dying("conn", j), Pushed(calls, st)) = Number(Dying("conn", j), st)
<1>1. \A f : Ours(f, k) => f \notin Holding(j) /\ f \notin Freeing("conn", j) /\ f \notin Dying("conn", j)
  BY Others
<1>5. Sized(calls) /\ \A i \in 1..Len(calls) : Ours(calls[i], k)
  BY DEF Ones
<1>2. Number(Holding(j), Pushed(calls, st)) = Number(Holding(j), st)
  BY <1>1, <1>5, NumberSilent
<1>3. Number(Freeing("conn", j), Pushed(calls, st)) = Number(Freeing("conn", j), st)
  BY <1>1, <1>5, NumberSilent
<1>4. Number(Dying("conn", j), Pushed(calls, st)) = Number(Dying("conn", j), st)
  BY <1>1, <1>5, NumberSilent
<1> QED BY <1>2, <1>3, <1>4

\* core_connect is on top only when it has just been called.
LEMMA NotConnecting ==
  ASSUME Shape, stack # <<>>, NEW calls, Sized(calls),
         \A i \in 1..Len(calls) : calls[i][1] # "core_connect"
  PROVE  LET p == Pushed(calls, stack) IN p # <<>> => p[1][1] # "core_connect"
<1> DEFINE p == Pushed(calls, stack)
<1>1. Sized(stack) /\ \A i \in 2..Len(stack) : stack[i][1] # "core_connect"
  BY DEF Shape, StackOK, AtOnce
<1>2. ASSUME p # <<>> PROVE p[1][1] # "core_connect"
  <2>1. Sized(p)
    BY <1>1, PushedAt
  <2>2. 1 \in 1..Len(p) /\ Len(calls) \in Nat
    BY <1>1, <1>2, <2>1, SizedLen
  <2>3. \/ 1 \in 1..Len(calls) /\ p[1] = calls[1]
        \/ 1 - Len(calls) + 1 \in 2..Len(stack) /\ p[1] = stack[1 - Len(calls) + 1]
    BY <1>1, <2>2, PushedFrom
  <2> HIDE DEF p
  <2> QED BY <1>1, <2>2, <2>3
<1> QED BY <1>2

\* The connections that exist are those that did.
LEMMA ActiveSame ==
  ASSUME Active, stat'.active = stat.active, DOMAIN mem'.conn = DOMAIN mem.conn,
         \A j \in DOMAIN mem.conn : mem'.conn[j].state = "FREE" <=> mem.conn[j].state = "FREE"
  PROVE  Active'
<1>1. Existing' = Existing
  BY DEF Existing
<1> QED BY <1>1 DEF Active

\* The ledger after a call that concerns k only.
LEMMA ConnCall ==
  ASSUME Shape, ConnLedger, stack # <<>>, NEW calls, stack' = Pushed(calls, stack),
         NEW k \in DOMAIN mem.conn, Ours(stack[1], k), Ones(calls, k),
         NEW n, mem' = n, DOMAIN n.conn = DOMAIN mem.conn,
         \A j \in DOMAIN mem.conn : j # k =>
           n.conn[j] = mem.conn[j] /\ Number({j}, n.free["conn"]) = Number({j}, mem.free["conn"]),
         NEW r, n.conn[k] = r, NEW l, Number({k}, n.free["conn"]) = l,
         Balanced(r.ref, r.state, Number(Holding(k), Pushed(calls, stack)),
                  Number(Freeing("conn", k), Pushed(calls, stack)),
                  Number(Dying("conn", k), Pushed(calls, stack)), l),
         Active'
  PROVE  ConnLedger'
<1>1. stack' = Pushed(calls, stack) /\ Sized(stack)
  BY DEF Shape, StackOK
<1>2. \A j : j # k => /\ Number(Holding(j), stack') = Number(Holding(j), stack)
                      /\ Number(Freeing("conn", j), stack') = Number(Freeing("conn", j), stack)
                      /\ Number(Dying("conn", j), stack') = Number(Dying("conn", j), stack)
  <2> TAKE j
  <2> HAVE j # k
  <2>2. /\ Number(Holding(j), Pushed(calls, stack)) = Number(Holding(j), stack)
        /\ Number(Freeing("conn", j), Pushed(calls, stack)) = Number(Freeing("conn", j), stack)
        /\ Number(Dying("conn", j), Pushed(calls, stack)) = Number(Dying("conn", j), stack)
    BY <1>1, Elsewhere
  <2> QED BY <1>1, <2>2
<1>3. Connecting'
  <2> DEFINE p == Pushed(calls, stack)
  <2>1. p # <<>> => p[1][1] # "core_connect"
    BY NotConnecting DEF Ones
  <2> HIDE DEF p
  <2>2. stack' = p
    BY <1>1 DEF p
  <2> QED BY <2>1, <2>2 DEF Connecting
<1>4. k \in DOMAIN mem'.conn
  OBVIOUS
<1>5. \A j \in DOMAIN mem'.conn : j # k =>
           /\ j \in DOMAIN mem.conn
           /\ mem'.conn[j].ref = mem.conn[j].ref /\ mem'.conn[j].state = mem.conn[j].state
           /\ Number(Holding(j), stack') = Number(Holding(j), stack)
           /\ Number(Freeing("conn", j), stack') = Number(Freeing("conn", j), stack)
           /\ Number(Dying("conn", j), stack') = Number(Dying("conn", j), stack)
           /\ Number({j}, mem'.free["conn"]) = Number({j}, mem.free["conn"])
  BY <1>2
<1>6. Balanced(mem'.conn[k].ref, mem'.conn[k].state, Number(Holding(k), stack'),
               Number(Freeing("conn", k), stack'), Number(Dying("conn", k), stack'),
               Number({k}, mem'.free["conn"]))
  BY <1>1
<1> QED BY <1>3, <1>4, <1>5, <1>6, ConnMoved

\* The frames of the ledger of connections.
LEMMA ConnSets ==
  ASSUME NEW k
  PROVE  /\ \A f \in {DecRef("conn", k), <<"close_recvq", k>>, <<"close_sd", k>>} :
              /\ f \in Holding(k) /\ f \notin Freeing("conn", k) /\ f \notin Dying("conn", k)
              /\ Ours(f, k) /\ f[1] # "core_connect" /\ AsideS(f)
         /\ LET f == <<"object_destroy", "conn", k>>
            IN  /\ f \notin Holding(k) /\ f \notin Freeing("conn", k) /\ f \in Dying("conn", k)
                /\ Ours(f, k) /\ f[1] # "core_connect" /\ AsideS(f)
         /\ LET f == <<"free", "conn", k>>
            IN  /\ f \notin Holding(k) /\ f \in Freeing("conn", k) /\ f \notin Dying("conn", k)
                /\ Ours(f, k) /\ f[1] # "core_connect" /\ AsideS(f)
         /\ \A f : AsideC(f) => /\ Ours(f, k) /\ f \notin Holding(k)
                                /\ f \notin Freeing("conn", k) /\ f \notin Dying("conn", k)
<1>1. ASSUME NEW f \in {DecRef("conn", k), <<"close_recvq", k>>, <<"close_sd", k>>}
      PROVE  /\ f \in Holding(k) /\ f \notin Freeing("conn", k) /\ f \notin Dying("conn", k)
             /\ Ours(f, k) /\ f[1] # "core_connect" /\ AsideS(f)
  <2>1. f \in Holding(k)
    BY DEF Holding
  <2>2. f \notin Freeing("conn", k) /\ f \notin Dying("conn", k)
    BY DEF Freeing, Dying, DecRef
  <2>3. f[1] # "core_connect" /\ AsideS(f)
    BY DEF DecRef, AsideS
  <2> QED BY <2>1, <2>2, <2>3 DEF Ours
<1> DEFINE d == <<"object_destroy", "conn", k>>  e == <<"free", "conn", k>>
<1>2. /\ d \notin Holding(k) /\ d \notin Freeing("conn", k) /\ d \in Dying("conn", k)
      /\ d[1] # "core_connect" /\ AsideS(d)
  BY DEF Holding, DecRef, Freeing, Dying, AsideS
<1>3. /\ e \notin Holding(k) /\ e \in Freeing("conn", k) /\ e \notin Dying("conn", k)
      /\ e[1] # "core_connect" /\ AsideS(e)
  BY DEF Holding, DecRef, Freeing, Dying, AsideS
<1>4. Ours(d, k) /\ Ours(e, k)
  BY <1>2, <1>3 DEF Ours
<1>5. \A f : AsideC(f) => /\ Ours(f, k) /\ f \notin Holding(k)
                          /\ f \notin Freeing("conn", k) /\ f \notin Dying("conn", k)
  BY Marked DEF Ours
<1> HIDE DEF d, e
<1>6. \A f \in {DecRef("conn", k), <<"close_recvq", k>>, <<"close_sd", k>>} :
        /\ f \in Holding(k) /\ f \notin Freeing("conn", k) /\ f \notin Dying("conn", k)
        /\ Ours(f, k) /\ f[1] # "core_connect" /\ AsideS(f)
  BY <1>1
<1> QED BY <1>2, <1>3, <1>4, <1>5, <1>6 DEF d, e

\* One frame, or none.
LEMMA OnesFew ==
  ASSUME NEW k
  PROVE  /\ Ones(<<>>, k) /\ CalmS(<<>>)
         /\ \A a : Ours(a, k) /\ a[1] # "core_connect" => Ones(<<a>>, k)
         /\ \A a : AsideS(a) => CalmS(<<a>>)
<1>1. Ones(<<>>, k) /\ CalmS(<<>>)
  BY SizedFew DEF Ones, CalmS
<1>2. ASSUME NEW a, Ours(a, k), a[1] # "core_connect" PROVE Ones(<<a>>, k)
  BY <1>2, SizedFew DEF Ones
<1>3. ASSUME NEW a, AsideS(a) PROVE CalmS(<<a>>)
  BY <1>3, SizedFew DEF CalmS
<1> QED BY <1>1, <1>2, <1>3

\* A step that changes no session.
LEMMA NoSession ==
  ASSUME Shape, NEW n, mem' = n, n.sess = mem.sess, n.free["sess"] = mem.free["sess"],
         UNCHANGED <<visit, gen>>, stat'.completed = stat.completed, stat'.failed = stat.failed
  PROVE  SessKept
<1>1. gen.generated \in Nat
  BY DEF Shape, GenOK
<1>2. gen.generated >= gen.generated
  BY <1>1
<1> QED BY <1>1, <1>2 DEF SessKept, Phases

\* The memory with another connection in the cell k.
LEMMA ConnPut ==
  ASSUME MemOK(mem, opt), NEW k \in DOMAIN mem.conn, NEW r, NEW n, n = [mem EXCEPT !.conn[k] = r]
  PROVE  /\ DOMAIN n.conn = DOMAIN mem.conn /\ n.conn[k] = r
         /\ \A j \in DOMAIN mem.conn : j # k => n.conn[j] = mem.conn[j]
         /\ n.sess = mem.sess /\ n.free = mem.free
  BY DEF MemOK

\* A reference to a connection is given up: after the last one it is to be destroyed.
LEMMA ConnDecRef ==
  Shape /\ ConnLedger /\ object_dec_ref /\ Arg(1) = "conn" /\ verdict' = "none"
    /\ UNCHANGED <<stat, visit, gen>>
  => SessSilent /\ ConnLedger'
<1> SUFFICES ASSUME Shape, ConnLedger, object_dec_ref, Arg(1) = "conn", verdict' = "none",
                    UNCHANGED <<stat, visit, gen>>
             PROVE  SessSilent /\ ConnLedger'
  OBVIOUS
<1> DEFINE k == Arg(2)  o == mem.conn[k]  r == [o EXCEPT !.ref = @ - 1]
           n == [mem EXCEPT !.conn[k] = r]  a == <<"object_destroy", "conn", k>>
           calls == IF o.ref = 1 THEN <<a>> ELSE <<>>
           top == DecRef("conn", k)
<1>1. stack # <<>> /\ stack[1][1] = "object_dec_ref" /\ o.ref > 0 /\ mem' = n
      /\ stack' = calls \o Tail(stack)
  BY DEF object_dec_ref, Top, Run, Check
<1>2. k \in DOMAIN mem.conn /\ stack[1] = top
  BY <1>1, Args DEF ObjectCalls, DecRef
<1>3. MemOK(mem, opt) /\ Sized(stack) /\ o \in Conns(mem, opt)
  BY <1>2 DEF Shape, MemOK, StackOK
<1>4. r.ref = o.ref - 1 /\ r.state = o.state
  BY <1>3 DEF Conns
<1>5. /\ top \in Holding(k) /\ top \notin Freeing("conn", k) /\ top \notin Dying("conn", k)
      /\ Ours(top, k) /\ AsideS(top)
  BY ConnSets
<1>6. /\ a \notin Holding(k) /\ a \notin Freeing("conn", k) /\ a \in Dying("conn", k)
      /\ Ours(a, k) /\ a[1] # "core_connect" /\ AsideS(a)
  BY ConnSets
<1>7. stack' = Pushed(calls, stack)
  BY <1>1 DEF Pushed
<1> HIDE DEF k, r, n, a, top
<1>8. Ones(calls, k) /\ CalmS(calls)
  BY <1>6, OnesFew
<1>9. /\ DOMAIN n.conn = DOMAIN mem.conn /\ n.conn[k] = r
      /\ \A j \in DOMAIN mem.conn : j # k => n.conn[j] = mem.conn[j]
      /\ n.sess = mem.sess /\ n.free = mem.free
  BY <1>2, <1>3, ConnPut DEF n
<1> DEFINE h == Number(Holding(k), stack)  f == Number(Freeing("conn", k), stack)
           d == Number(Dying("conn", k), stack)  l == Number({k}, mem.free["conn"])
           i == IF o.ref = 1 THEN 1 ELSE 0
<1>10. /\ Number(Holding(k), Pushed(calls, stack)) = h - 1
       /\ Number(Freeing("conn", k), Pushed(calls, stack)) = f - 0
       /\ Number(Dying("conn", k), Pushed(calls, stack)) = i + (d - 0)
  <2>1. CASE o.ref = 1
    <3>1. Number(Holding(k), Pushed(<<a>>, stack)) = 0 + (h - 1)
      BY <1>1, <1>2, <1>3, <1>5, <1>6, PushedFew
    <3>2. Number(Freeing("conn", k), Pushed(<<a>>, stack)) = 0 + (f - 0)
      BY <1>1, <1>2, <1>3, <1>5, <1>6, PushedFew
    <3>3. Number(Dying("conn", k), Pushed(<<a>>, stack)) = 1 + (d - 0)
      BY <1>1, <1>2, <1>3, <1>5, <1>6, PushedFew
    <3>4. h \in Nat /\ f \in Nat
      BY <1>3, NumberType
    <3> HIDE DEF h, f, d
    <3>5. 0 + (h - 1) = h - 1 /\ 0 + (f - 0) = f - 0
      BY <3>4
    <3> QED BY <2>1, <3>1, <3>2, <3>3, <3>5
  <2>2. CASE o.ref # 1
    <3>1. Number(Holding(k), Pushed(<<>>, stack)) = h - 1
      BY <1>1, <1>2, <1>3, <1>5, PushedFew
    <3>2. Number(Freeing("conn", k), Pushed(<<>>, stack)) = f - 0
      BY <1>1, <1>2, <1>3, <1>5, PushedFew
    <3>3. Number(Dying("conn", k), Pushed(<<>>, stack)) = d - 0
      BY <1>1, <1>2, <1>3, <1>5, PushedFew
    <3>4. d \in Nat
      BY <1>3, NumberType
    <3> HIDE DEF h, f, d
    <3>5. 0 + (d - 0) = d - 0
      BY <3>4
    <3> QED BY <2>2, <3>1, <3>2, <3>3, <3>5
  <2> QED BY <2>1, <2>2
<1>11. Balanced(r.ref, r.state, Number(Holding(k), Pushed(calls, stack)),
                Number(Freeing("conn", k), Pushed(calls, stack)),
                Number(Dying("conn", k), Pushed(calls, stack)), Number({k}, n.free["conn"]))
  <2> DEFINE ref == o.ref  st == o.state
  <2>1. h \in Nat /\ f \in Nat /\ d \in Nat /\ l \in Nat /\ ref \in Nat /\ ref > 0
        /\ Balanced(ref, st, h, f, d, l) /\ st \in ConnStates
    BY <1>1, <1>2, ConnNumbers
  <2>2. h > 0
    <3>1. Len(stack) \in Nat /\ Len(stack) # 0
      BY <1>1, <1>3, SizedLen
    <3>2. 1 \in 1..Len(stack) /\ stack[1] \in Holding(k)
      BY <1>2, <1>5, <3>1
    <3> QED BY <1>3, <3>2, NumberSome
  <2> HIDE DEF h, f, d, l, ref, st
  <2>3. Balanced(ref - 1, st, h - 1, f - 0, (IF ref = 1 THEN 1 ELSE 0) + (d - 0), l)
    BY <2>1, <2>2 DEF Balanced, ConnStates, Open
  <2> QED BY <1>4, <1>9, <1>10, <2>3 DEF ref, st, l
<1>12. Active'
  <2>1. \A j \in DOMAIN mem.conn : mem'.conn[j].state = "FREE" <=> mem.conn[j].state = "FREE"
    BY <1>1, <1>4, <1>9
  <2> QED BY <1>1, <1>9, <2>1, ActiveSame DEF ConnLedger
<1>13. ConnLedger'
  <2>1. \A j \in DOMAIN mem.conn : j # k =>
          n.conn[j] = mem.conn[j] /\ Number({j}, n.free["conn"]) = Number({j}, mem.free["conn"])
    BY <1>9
  <2> HIDE DEF calls
  <2> QED BY <1>1, <1>2, <1>5, <1>7, <1>8, <1>9, <1>11, <1>12, <2>1, ConnCall
<1>14. SessKept
  BY <1>1, <1>9, NoSession
<1>15. SessSilent
  <2> HIDE DEF calls
  <2> QED BY <1>1, <1>2, <1>5, <1>8, <1>14, StepSess
<1> QED BY <1>13, <1>15

\* A connection that has been destroyed goes to the free list.
LEMMA ConnFree ==
  Shape /\ ConnLedger /\ free /\ Arg(1) = "conn" /\ UNCHANGED <<stat, visit, gen>>
  => SessSilent /\ ConnLedger'
<1> SUFFICES ASSUME Shape, ConnLedger, free, Arg(1) = "conn", UNCHANGED <<stat, visit, gen>>
             PROVE  SessSilent /\ ConnLedger'
  OBVIOUS
<1> DEFINE k == Arg(2)  o == mem.conn[k]  list == <<k>> \o mem.free["conn"]
           n == [mem EXCEPT !.free["conn"] = list]  calls == <<>>
           top == <<"free", "conn", k>>
<1>1. stack # <<>> /\ stack[1][1] = "free" /\ mem' = n /\ stack' = calls \o Tail(stack)
  BY DEF free, Top, Run, Return
<1>2. k \in DOMAIN mem.conn /\ stack[1] = top
  BY <1>1, Args DEF ObjectCalls
<1>3. MemOK(mem, opt) /\ Sized(stack) /\ mem.free["conn"] \in Seq(DOMAIN mem.conn)
  BY DEF Shape, MemOK, StackOK, Types
<1>4. /\ top \notin Holding(k) /\ top \in Freeing("conn", k) /\ top \notin Dying("conn", k)
      /\ Ours(top, k) /\ AsideS(top)
  BY ConnSets
<1>5. stack' = Pushed(calls, stack)
  BY <1>1 DEF Pushed
<1>6. Ones(calls, k) /\ CalmS(calls)
  BY OnesFew
<1> HIDE DEF k, list, top
<1>7. n.sess = mem.sess /\ n.conn = mem.conn /\ n.free["conn"] = list /\ n.free["sess"] = mem.free["sess"]
  BY <1>3 DEF MemOK, Types
<1> HIDE DEF n
<1> DEFINE h == Number(Holding(k), stack)  f == Number(Freeing("conn", k), stack)
           d == Number(Dying("conn", k), stack)  l == Number({k}, mem.free["conn"])
<1>8. /\ Number(Holding(k), Pushed(calls, stack)) = h - 0
      /\ Number(Freeing("conn", k), Pushed(calls, stack)) = f - 1
      /\ Number(Dying("conn", k), Pushed(calls, stack)) = d - 0
  BY <1>1, <1>2, <1>3, <1>4, PushedFew
<1>9. \A j \in DOMAIN mem.conn :
        Number({j}, list) = (IF k = j THEN 1 ELSE 0) + Number({j}, mem.free["conn"])
  <2> TAKE j \in DOMAIN mem.conn
  <2>1. Number({j}, list) = (IF k \in {j} THEN 1 ELSE 0) + Number({j}, mem.free["conn"])
    BY <1>2, <1>3, NumberCons DEF list
  <2>2. k \in {j} <=> k = j
    OBVIOUS
  <2> QED BY <2>1, <2>2
<1>10. \A j \in DOMAIN mem.conn : j # k =>
         n.conn[j] = mem.conn[j] /\ Number({j}, n.free["conn"]) = Number({j}, mem.free["conn"])
  <2> TAKE j \in DOMAIN mem.conn
  <2> HAVE j # k
  <2> DEFINE y == Number({j}, mem.free["conn"])
  <2>1. Number({j}, list) = 0 + y /\ y \in Nat
    BY <1>9, ConnNumbers
  <2>2. 0 + y = y
    BY <2>1
  <2> QED BY <1>7, <2>1, <2>2
<1>11. Balanced(o.ref, o.state, Number(Holding(k), Pushed(calls, stack)),
                Number(Freeing("conn", k), Pushed(calls, stack)),
                Number(Dying("conn", k), Pushed(calls, stack)), 1 + l)
  <2> DEFINE ref == o.ref  st == o.state
  <2>1. h \in Nat /\ f \in Nat /\ d \in Nat /\ l \in Nat /\ ref \in Nat
        /\ Balanced(ref, st, h, f, d, l) /\ st \in ConnStates
    BY <1>2, ConnNumbers
  <2>2. f > 0
    <3>1. Len(stack) \in Nat /\ Len(stack) # 0
      BY <1>1, <1>3, SizedLen
    <3>2. 1 \in 1..Len(stack) /\ stack[1] \in Freeing("conn", k)
      BY <1>2, <1>4, <3>1
    <3> QED BY <1>3, <3>2, NumberSome
  <2> HIDE DEF h, f, d, l, ref, st
  <2>4. Balanced(ref, st, h - 0, f - 1, d - 0, 1 + l)
    BY <2>1, <2>2 DEF Balanced, ConnStates, Open
  <2> QED BY <1>8, <2>4 DEF ref, st
<1>16. n.conn[k] = o /\ Number({k}, n.free["conn"]) = 1 + l
  BY <1>2, <1>7, <1>9
<1>12. Active'
  <2>1. \A j \in DOMAIN mem.conn : mem'.conn[j].state = "FREE" <=> mem.conn[j].state = "FREE"
    BY <1>1, <1>7
  <2> QED BY <1>1, <1>7, <2>1, ActiveSame DEF ConnLedger
<1>13. ConnLedger'
  <2>1. DOMAIN n.conn = DOMAIN mem.conn
    BY <1>7
  <2>2. mem' = n /\ stack # <<>> /\ Ours(stack[1], k) /\ Ones(calls, k) /\ k \in DOMAIN mem.conn
    BY <1>1, <1>2, <1>4, <1>6
  <2> HIDE DEF calls
  <2> HIDE DEF o, l
  <2> QED BY <1>5, <1>10, <1>11, <1>12, <1>16, <2>1, <2>2, ConnCall
<1>14. SessKept
  BY <1>1, <1>7, NoSession
<1>15. SessSilent
  <2> HIDE DEF calls
  <2> QED BY <1>1, <1>2, <1>4, <1>6, <1>14, StepSess
<1> QED BY <1>13, <1>15

\* A connection is destroyed when it has been closed: it exists no more.
LEMMA ConnDestroyed ==
  Shape /\ ConnLedger /\ StatOK /\ DestroyConn /\ verdict' = "none" /\ UNCHANGED gen
  => SessSilent /\ ConnLedger'
<1> SUFFICES ASSUME Shape, ConnLedger, StatOK, DestroyConn, verdict' = "none", UNCHANGED gen
             PROVE  SessSilent /\ ConnLedger'
  OBVIOUS
<1> DEFINE k == Arg(2)  o == mem.conn[k]  r == [o EXCEPT !.state = "FREE"]
           n == [mem EXCEPT !.conn[k] = r]  a == <<"free", "conn", k>>  calls == <<a>>
           top == <<"object_destroy", "conn", k>>
<1>1. stack # <<>> /\ stack[1][1] = "object_destroy" /\ o.state = "CLOSING" /\ mem' = n
      /\ stack' = calls \o Tail(stack) /\ UNCHANGED visit
      /\ stat' = [stat EXCEPT !.active = @ - 1] /\ Arg(1) = "conn"
  BY DEF DestroyConn, Top, Run, Check, envVars
<1>2. k \in DOMAIN mem.conn /\ stack[1] = top
  BY <1>1, Args DEF ObjectCalls
<1>3. MemOK(mem, opt) /\ Sized(stack) /\ o \in Conns(mem, opt)
  BY <1>2 DEF Shape, MemOK, StackOK
<1>4. r.ref = o.ref /\ r.state = "FREE"
  BY <1>3 DEF Conns
<1>5. /\ top \notin Holding(k) /\ top \notin Freeing("conn", k) /\ top \in Dying("conn", k)
      /\ Ours(top, k) /\ AsideS(top)
  BY ConnSets
<1>6. /\ a \notin Holding(k) /\ a \in Freeing("conn", k) /\ a \notin Dying("conn", k)
      /\ Ours(a, k) /\ a[1] # "core_connect" /\ AsideS(a)
  BY ConnSets
<1>7. stack' = Pushed(calls, stack)
  BY <1>1 DEF Pushed
<1> HIDE DEF k, r, n, a, top
<1>8. Ones(calls, k) /\ CalmS(calls)
  BY <1>6, OnesFew
<1>9. /\ DOMAIN n.conn = DOMAIN mem.conn /\ n.conn[k] = r
      /\ \A j \in DOMAIN mem.conn : j # k => n.conn[j] = mem.conn[j]
      /\ n.sess = mem.sess /\ n.free = mem.free
  BY <1>2, <1>3, ConnPut DEF n
<1>10. stat'.active = stat.active - 1 /\ stat'.completed = stat.completed /\ stat'.failed = stat.failed
  BY <1>1 DEF StatOK
<1> DEFINE h == Number(Holding(k), stack)  f == Number(Freeing("conn", k), stack)
           d == Number(Dying("conn", k), stack)  l == Number({k}, mem.free["conn"])
<1>11. /\ Number(Holding(k), Pushed(calls, stack)) = 0 + (h - 0)
       /\ Number(Freeing("conn", k), Pushed(calls, stack)) = 1 + (f - 0)
       /\ Number(Dying("conn", k), Pushed(calls, stack)) = 0 + (d - 1)
  BY <1>1, <1>2, <1>3, <1>5, <1>6, PushedFew
<1>12. Balanced(r.ref, r.state, Number(Holding(k), Pushed(calls, stack)),
                Number(Freeing("conn", k), Pushed(calls, stack)),
                Number(Dying("conn", k), Pushed(calls, stack)), Number({k}, n.free["conn"]))
  <2> DEFINE ref == o.ref  st == o.state
  <2>1. h \in Nat /\ f \in Nat /\ d \in Nat /\ l \in Nat /\ ref \in Nat
        /\ Balanced(ref, st, h, f, d, l) /\ st = "CLOSING"
    BY <1>1, <1>2, ConnNumbers
  <2>2. d > 0
    <3>1. Len(stack) \in Nat /\ Len(stack) # 0
      BY <1>1, <1>3, SizedLen
    <3>2. 1 \in 1..Len(stack) /\ stack[1] \in Dying("conn", k)
      BY <1>2, <1>5, <3>1
    <3> QED BY <1>3, <3>2, NumberSome
  <2> HIDE DEF h, f, d, l, ref, st
  <2>3. Balanced(ref, "FREE", 0 + (h - 0), 1 + (f - 0), 0 + (d - 1), l)
    BY <2>1, <2>2 DEF Balanced, Open
  <2> QED BY <1>4, <1>9, <1>11, <2>3 DEF ref, l
<1>13. Active'
  <2>1. Existing' = Existing \ {k} /\ k \in Existing
    BY <1>1, <1>2, <1>4, <1>9 DEF Existing
  <2>2. IsFiniteSet(Existing)
    <3>1. Sized(mem.conn)
      BY <1>3 DEF MemOK
    <3>2. Len(mem.conn) \in Nat /\ DOMAIN mem.conn = 1..Len(mem.conn)
      BY <3>1, SizedLen
    <3>5. Len(mem.conn) \in Int /\ 1 \in Int
      BY <3>2
    <3>3. IsFiniteSet(1..Len(mem.conn))
      BY <3>5, FS_Interval
    <3>4. Existing \subseteq 1..Len(mem.conn)
      BY <3>2 DEF Existing
    <3> QED BY <3>3, <3>4, FS_Subset
  <2>3. Cardinality(Existing \ {k}) = Cardinality(Existing) - 1
    BY <2>1, <2>2, FS_RemoveElement
  <2>4. stat.active = Cardinality(Existing)
    BY DEF ConnLedger, Active
  <2> QED BY <1>10, <2>1, <2>3, <2>4 DEF Active
<1>14. ConnLedger'
  <2>1. \A j \in DOMAIN mem.conn : j # k =>
          n.conn[j] = mem.conn[j] /\ Number({j}, n.free["conn"]) = Number({j}, mem.free["conn"])
    BY <1>9
  <2> HIDE DEF calls
  <2> QED BY <1>1, <1>2, <1>5, <1>7, <1>8, <1>9, <1>12, <1>13, <2>1, ConnCall
<1>15. SessKept
  BY <1>1, <1>9, <1>10, NoSession
<1>16. SessSilent
  <2> HIDE DEF calls
  <2> QED BY <1>1, <1>2, <1>5, <1>8, <1>15, StepSess
<1> QED BY <1>14, <1>16

\* The socket is closed; the connection's own reference is given up next.
LEMMA CloseSd ==
  Shape /\ ConnLedger /\ close_sd /\ UNCHANGED gen => SessSilent /\ ConnLedger'
<1> SUFFICES ASSUME Shape, ConnLedger, close_sd, UNCHANGED gen PROVE SessSilent /\ ConnLedger'
  OBVIOUS
<1> DEFINE k == Arg(1)  o == mem.conn[k]  r == [o EXCEPT !.recvq = <<>>]
           n == [mem EXCEPT !.conn[k] = r]  a == DecRef("conn", k)  calls == <<a>>
           top == <<"close_sd", k>>
<1>1. stack # <<>> /\ stack[1][1] = "close_sd" /\ mem' = n /\ stack' = calls \o Tail(stack)
      /\ UNCHANGED <<stat, visit>>
  BY DEF close_sd, Top, Run
<1>2. k \in DOMAIN mem.conn /\ stack[1] = top
  <2>1. stack[1] = <<stack[1][1], Arg(1)>>
    BY <1>1, Args
  <2> QED BY <1>1, <2>1, Args DEF ConnCalls
<1>3. MemOK(mem, opt) /\ Sized(stack) /\ o \in Conns(mem, opt)
  BY <1>2 DEF Shape, MemOK, StackOK
<1>4. r.ref = o.ref /\ r.state = o.state
  BY <1>3 DEF Conns
<1>5. /\ top \in Holding(k) /\ top \notin Freeing("conn", k) /\ top \notin Dying("conn", k)
      /\ Ours(top, k) /\ AsideS(top)
  BY ConnSets
<1>6. /\ a \in Holding(k) /\ a \notin Freeing("conn", k) /\ a \notin Dying("conn", k)
      /\ Ours(a, k) /\ a[1] # "core_connect" /\ AsideS(a)
  BY ConnSets
<1>7. stack' = Pushed(calls, stack)
  BY <1>1 DEF Pushed
<1> HIDE DEF k, r, n, a, top
<1>8. Ones(calls, k) /\ CalmS(calls)
  BY <1>6, OnesFew
<1>9. /\ DOMAIN n.conn = DOMAIN mem.conn /\ n.conn[k] = r
      /\ \A j \in DOMAIN mem.conn : j # k => n.conn[j] = mem.conn[j]
      /\ n.sess = mem.sess /\ n.free = mem.free
  BY <1>2, <1>3, ConnPut DEF n
<1> DEFINE h == Number(Holding(k), stack)  f == Number(Freeing("conn", k), stack)
           d == Number(Dying("conn", k), stack)  l == Number({k}, mem.free["conn"])
<1>10. /\ Number(Holding(k), Pushed(calls, stack)) = 1 + (h - 1)
       /\ Number(Freeing("conn", k), Pushed(calls, stack)) = 0 + (f - 0)
       /\ Number(Dying("conn", k), Pushed(calls, stack)) = 0 + (d - 0)
  BY <1>1, <1>2, <1>3, <1>5, <1>6, PushedFew
<1>11. Balanced(r.ref, r.state, Number(Holding(k), Pushed(calls, stack)),
                Number(Freeing("conn", k), Pushed(calls, stack)),
                Number(Dying("conn", k), Pushed(calls, stack)), l)
  <2> DEFINE ref == o.ref  st == o.state
  <2>1. h \in Nat /\ f \in Nat /\ d \in Nat /\ l \in Nat /\ ref \in Nat /\ Balanced(ref, st, h, f, d, l)
    BY <1>2, ConnNumbers
  <2> HIDE DEF h, f, d, l, ref, st
  <2>2. 1 + (h - 1) = h /\ 0 + (f - 0) = f /\ 0 + (d - 0) = d
    BY <2>1
  <2> QED BY <1>4, <1>10, <2>1, <2>2 DEF ref, st
<1>12. Active'
  <2>1. \A j \in DOMAIN mem.conn : mem'.conn[j].state = "FREE" <=> mem.conn[j].state = "FREE"
    BY <1>1, <1>4, <1>9
  <2> QED BY <1>1, <1>9, <2>1, ActiveSame DEF ConnLedger
<1>13. ConnLedger'
  <2>1. \A j \in DOMAIN mem.conn : j # k =>
          n.conn[j] = mem.conn[j] /\ Number({j}, n.free["conn"]) = Number({j}, mem.free["conn"])
    BY <1>9
  <2>2. Number({k}, n.free["conn"]) = l
    BY <1>9
  <2> HIDE DEF calls, l
  <2> QED BY <1>1, <1>2, <1>5, <1>7, <1>8, <1>9, <1>11, <1>12, <2>1, <2>2, ConnCall
<1>14. SessKept
  BY <1>1, <1>9, NoSession
<1>15. SessSilent
  <2> HIDE DEF calls
  <2> QED BY <1>1, <1>2, <1>5, <1>8, <1>14, StepSess
<1> QED BY <1>13, <1>15

\* What the closing of a queue calls: a reference of each of its calls is given up, then a.
LEMMA QueueEntries ==
  ASSUME NEW S, NEW q \in Seq(S), NEW a
  PROVE  LET calls == Cat(DecRefAll(q), <<a>>)
         IN  /\ Sized(calls) /\ Len(q) \in Nat /\ Len(calls) = Len(q) + 1 /\ calls[Len(q) + 1] = a
             /\ \A i \in 1..Len(q) : calls[i] = DecRef("call", q[i])
<1> DEFINE d == DecRefAll(q)  one == <<a>>  calls == Cat(d, one)
           T == {DecRef("call", c) : c \in S} \union {a}
<1>1. Len(q) \in Nat /\ DOMAIN q = 1..Len(q) /\ \A i \in 1..Len(q) : q[i] \in S
  BY LenProperties, ElementOfSeq
<1>2. d \in [1..Len(q) -> T] /\ DOMAIN d = 1..Len(q)
      /\ \A i \in 1..Len(q) : d[i] = DecRef("call", q[i])
  BY <1>1 DEF DecRefAll
<1>3. d \in Seq(T)
  BY <1>1, <1>2, SeqDef
<1>4. one \in Seq(T) /\ Len(one) = 1 /\ one[1] = a
  BY DEF one
<1>5. Len(d) = Len(q)
  BY <1>1, <1>2, <1>3, LenProperties
<1> HIDE DEF T, d, one
<1>6. calls \in Seq(T) /\ Len(calls) = Len(d) + Len(one)
      /\ \A i \in 1..(Len(d) + Len(one)) : calls[i] = IF i <= Len(d) THEN d[i] ELSE one[i - Len(d)]
  BY <1>3, <1>4, ConcatProperties DEF Cat
<1> HIDE DEF calls
<1>7. Sized(calls) /\ Len(calls) = Len(q) + 1
  BY <1>4, <1>5, <1>6, SizedIn
<1>8. calls[Len(q) + 1] = a
  BY <1>1, <1>4, <1>5, <1>6
<1>9. \A i \in 1..Len(q) : calls[i] = DecRef("call", q[i])
  BY <1>1, <1>2, <1>4, <1>5, <1>6
<1> QED BY <1>1, <1>7, <1>8, <1>9 DEF calls, d, one

\* Of these frames only a may concern a connection.
LEMMA QueueNumbers ==
  ASSUME NEW S, NEW q \in Seq(S), NEW a, NEW k, Ours(a, k), a[1] # "core_connect", AsideS(a)
  PROVE  LET calls == Cat(DecRefAll(q), <<a>>)
         IN  /\ Ones(calls, k) /\ CalmS(calls)
             /\ Number(Holding(k), calls) = (IF a \in Holding(k) THEN 1 ELSE 0)
             /\ Number(Freeing("conn", k), calls) = (IF a \in Freeing("conn", k) THEN 1 ELSE 0)
             /\ Number(Dying("conn", k), calls) = (IF a \in Dying("conn", k) THEN 1 ELSE 0)
<1> DEFINE calls == Cat(DecRefAll(q), <<a>>)  z == Len(q) + 1
<1>1. /\ Sized(calls) /\ Len(q) \in Nat /\ Len(calls) = z /\ calls[z] = a
      /\ \A i \in 1..Len(q) : calls[i] = DecRef("call", q[i])
  BY QueueEntries
<1> HIDE DEF calls
<1>2. \A c : LET f == DecRef("call", c)
             IN  /\ AsideC(f) /\ AsideS(f) /\ f[1] # "core_connect"
                 /\ f \notin Holding(k) /\ f \notin Freeing("conn", k) /\ f \notin Dying("conn", k)
  <2> TAKE c
  <2> DEFINE f == DecRef("call", c)
  <2>1. Still(f)
    BY StillFrames
  <2> HIDE DEF f
  <2>2. AsideC(f) /\ AsideS(f) /\ f[1] # "core_connect"
    BY <2>1 DEF Still
  <2>3. f \notin Holding(k) /\ f \notin Freeing("conn", k) /\ f \notin Dying("conn", k)
    BY <2>2, Marked
  <2> QED BY <2>2, <2>3 DEF f
<1>3. z \in Nat /\ DOMAIN calls = 1..z /\ (\A i \in 1..z : i = z \/ i \in 1..Len(q)) /\ z \in 1..z
  BY <1>1, SizedLen
<1>4. Ones(calls, k)
  <2>1. \A i \in 1..z : Ours(calls[i], k) /\ calls[i][1] # "core_connect"
    BY <1>1, <1>2, <1>3 DEF Ours
  <2> HIDE DEF z
  <2> QED BY <1>1, <2>1 DEF Ones
<1>5. CalmS(calls)
  <2>1. \A i \in 1..z : AsideS(calls[i])
    BY <1>1, <1>2, <1>3
  <2> HIDE DEF z
  <2> QED BY <1>1, <2>1 DEF CalmS
<1>6. ASSUME NEW X, \A c : DecRef("call", c) \notin X
      PROVE  Number(X, calls) = IF a \in X THEN 1 ELSE 0
  <2> HIDE DEF z
  <2>1. At(X, calls) = IF a \in X THEN {z} ELSE {}
    <3>1. \A i \in 1..z : calls[i] \in X <=> i = z /\ a \in X
      BY <1>1, <1>3, <1>6
    <3> QED BY <1>3, <3>1 DEF At
  <2> QED BY <2>1, FS_Singleton, FS_EmptySet DEF Number
<1>7. /\ \A c : DecRef("call", c) \notin Holding(k)
      /\ \A c : DecRef("call", c) \notin Freeing("conn", k)
      /\ \A c : DecRef("call", c) \notin Dying("conn", k)
  BY <1>2
<1>8. Number(Holding(k), calls) = (IF a \in Holding(k) THEN 1 ELSE 0)
  BY <1>6, <1>7
<1>9. Number(Freeing("conn", k), calls) = (IF a \in Freeing("conn", k) THEN 1 ELSE 0)
  BY <1>6, <1>7
<1>10. Number(Dying("conn", k), calls) = (IF a \in Dying("conn", k) THEN 1 ELSE 0)
  BY <1>6, <1>7
<1> QED BY <1>4, <1>5, <1>8, <1>9, <1>10 DEF calls

\* The send queue has been given up: the receive queue is, and the socket closed.
LEMMA CloseRecvq ==
  Shape /\ ConnLedger /\ close_recvq /\ UNCHANGED gen => SessSilent /\ ConnLedger'
<1> SUFFICES ASSUME Shape, ConnLedger, close_recvq, UNCHANGED gen PROVE SessSilent /\ ConnLedger'
  OBVIOUS
<1> DEFINE k == Arg(1)  o == mem.conn[k]  r == [o EXCEPT !.sendq = <<>>]
           n == [mem EXCEPT !.conn[k] = r]  a == <<"close_sd", k>>
           calls == Cat(DecRefAll(o.recvq), <<a>>)  top == <<"close_recvq", k>>
<1>1. stack # <<>> /\ stack[1][1] = "close_recvq" /\ mem' = n /\ stack' = calls \o Tail(stack)
      /\ UNCHANGED <<stat, visit>>
  BY DEF close_recvq, Top, Run, Cat
<1>2. k \in DOMAIN mem.conn /\ stack[1] = top
  <2>1. stack[1] = <<stack[1][1], Arg(1)>>
    BY <1>1, Args
  <2> QED BY <1>1, <2>1, Args DEF ConnCalls
<1>3. MemOK(mem, opt) /\ Sized(stack) /\ o \in Conns(mem, opt) /\ o.recvq \in Seq(DOMAIN mem.call)
  BY <1>2 DEF Shape, MemOK, StackOK, Conns
<1>4. r.ref = o.ref /\ r.state = o.state
  BY <1>3 DEF Conns
<1>5. /\ top \in Holding(k) /\ top \notin Freeing("conn", k) /\ top \notin Dying("conn", k)
      /\ Ours(top, k) /\ AsideS(top)
  BY ConnSets
<1>6. /\ a \in Holding(k) /\ a \notin Freeing("conn", k) /\ a \notin Dying("conn", k)
      /\ Ours(a, k) /\ a[1] # "core_connect" /\ AsideS(a)
  BY ConnSets
<1>7. stack' = Pushed(calls, stack)
  BY <1>1 DEF Pushed
<1> HIDE DEF k, r, n, a, top
<1>8. /\ Ones(calls, k) /\ CalmS(calls)
      /\ Number(Holding(k), calls) = 1 /\ Number(Freeing("conn", k), calls) = 0
      /\ Number(Dying("conn", k), calls) = 0
  BY <1>3, <1>6, QueueNumbers
<1> HIDE DEF calls
<1>9. /\ DOMAIN n.conn = DOMAIN mem.conn /\ n.conn[k] = r
      /\ \A j \in DOMAIN mem.conn : j # k => n.conn[j] = mem.conn[j]
      /\ n.sess = mem.sess /\ n.free = mem.free
  BY <1>2, <1>3, ConnPut DEF n
<1> DEFINE h == Number(Holding(k), stack)  f == Number(Freeing("conn", k), stack)
           d == Number(Dying("conn", k), stack)  l == Number({k}, mem.free["conn"])
<1>10. /\ Number(Holding(k), Pushed(calls, stack)) = 1 + h - 1
       /\ Number(Freeing("conn", k), Pushed(calls, stack)) = 0 + f - 0
       /\ Number(Dying("conn", k), Pushed(calls, stack)) = 0 + d - 0
  <2>1. Sized(calls)
    BY <1>8 DEF Ones
  <2> QED BY <1>1, <1>2, <1>3, <1>5, <1>8, <2>1, NumberPushed
<1>11. Balanced(r.ref, r.state, Number(Holding(k), Pushed(calls, stack)),
                Number(Freeing("conn", k), Pushed(calls, stack)),
                Number(Dying("conn", k), Pushed(calls, stack)), l)
  <2> DEFINE ref == o.ref  st == o.state
  <2>1. h \in Nat /\ f \in Nat /\ d \in Nat /\ l \in Nat /\ ref \in Nat /\ Balanced(ref, st, h, f, d, l)
    BY <1>2, ConnNumbers
  <2> HIDE DEF h, f, d, l, ref, st
  <2>2. 1 + h - 1 = h /\ 0 + f - 0 = f /\ 0 + d - 0 = d
    BY <2>1
  <2> QED BY <1>4, <1>10, <2>1, <2>2 DEF ref, st
<1>12. Active'
  <2>1. \A j \in DOMAIN mem.conn : mem'.conn[j].state = "FREE" <=> mem.conn[j].state = "FREE"
    BY <1>1, <1>4, <1>9
  <2> QED BY <1>1, <1>9, <2>1, ActiveSame DEF ConnLedger
<1>13. ConnLedger'
  <2>1. \A j \in DOMAIN mem.conn : j # k =>
          n.conn[j] = mem.conn[j] /\ Number({j}, n.free["conn"]) = Number({j}, mem.free["conn"])
    BY <1>9
  <2>2. Number({k}, n.free["conn"]) = l
    BY <1>9
  <2> HIDE DEF l
  <2> QED BY <1>1, <1>2, <1>5, <1>7, <1>8, <1>9, <1>11, <1>12, <2>1, <2>2, ConnCall
<1>14. SessKept
  BY <1>1, <1>9, NoSession
<1>15. SessSilent
  BY <1>1, <1>2, <1>5, <1>8, <1>14, StepSess
<1> QED BY <1>13, <1>15

\* An open connection is closed: its own reference is to be given up in the end.
LEMMA CoreClose ==
  Shape /\ ConnLedger /\ core_close /\ UNCHANGED gen => SessSilent /\ ConnLedger'
<1> SUFFICES ASSUME Shape, ConnLedger, core_close, UNCHANGED gen PROVE SessSilent /\ ConnLedger'
  OBVIOUS
<1> DEFINE k == Arg(1)  o == mem.conn[k]  r == [o EXCEPT !.state = "CLOSING"]
           n == [mem EXCEPT !.conn[k] = r]  a == <<"close_recvq", k>>
           calls == Cat(DecRefAll(o.sendq), <<a>>)  top == stack[1]
<1>1. stack # <<>> /\ stack[1][1] = "core_close" /\ UNCHANGED <<stat, visit>>
  BY DEF core_close, Top
<1>2. k \in DOMAIN mem.conn
  BY <1>1, Args DEF ConnCalls
<1>3. MemOK(mem, opt) /\ Sized(stack) /\ o \in Conns(mem, opt) /\ o.sendq \in Seq(DOMAIN mem.call)
  BY <1>2 DEF Shape, MemOK, StackOK, Conns
<1>4. CASE o.state \notin Open
  <2> DEFINE none == <<>>
  <2>1. mem' = mem /\ stack' = none \o Tail(stack)
    BY <1>4 DEF core_close, Run, Return
  <2>2. Calm(none)
    BY CalmFew
  <2> HIDE DEF none
  <2>3. stack[1][1] \in StillCalls
    BY <1>1 DEF StillCalls
  <2>4. Silent
    BY <1>1, <2>1, <2>2, <2>3, SilentSame
  <2> QED BY <2>4, SilentConn DEF Silent
<1>5. CASE o.state \in Open
  <2>1. mem' = n /\ stack' = calls \o Tail(stack)
    BY <1>5 DEF core_close, Run, Cat
  <2>2. r.ref = o.ref /\ r.state = "CLOSING"
    BY <1>3 DEF Conns
  <2>3. AsideC(top) /\ AsideS(top)
    <3>1. Still(top)
      BY <1>1, StillFrames DEF StillCalls
    <3> QED BY <3>1 DEF Still
  <2>4. Ours(top, k) /\ top \notin Holding(k) /\ top \notin Freeing("conn", k) /\ top \notin Dying("conn", k)
    <3> HIDE DEF top
    <3> QED BY <2>3, ConnSets
  <2>6. /\ a \in Holding(k) /\ a \notin Freeing("conn", k) /\ a \notin Dying("conn", k)
        /\ Ours(a, k) /\ a[1] # "core_connect" /\ AsideS(a)
    BY ConnSets
  <2>7. stack' = Pushed(calls, stack)
    BY <2>1 DEF Pushed
  <2> HIDE DEF k, r, n, a
  <2>8. /\ Ones(calls, k) /\ CalmS(calls)
        /\ Number(Holding(k), calls) = 1 /\ Number(Freeing("conn", k), calls) = 0
        /\ Number(Dying("conn", k), calls) = 0
    BY <1>3, <2>6, QueueNumbers
  <2> HIDE DEF calls
  <2>9. /\ DOMAIN n.conn = DOMAIN mem.conn /\ n.conn[k] = r
        /\ \A j \in DOMAIN mem.conn : j # k => n.conn[j] = mem.conn[j]
        /\ n.sess = mem.sess /\ n.free = mem.free
    BY <1>2, <1>3, ConnPut DEF n
  <2> DEFINE h == Number(Holding(k), stack)  f == Number(Freeing("conn", k), stack)
             d == Number(Dying("conn", k), stack)  l == Number({k}, mem.free["conn"])
  <2>10. /\ Number(Holding(k), Pushed(calls, stack)) = 1 + h - 0
         /\ Number(Freeing("conn", k), Pushed(calls, stack)) = 0 + f - 0
         /\ Number(Dying("conn", k), Pushed(calls, stack)) = 0 + d - 0
    <3>1. Sized(calls)
      BY <2>8 DEF Ones
    <3> QED BY <1>1, <1>3, <2>4, <2>8, <3>1, NumberPushed
  <2>11. Balanced(r.ref, r.state, Number(Holding(k), Pushed(calls, stack)),
                  Number(Freeing("conn", k), Pushed(calls, stack)),
                  Number(Dying("conn", k), Pushed(calls, stack)), l)
    <3> DEFINE ref == o.ref  st == o.state
    <3>1. h \in Nat /\ f \in Nat /\ d \in Nat /\ l \in Nat /\ ref \in Nat /\ Balanced(ref, st, h, f, d, l)
      BY <1>2, ConnNumbers
    <3>2. st \in Open /\ r.ref = ref /\ r.state = "CLOSING"
      BY <1>5, <2>2
    <3>3. /\ Number(Holding(k), Pushed(calls, stack)) = 1 + h
          /\ Number(Freeing("conn", k), Pushed(calls, stack)) = f
          /\ Number(Dying("conn", k), Pushed(calls, stack)) = d
      <4> HIDE DEF h, f, d, l
      <4> QED BY <2>10, <3>1
    <3> HIDE DEF h, f, d, l, ref, st
    <3>4. Balanced(ref, "CLOSING", 1 + h, f, d, l)
      BY <3>1, <3>2 DEF Balanced, Open
    <3> QED BY <3>2, <3>3, <3>4
  <2>12. Active'
    <3>1. \A j \in DOMAIN mem.conn : mem'.conn[j].state = "FREE" <=> mem.conn[j].state = "FREE"
      BY <1>5, <2>1, <2>2, <2>9 DEF Open
    <3> QED BY <1>1, <2>1, <2>9, <3>1, ActiveSame DEF ConnLedger
  <2>13. ConnLedger'
    <3>1. \A j \in DOMAIN mem.conn : j # k =>
            n.conn[j] = mem.conn[j] /\ Number({j}, n.free["conn"]) = Number({j}, mem.free["conn"])
      BY <2>9
    <3>2. Number({k}, n.free["conn"]) = l
      BY <2>9
    <3> HIDE DEF l
    <3> QED BY <1>1, <1>2, <2>1, <2>4, <2>7, <2>8, <2>9, <2>11, <2>12, <3>1, <3>2, ConnCall
  <2>14. SessKept
    BY <1>1, <2>1, <2>9, NoSession
  <2>15. SessSilent
    BY <1>1, <2>1, <2>3, <2>8, <2>14, StepSess
  <2> QED BY <2>13, <2>15
<1> QED BY <1>4, <1>5

\* No frame closes, references, destroys or frees a connection there has never been.
LEMMA ConnUnknown ==
  ASSUME Shape, NEW k, k \notin DOMAIN mem.conn
  PROVE  /\ Number(Holding(k), stack) = 0 /\ Number(Freeing("conn", k), stack) = 0
         /\ Number(Dying("conn", k), stack) = 0
<1>1. Sized(stack)
  BY DEF Shape, StackOK
<1>2. ASSUME NEW i \in 1..Len(stack), NEW f \in ObjectCalls PROVE stack[i] # <<f, "conn", k>>
  <2> SUFFICES ASSUME stack[i] = <<f, "conn", k>> PROVE FALSE
    OBVIOUS
  <2>1. FrameOK(stack[i], mem, opt) /\ stack[i][1] \in ObjectCalls
    BY SMTT(30) DEF Shape, StackOK
  <2>2. PICK t \in Types : \E x \in DOMAIN mem[t] : stack[i] = <<stack[i][1], t, x>>
    BY <2>1 DEF FrameOK
  <2>3. PICK x \in DOMAIN mem[t] : stack[i] = <<stack[i][1], t, x>>
    BY <2>2
  <2>4. t = "conn" /\ x = k
    BY <2>3
  <2> QED BY <2>3, <2>4
<1>3. ASSUME NEW i \in 1..Len(stack), NEW f \in {"close_recvq", "close_sd"} PROVE stack[i] # <<f, k>>
  <2> SUFFICES ASSUME stack[i] = <<f, k>> PROVE FALSE
    OBVIOUS
  <2>1. FrameOK(stack[i], mem, opt)
    BY DEF Shape, StackOK
  <2>2. stack[i][1] \in ConnCalls /\ stack[i][2] = k
    BY DEF ConnCalls
  <2> QED BY <2>1, <2>2 DEF FrameOK
<1>4. \A i \in 1..Len(stack) : /\ stack[i] \notin Holding(k) /\ stack[i] \notin Freeing("conn", k)
                               /\ stack[i] \notin Dying("conn", k)
  BY <1>2, <1>3 DEF Holding, DecRef, Freeing, Dying, ObjectCalls
<1> QED BY <1>1, <1>4, NumberNone

\* object_new takes the first cell of the free list, if there is one.
LEMMA Taken ==
  ASSUME NEW t \in Types, NEW n, NEW x, NEW o, MemOK(mem, opt), Allocated(mem, n, t, x, o)
  PROVE  /\ \A y : y # x => Number({y}, n.free[t]) = Number({y}, mem.free[t])
         /\ \/ x \notin DOMAIN mem[t] /\ Number({x}, n.free[t]) = 0
            \/ /\ x \in DOMAIN mem[t] /\ Number({x}, n.free[t]) \in Nat
               /\ Number({x}, mem.free[t]) = 1 + Number({x}, n.free[t])
<1> DEFINE q == mem.free[t]  p == n.free[t]  D == DOMAIN mem[t]
<1>1. q \in Seq(D)
  BY DEF MemOK
<1>2. \/ q = <<>> /\ p = <<>> /\ x \notin D
      \/ q # <<>> /\ p = Tail(q) /\ x = Head(q) /\ x \in D
  BY DEF Allocated
<1> HIDE DEF q, p, D
<1>3. CASE q = <<>>
  <2>1. p = q /\ x \notin D
    BY <1>2, <1>3
  <2>2. Number({x}, <<>>) = 0
    BY NumberFew
  <2> QED BY <1>3, <2>1, <2>2 DEF q, p, D
<1>4. CASE q # <<>>
  <2>1. p = Tail(q) /\ x = Head(q) /\ x \in D
    BY <1>2, <1>4
  <2>2. \A X : Number(X, p) \in Nat
          /\ Number(X, q) = (IF x \in X THEN 1 ELSE 0) + Number(X, p)
    BY <1>1, <1>4, <2>1, NumberTail
  <2>3. \A y : y # x => Number({y}, p) = Number({y}, q)
    <3> TAKE y
    <3> HAVE y # x
    <3> DEFINE z == Number({y}, p)
    <3>1. z \in Nat /\ Number({y}, q) = 0 + z
      BY <2>2
    <3> HIDE DEF z
    <3>2. 0 + z = z
      BY <3>1
    <3> QED BY <3>1, <3>2 DEF z
  <2>4. Number({x}, p) \in Nat /\ Number({x}, q) = 1 + Number({x}, p)
    BY <2>2
  <2> QED BY <2>1, <2>3, <2>4 DEF q, p, D
<1> QED BY <1>3, <1>4

\* A new connection is in no frame and not in the free list any more; it is open.
LEMMA CreateConn ==
  Shape /\ ConnLedger /\ StatOK /\ create_conn /\ UNCHANGED gen => SessSilent /\ ConnLedger'
<1> SUFFICES ASSUME Shape, ConnLedger, StatOK, create_conn, UNCHANGED gen
             PROVE  SessSilent /\ ConnLedger'
  OBVIOUS
<1> DEFINE s == Arg(1)  i == Arg(2)  k == New("conn")
           new == [ref |-> 1, state |-> "INITIAL", sess |-> s, ci |-> i,
                   sendq |-> <<>>, recvq |-> <<>>, mask |-> "out"]
           m == object_new(mem, "conn", new)
           ring == [m.sess[s].ci[i] EXCEPT !.conn = k, !.connected = FALSE,
                                           !.successful = FALSE, !.sent = 0]
           n == [m EXCEPT !.sess[s].ci[i] = ring]
           a == <<"core_connect", k>>  calls == <<a>>
<1>1. stack # <<>> /\ stack[1][1] = "create_conn" /\ stack' = calls \o Tail(stack) /\ mem' = n
      /\ UNCHANGED visit /\ stat' = [stat EXCEPT !.active = @ + 1]
  BY DEF create_conn, Top, Run, envVars
<1>2. s \in DOMAIN mem.sess /\ i \in 1..opt.conns
  BY <1>1, Args DEF SessCalls, RingCalls
<1>3. MemOK(mem, opt) /\ Sized(stack)
  BY DEF Shape, StackOK
<1>4. "conn" \in Types /\ Allocated(mem, m, "conn", k, new)
  BY <1>3, Allocates DEF Types
<1>5. new.ref = 1 /\ new.state = "INITIAL"
  OBVIOUS
<1> HIDE DEF m, k, new
<1>6. /\ m = [sess |-> m.sess, conn |-> m.conn, call |-> m.call, free |-> m.free]
      /\ m.sess = mem.sess /\ m.free["sess"] = mem.free["sess"]
      /\ DOMAIN m.conn = DOMAIN mem.conn \union {k} /\ m.conn[k] = new
      /\ \A y \in DOMAIN mem.conn \ {k} : m.conn[y] = mem.conn[y]
  BY <1>4 DEF Allocated, Types
<1> DEFINE o == m.sess[s]  r == [o EXCEPT !.ci[i] = ring]
<1> HIDE DEF ring
<1>7. r.ref = mem.sess[s].ref /\ r.num = mem.sess[s].num
  <2>1. SessOK(mem.sess[s], mem, opt)
    BY <1>2, <1>3 DEF MemOK
  <2> QED BY <1>6, <2>1, TableChanged
<1>8. n = [m EXCEPT !.sess[s] = r]
  OBVIOUS
<1> HIDE DEF r, n, o
<1>9. /\ n.conn = m.conn /\ n.free = m.free /\ DOMAIN n.sess = DOMAIN mem.sess
      /\ \A x \in DOMAIN mem.sess : n.sess[x].ref = mem.sess[x].ref /\ n.sess[x].num = mem.sess[x].num
  BY <1>6, <1>7, <1>8
<1>10. stat'.active = stat.active + 1 /\ stat'.completed = stat.completed /\ stat'.failed = stat.failed
  BY <1>1 DEF StatOK
<1>11. SessKept
  <2>1. gen.generated \in Nat
    BY DEF Shape, GenOK
  <2>2. gen.generated >= gen.generated
    BY <2>1
  <2> QED BY <1>1, <1>6, <1>9, <1>10, <2>1, <2>2 DEF SessKept, Phases
<1>12. AsideC(a) /\ AsideS(a) /\ a[1] = "core_connect" /\ a[2] = k
  BY DEF AsideC, AsideS
<1>13. Still(stack[1])
  BY <1>1, StillFrames DEF StillCalls
<1>14. stack' = Pushed(calls, stack)
  BY <1>1 DEF Pushed
<1>15. Sized(calls) /\ Len(calls) = 1 /\ calls[1] = a
  BY SizedFew
<1>16. CalmS(calls)
  BY <1>12, OnesFew
<1> HIDE DEF a, calls
<1>17. SessSilent
  <2>1. AsideS(stack[1])
    BY <1>13 DEF Still
  <2> QED BY <1>1, <1>11, <1>16, <2>1, StepSess
<1>18. \A X : (\A f \in X : ~AsideC(f)) => Number(X, stack') = Number(X, stack)
  <2> TAKE X
  <2> HAVE \A f \in X : ~AsideC(f)
  <2>1. stack[1] \notin X
    BY <1>13 DEF Still
  <2>2. \A j \in 1..Len(calls) : calls[j] \notin X
    BY <1>12, <1>15
  <2> QED BY <1>1, <1>3, <1>14, <1>15, <2>1, <2>2, NumberSilent
<1>19. \A j : /\ Number(Holding(j), stack') = Number(Holding(j), stack)
              /\ Number(Freeing("conn", j), stack') = Number(Freeing("conn", j), stack)
              /\ Number(Dying("conn", j), stack') = Number(Dying("conn", j), stack)
  BY <1>18, Marked
<1> DEFINE h == Number(Holding(k), stack)  f == Number(Freeing("conn", k), stack)
           d == Number(Dying("conn", k), stack)  p == Number({k}, m.free["conn"])
<1>20. /\ \A y : y # k => Number({y}, m.free["conn"]) = Number({y}, mem.free["conn"])
       /\ \/ k \notin DOMAIN mem.conn /\ p = 0
          \/ k \in DOMAIN mem.conn /\ p \in Nat /\ Number({k}, mem.free["conn"]) = 1 + p
  BY <1>3, <1>4, Taken
<1>21. h = 0 /\ f = 0 /\ d = 0 /\ p = 0 /\ (k \in DOMAIN mem.conn => mem.conn[k].state = "FREE")
  <2>1. CASE k \notin DOMAIN mem.conn
    BY <1>20, <2>1, ConnUnknown
  <2>2. CASE k \in DOMAIN mem.conn
    <3> DEFINE ref == mem.conn[k].ref  st == mem.conn[k].state  l == Number({k}, mem.free["conn"])
    <3>1. h \in Nat /\ f \in Nat /\ d \in Nat /\ l \in Nat /\ ref \in Nat /\ Balanced(ref, st, h, f, d, l)
      BY <2>2, ConnNumbers
    <3>2. p \in Nat /\ l = 1 + p
      BY <1>20, <2>2
    <3> HIDE DEF h, f, d, l, p, ref, st
    <3>3. h = 0 /\ f = 0 /\ d = 0 /\ p = 0 /\ st = "FREE"
      BY <3>1, <3>2 DEF Balanced, Open
    <3> QED BY <3>3 DEF st
  <2> QED BY <2>1, <2>2
<1>22. Balanced(mem'.conn[k].ref, mem'.conn[k].state, Number(Holding(k), stack'),
                Number(Freeing("conn", k), stack'), Number(Dying("conn", k), stack'),
                Number({k}, mem'.free["conn"]))
  <2>1. Balanced(1, "INITIAL", 0, 0, 0, 0)
    BY DEF Balanced, Open
  <2>2. mem'.conn[k].ref = 1 /\ mem'.conn[k].state = "INITIAL" /\ Number(Holding(k), stack') = 0
        /\ Number(Freeing("conn", k), stack') = 0 /\ Number(Dying("conn", k), stack') = 0
        /\ Number({k}, mem'.free["conn"]) = 0
    BY <1>1, <1>5, <1>6, <1>9, <1>19, <1>21
  <2> QED BY <2>1, <2>2
<1>23. Connecting'
  <2>1. stack'[1] = a
    <3>1. Pushed(calls, stack)[1] = calls[1]
      BY <1>1, <1>3, <1>15, PushedAt
    <3> QED BY <1>14, <1>15, <3>1
  <2>2. mem'.conn[k].state \in Open
    BY <1>1, <1>5, <1>6, <1>9 DEF Open
  <2> QED BY <1>12, <2>1, <2>2 DEF Connecting
<1>24. Active'
  <2>1. Existing' = Existing \union {k} /\ k \notin Existing
    BY <1>1, <1>5, <1>6, <1>9, <1>21 DEF Existing
  <2>2. IsFiniteSet(Existing)
    <3>1. Sized(mem.conn)
      BY <1>3 DEF MemOK
    <3>2. Len(mem.conn) \in Nat /\ DOMAIN mem.conn = 1..Len(mem.conn)
      BY <3>1, SizedLen
    <3>5. Len(mem.conn) \in Int /\ 1 \in Int
      BY <3>2
    <3>3. IsFiniteSet(1..Len(mem.conn))
      BY <3>5, FS_Interval
    <3>4. Existing \subseteq 1..Len(mem.conn)
      BY <3>2 DEF Existing
    <3> QED BY <3>3, <3>4, FS_Subset
  <2>3. Cardinality(Existing \union {k}) = Cardinality(Existing) + 1
    BY <2>1, <2>2, FS_AddElement
  <2>4. stat.active = Cardinality(Existing)
    BY DEF ConnLedger, Active
  <2> QED BY <1>10, <2>1, <2>3, <2>4 DEF Active
<1>25. ConnLedger'
  <2>1. k \in DOMAIN mem'.conn
    BY <1>1, <1>6, <1>9
  <2>2. \A j \in DOMAIN mem'.conn : j # k =>
           /\ j \in DOMAIN mem.conn
           /\ mem'.conn[j].ref = mem.conn[j].ref /\ mem'.conn[j].state = mem.conn[j].state
           /\ Number(Holding(j), stack') = Number(Holding(j), stack)
           /\ Number(Freeing("conn", j), stack') = Number(Freeing("conn", j), stack)
           /\ Number(Dying("conn", j), stack') = Number(Dying("conn", j), stack)
           /\ Number({j}, mem'.free["conn"]) = Number({j}, mem.free["conn"])
    BY <1>1, <1>6, <1>9, <1>19, <1>20
  <2> QED BY <1>22, <1>23, <1>24, <2>1, <2>2, ConnMoved
<1> QED BY <1>17, <1>25

-----------------------------------------------------------------------------
(* The events of connections: each is handled with a reference of its own. *)

\* The connections of m are those there are; k may be at another stage if it is open.
Stages(m, k) ==
  /\ DOMAIN m.conn = DOMAIN mem.conn
  /\ \A j \in DOMAIN mem.conn :
       /\ m.conn[j].ref = mem.conn[j].ref
       /\ \/ m.conn[j].state = mem.conn[j].state
          \/ j = k /\ m.conn[j].state \in Open /\ mem.conn[j].state \in Open

\* Frames that give up one reference to k and concern no connection otherwise
Referenced(all, k) ==
  /\ Ones(all, k) /\ CalmS(all)
  /\ Number(Holding(k), all) = 1 /\ Number(Freeing("conn", k), all) = 0
  /\ Number(Dying("conn", k), all) = 0

\* Only the last of a few frames matters.
LEMMA NumberLastOnly ==
  ASSUME NEW X
  PROVE  /\ \A a, d : a \notin X => Number(X, <<a, d>>) = (IF d \in X THEN 1 ELSE 0)
         /\ \A a, b, d : a \notin X /\ b \notin X
                         => Number(X, <<a, b, d>>) = (IF d \in X THEN 1 ELSE 0)
<1>1. ASSUME NEW a, NEW d, a \notin X PROVE Number(X, <<a, d>>) = (IF d \in X THEN 1 ELSE 0)
  <2>1. At(X, <<a, d>>) = IF d \in X THEN {2} ELSE {}
    BY <1>1 DEF At
  <2> QED BY <2>1, FS_Singleton, FS_EmptySet DEF Number
<1>2. ASSUME NEW a, NEW b, NEW d, a \notin X, b \notin X
      PROVE  Number(X, <<a, b, d>>) = (IF d \in X THEN 1 ELSE 0)
  <2>1. At(X, <<a, b, d>>) = IF d \in X THEN {3} ELSE {}
    BY <1>2 DEF At
  <2> QED BY <2>1, FS_Singleton, FS_EmptySet DEF Number
<1> QED BY <1>1, <1>2

\* Those of the handlers of events.
LEMMA EventNumbers ==
  ASSUME NEW k
  PROVE  LET d == DecRef("conn", k)
         IN  /\ Referenced(<<d>>, k)
             /\ \A a : Still(a) => Referenced(<<a, d>>, k)
             /\ \A a, b : Still(a) /\ Still(b) => Referenced(<<a, b, d>>, k)
<1> DEFINE d == DecRef("conn", k)
<1>1. /\ d \in Holding(k) /\ d \notin Freeing("conn", k) /\ d \notin Dying("conn", k)
      /\ Ours(d, k) /\ d[1] # "core_connect" /\ AsideS(d)
  BY ConnSets
<1> HIDE DEF d
<1>2. \A a : Still(a) => /\ a \notin Holding(k) /\ a \notin Freeing("conn", k) /\ a \notin Dying("conn", k)
                         /\ Ours(a, k) /\ a[1] # "core_connect" /\ AsideS(a)
  BY ConnSets DEF Still
<1>3. Referenced(<<d>>, k)
  BY ZenonT(60), <1>1, OnesFew, NumberFew DEF Referenced
<1>4. ASSUME NEW a, Still(a) PROVE Referenced(<<a, d>>, k)
  <2>1. Ones(<<a, d>>, k)
    BY <1>1, <1>2, <1>4, SizedFew DEF Ones
  <2>2. CalmS(<<a, d>>)
    BY <1>1, <1>2, <1>4, SizedFew DEF CalmS
  <2>3. Number(Holding(k), <<a, d>>) = 1 /\ Number(Freeing("conn", k), <<a, d>>) = 0
        /\ Number(Dying("conn", k), <<a, d>>) = 0
    <3> DEFINE q == <<a, d>>
    <3>1. \A X : a \notin X => Number(X, q) = IF d \in X THEN 1 ELSE 0
      BY NumberLastOnly
    <3> HIDE DEF q
    <3>2. a \notin Holding(k) /\ a \notin Freeing("conn", k) /\ a \notin Dying("conn", k)
      BY <1>2, <1>4
    <3>3. Number(Holding(k), q) = 1 /\ Number(Freeing("conn", k), q) = 0
          /\ Number(Dying("conn", k), q) = 0
      BY <1>1, <3>1, <3>2
    <3> QED BY <3>3 DEF q
  <2> QED BY <2>1, <2>2, <2>3 DEF Referenced
<1>5. ASSUME NEW a, NEW b, Still(a), Still(b) PROVE Referenced(<<a, b, d>>, k)
  <2>1. Ones(<<a, b, d>>, k)
    BY <1>1, <1>2, <1>5, SizedFew DEF Ones
  <2>2. CalmS(<<a, b, d>>)
    BY <1>1, <1>2, <1>5, SizedFew DEF CalmS
  <2>3. /\ Number(Holding(k), <<a, b, d>>) = 1
        /\ Number(Freeing("conn", k), <<a, b, d>>) = 0
        /\ Number(Dying("conn", k), <<a, b, d>>) = 0
    <3> DEFINE q == <<a, b, d>>
    <3>1. \A X : a \notin X /\ b \notin X => Number(X, q) = IF d \in X THEN 1 ELSE 0
      BY NumberLastOnly
    <3> HIDE DEF q
    <3>2. /\ a \notin Holding(k) /\ a \notin Freeing("conn", k) /\ a \notin Dying("conn", k)
          /\ b \notin Holding(k) /\ b \notin Freeing("conn", k) /\ b \notin Dying("conn", k)
      BY <1>2, <1>5
    <3>3. Number(Holding(k), q) = 1 /\ Number(Freeing("conn", k), q) = 0
          /\ Number(Dying("conn", k), q) = 0
      BY <1>1, <3>1, <3>2
    <3> QED BY <3>3 DEF q
  <2> QED BY <2>1, <2>2, <2>3 DEF Referenced
<1> QED BY <1>3, <1>4, <1>5 DEF d

\* The connection of the event has not been freed: it is open, and has one more reference
\* until the event has been handled.
LEMMA EventHandled ==
  ASSUME Shape, ConnLedger, batch # <<>>, NEW for, NEW m, NEW calls, Handle(for, m, calls),
         verdict' = "none", Stages(m, EventConn), MemOK(m, opt), m.sess = mem.sess, m.free = mem.free,
         Referenced(Append(calls, DecRef("conn", EventConn)), EventConn), UNCHANGED <<stat, visit, gen>>
  PROVE  SessSilent /\ ConnLedger'
<1> DEFINE k == EventConn  all == Append(calls, DecRef("conn", k))
           r == [m.conn[k] EXCEPT !.ref = @ + 1]  n == [m EXCEPT !.conn[k] = r]
<1>1. stack = <<>> /\ stack' = all /\ mem' = n /\ ~IsFree("conn", k) /\ verdict = "none"
  BY DEF Handle, Idle, EventConn, Check
<1>2. k \in DOMAIN mem.conn
  BY EventFrames
<1> HIDE DEF k
<1>3. k \in DOMAIN m.conn /\ m.conn[k] \in Conns(m, opt) /\ m.conn[k].ref = mem.conn[k].ref
      /\ \/ m.conn[k].state = mem.conn[k].state
         \/ m.conn[k].state \in Open /\ mem.conn[k].state \in Open
  BY <1>2 DEF Stages, MemOK, Conns
<1>4. r.ref = mem.conn[k].ref + 1 /\ r.state = m.conn[k].state
  <2> DEFINE c == m.conn[k]
  <2>1. c \in Conns(m, opt)
    BY <1>3
  <2>2. [c EXCEPT !.ref = @ + 1].ref = c.ref + 1 /\ [c EXCEPT !.ref = @ + 1].state = c.state
    <3> HIDE DEF c
    <3> QED BY <2>1 DEF Conns
  <2> QED BY <1>3, <2>2
<1> HIDE DEF r
<1>5. /\ DOMAIN n.conn = DOMAIN mem.conn /\ n.conn[k] = r
      /\ \A j \in DOMAIN mem.conn : j # k => n.conn[j] = m.conn[j]
      /\ n.sess = mem.sess /\ n.free = mem.free
  BY <1>2, <1>3 DEF MemOK, Stages
<1> HIDE DEF n
<1>6. \A X : Number(X, stack) = 0
  BY <1>1, NumberFew
<1>7. Referenced(all, k)
  BY DEF k
<1> HIDE DEF all
<1>8. Sized(all) /\ \A i \in 1..Len(all) :
        Ours(all[i], k) /\ all[i][1] # "core_connect" /\ AsideS(all[i])
  BY <1>7 DEF Referenced, Ones, CalmS
<1>9. SessSilent
  <2>1. SessKept
    BY <1>1, <1>5, NoSession
  <2>2. \A X : (\A f \in X : ~AsideS(f)) => Number(X, stack') = Number(X, stack)
    <3> TAKE X
    <3> HAVE \A f \in X : ~AsideS(f)
    <3>1. \A i \in 1..Len(all) : all[i] \notin X
      BY <1>8
    <3>2. Number(X, all) = 0
      BY <1>8, <3>1, NumberNone
    <3> QED BY <1>1, <1>6, <3>2
  <2> QED BY <2>1, <2>2 DEF SessSilent
<1>10. \A j : j # k => /\ Number(Holding(j), all) = 0 /\ Number(Freeing("conn", j), all) = 0
                       /\ Number(Dying("conn", j), all) = 0
  <2> TAKE j
  <2> HAVE j # k
  <2>1. \A i \in 1..Len(all) : /\ all[i] \notin Holding(j) /\ all[i] \notin Freeing("conn", j)
                               /\ all[i] \notin Dying("conn", j)
    BY <1>8, Others
  <2> QED BY <1>8, <2>1, NumberNone
<1>11. Number({k}, mem.free["conn"]) = 0
  <2>1. mem.free["conn"] \in Seq(DOMAIN mem.conn)
    BY DEF Shape, MemOK, Types
  <2>2. Sized(mem.free["conn"])
    BY <2>1, SizedIn
  <2>3. \A i \in 1..Len(mem.free["conn"]) : mem.free["conn"][i] \notin {k}
    <3>1. ~Contains(mem.free["conn"], k)
      BY <1>1 DEF IsFree
    <3> QED BY <3>1 DEF Contains
  <2> QED BY <2>2, <2>3, NumberNone
<1>12. mem.conn[k].state \in Open /\ mem.conn[k].ref = 1
  <2> DEFINE ref == mem.conn[k].ref  st == mem.conn[k].state
  <2>1. ref \in Nat /\ st \in ConnStates /\ Balanced(ref, st, 0, 0, 0, 0)
    <3>1. /\ mem.conn[k].ref \in Nat /\ mem.conn[k].state \in ConnStates
          /\ Balanced(mem.conn[k].ref, mem.conn[k].state, Number(Holding(k), stack),
                      Number(Freeing("conn", k), stack), Number(Dying("conn", k), stack),
                      Number({k}, mem.free["conn"]))
      BY <1>2, ConnNumbers
    <3> QED BY <1>6, <1>11, <3>1
  <2> HIDE DEF ref, st
  <2>2. st \in Open /\ ref = 1
    BY <2>1 DEF Balanced, ConnStates
  <2> QED BY <2>2 DEF ref, st
<1>13. r.ref = 2 /\ r.state \in Open
  BY <1>3, <1>4, <1>12
<1>14. Balanced(mem'.conn[k].ref, mem'.conn[k].state, Number(Holding(k), stack'),
                Number(Freeing("conn", k), stack'), Number(Dying("conn", k), stack'),
                Number({k}, mem'.free["conn"]))
  <2> DEFINE st == r.state
  <2>1. st \in Open
    BY <1>13
  <2> HIDE DEF st
  <2>2. Balanced(2, st, 1, 0, 0, 0)
    BY <2>1 DEF Balanced, Open
  <2>3. mem'.conn[k].ref = 2 /\ mem'.conn[k].state = st /\ Number({k}, mem'.free["conn"]) = 0
    BY <1>1, <1>5, <1>11, <1>13 DEF st
  <2>4. Number(Holding(k), stack') = 1 /\ Number(Freeing("conn", k), stack') = 0
        /\ Number(Dying("conn", k), stack') = 0
    BY <1>1, <1>7 DEF Referenced
  <2> QED BY <2>2, <2>3, <2>4
<1>15. Connecting'
  <2>1. stack' # <<>> => Len(all) \in Nat /\ Len(all) # 0
    BY <1>1, <1>8, SizedLen
  <2>2. stack' # <<>> => stack'[1][1] # "core_connect"
    BY <1>1, <1>8, <2>1
  <2> QED BY <2>2 DEF Connecting
<1>16. \A j \in DOMAIN mem.conn : j # k =>
         mem'.conn[j].ref = mem.conn[j].ref /\ mem'.conn[j].state = mem.conn[j].state
  <2>1. \A j \in DOMAIN mem.conn : j # k =>
          m.conn[j].ref = mem.conn[j].ref /\ m.conn[j].state = mem.conn[j].state
    BY DEF Stages, k
  <2> QED BY <1>1, <1>5, <2>1
<1>17. Active'
  <2>1. \A j \in DOMAIN mem.conn : mem'.conn[j].state = "FREE" <=> mem.conn[j].state = "FREE"
    BY <1>1, <1>5, <1>12, <1>13, <1>16 DEF Open
  <2>2. DOMAIN mem'.conn = DOMAIN mem.conn
    BY <1>1, <1>5
  <2> QED BY <2>1, <2>2, ActiveSame DEF ConnLedger
<1>18. ConnLedger'
  <2>1. k \in DOMAIN mem'.conn
    BY <1>1, <1>2, <1>5
  <2>2. \A j \in DOMAIN mem'.conn : j # k =>
           /\ j \in DOMAIN mem.conn
           /\ mem'.conn[j].ref = mem.conn[j].ref /\ mem'.conn[j].state = mem.conn[j].state
           /\ Number(Holding(j), stack') = Number(Holding(j), stack)
           /\ Number(Freeing("conn", j), stack') = Number(Freeing("conn", j), stack)
           /\ Number(Dying("conn", j), stack') = Number(Dying("conn", j), stack)
           /\ Number({j}, mem'.free["conn"]) = Number({j}, mem.free["conn"])
    BY <1>1, <1>5, <1>6, <1>10, <1>16
  <2> QED BY <1>14, <1>15, <1>17, <2>1, <2>2, ConnMoved
<1> QED BY <1>9, <1>18

\* The handlers of events.
LEMMA EventsSilent ==
  Shape /\ ConnLedger /\ verdict' = "none"
    /\ (ConnectionEstablished \/ do_send \/ do_send_part \/ ReplyArrives \/ IoFails \/ EventIgnored)
  => SessSilent /\ ConnLedger'
<1> SUFFICES ASSUME Shape, ConnLedger, verdict' = "none",
                    ConnectionEstablished \/ do_send \/ do_send_part \/ ReplyArrives \/ IoFails
                      \/ EventIgnored
             PROVE  SessSilent /\ ConnLedger'
  OBVIOUS
<1> DEFINE k == EventConn  d == DecRef("conn", k)
<1>1. batch # <<>> /\ UNCHANGED <<stat, visit, gen>>
  BY DEF ConnectionEstablished, do_send, do_send_part, ReplyArrives, IoFails, EventIgnored
<1>2. k \in DOMAIN mem.conn /\ MemOK(mem, opt) /\ mem.conn[k] \in Conns(mem, opt)
      /\ EventObj.sendq \in Seq(DOMAIN mem.call)
  <2>1. k \in DOMAIN mem.conn /\ MemOK(mem, opt)
    BY <1>1, EventFrames DEF Shape
  <2>2. mem.conn[k] \in Conns(mem, opt) /\ EventObj.sendq \in Seq(DOMAIN mem.call)
    BY <2>1, Pointers DEF MemOK, EventObj
  <2> QED BY <2>1, <2>2
<1>3. Stages(mem, k)
  BY DEF Stages
<1>4. /\ Referenced(Append(<<>>, d), k)
      /\ \A a : Still(a) => Referenced(Append(<<a>>, d), k)
      /\ \A a, b : Still(a) /\ Still(b) => Referenced(Append(<<a, b>>, d), k)
  <2> HIDE DEF k
  <2>1. /\ Referenced(<<d>>, k)
        /\ \A a : Still(a) => Referenced(<<a, d>>, k)
        /\ \A a, b : Still(a) /\ Still(b) => Referenced(<<a, b, d>>, k)
    BY EventNumbers
  <2> HIDE DEF d
  <2>2. /\ Append(<<>>, d) = <<d>>
        /\ \A a : Append(<<a>>, d) = <<a, d>>
        /\ \A a, b : Append(<<a, b>>, d) = <<a, b, d>>
    BY AppendFew
  <2> QED BY <2>1, <2>2
<1>5. CASE ConnectionEstablished
  <2> DEFINE conn == mem.conn[k]  r == [conn EXCEPT !.state = "CONNECTED", !.mask = "in"]
             m == [mem EXCEPT !.conn[k] = r]  a == <<"conn_connected", k>>  calls == <<a>>
  <2>1. Handle("out", [mem EXCEPT !.conn[k].state = "CONNECTED", !.conn[k].mask = "in"], calls)
        /\ conn.state = "CONNECTING"
    BY <1>5 DEF ConnectionEstablished, EventObj
  <2>2. Still(a)
    BY StillFrames DEF StillCalls
  <2>3. Referenced(Append(calls, d), k)
    <3> HIDE DEF a, d
    <3> QED BY <1>4, <2>2
  <2>4. Referenced(Append(calls, DecRef("conn", EventConn)), EventConn)
    BY <2>3
  <2> HIDE DEF calls, k
  <2>5. [mem EXCEPT !.conn[k].state = "CONNECTED", !.conn[k].mask = "in"] = m
    BY <1>2 DEF MemOK
  <2>6. r \in Conns(mem, opt) /\ r.ref = conn.ref /\ r.state = "CONNECTED"
    BY <1>2 DEF Conns, ConnStates, Open
  <2> HIDE DEF r
  <2>7. MemOK(m, opt)
    BY <1>2, <2>6, PutOK
  <2>8. /\ DOMAIN m.conn = DOMAIN mem.conn /\ m.conn[k] = r
        /\ \A j \in DOMAIN mem.conn : j # k => m.conn[j] = mem.conn[j]
        /\ m.sess = mem.sess /\ m.free = mem.free
    BY <1>2, ConnPut
  <2>9. Handle("out", m, calls)
    BY <2>1, <2>5
  <2> HIDE DEF m
  <2>10. Stages(m, k)
    BY <2>1, <2>6, <2>8 DEF Stages, Open
  <2>11. Stages(m, EventConn)
    BY <2>10 DEF k
  <2> QED BY <1>1, <2>4, <2>7, <2>8, <2>9, <2>11, EventHandled
<1>6. CASE do_send
  <2> DEFINE n == Len(EventObj.sendq)  m == Written(n)  calls == <<>>
  <2>1. Handle("out", m, calls)
    BY <1>6 DEF do_send
  <2>2. Referenced(Append(calls, DecRef("conn", EventConn)), EventConn)
    BY <1>4
  <2>3. n \in 0..Len(EventObj.sendq)
    BY <1>2, LenProperties
  <2>4. /\ MemOK(m, opt) /\ m.sess = mem.sess /\ m.free = mem.free /\ DOMAIN m.conn = DOMAIN mem.conn
        /\ \A j \in DOMAIN mem.conn : m.conn[j].state = mem.conn[j].state
                                      /\ m.conn[j].ref = mem.conn[j].ref
    BY <1>2, <2>3, WrittenOK
  <2> HIDE DEF m, calls
  <2>5. Stages(m, EventConn)
    BY <2>4 DEF Stages
  <2> QED BY <1>1, <2>1, <2>2, <2>4, <2>5, EventHandled
<1>7. CASE do_send_part
  <2> DEFINE calls == <<>>
  <2>1. PICK n \in 1..Len(EventObj.sendq) :
           Handle("out", [Written(n - 1) EXCEPT !.call[EventObj.sendq[n]].cut = TRUE], calls)
    BY <1>7 DEF do_send_part
  <2> DEFINE w == Written(n - 1)  c == EventObj.sendq[n]  o == w.call[c]
             r == [o EXCEPT !.cut = TRUE]  m == [w EXCEPT !.call[c] = r]
  <2>2. Handle("out", m, calls)
    BY <2>1
  <2>3. Referenced(Append(calls, DecRef("conn", EventConn)), EventConn)
    BY <1>4
  <2>4. Len(EventObj.sendq) \in Nat /\ c \in DOMAIN mem.call
    BY <1>2, LenProperties, ElementOfSeq
  <2>5. n - 1 \in 0..Len(EventObj.sendq)
    BY <2>4
  <2>6. /\ MemOK(w, opt) /\ w.sess = mem.sess /\ w.free = mem.free /\ DOMAIN w.conn = DOMAIN mem.conn
        /\ DOMAIN w.call = DOMAIN mem.call
        /\ \A j \in DOMAIN mem.conn : w.conn[j].state = mem.conn[j].state
                                      /\ w.conn[j].ref = mem.conn[j].ref
    BY <1>2, <2>5, WrittenOK
  <2> HIDE DEF w, c
  <2>7. o \in CallRecs(w)
    BY <2>4, <2>6 DEF MemOK
  <2>8. r \in CallRecs(w)
    BY <2>7 DEF CallRecs
  <2> HIDE DEF o, r
  <2>9. MemOK(m, opt)
    BY <2>4, <2>6, <2>8, PutOK
  <2>10. m.conn = w.conn /\ m.sess = w.sess /\ m.free = w.free
    BY <2>6 DEF MemOK
  <2> HIDE DEF m, calls
  <2>11. Stages(m, EventConn)
    BY <2>6, <2>10 DEF Stages
  <2> QED BY <1>1, <2>2, <2>3, <2>6, <2>9, <2>10, <2>11, EventHandled
<1>8. CASE ReplyArrives
  <2>1. PICK n \in 1..opt.read : Handle("in", mem, <<<<"do_recv", k, n, "link">>>>)
    BY <1>8 DEF ReplyArrives
  <2> DEFINE a == <<"do_recv", k, n, "link">>  calls == <<a>>
  <2>2. Handle("in", mem, calls)
    BY <2>1
  <2>3. Still(a)
    BY StillFrames DEF StillCalls
  <2>4. Referenced(Append(calls, d), k)
    <3> HIDE DEF a, d
    <3> QED BY <1>4, <2>3
  <2> HIDE DEF calls
  <2> QED BY <1>1, <1>2, <1>3, <2>2, <2>4, EventHandled
<1>9. CASE IoFails
  <2> DEFINE a == <<"conn_failed", k>>  b == <<"core_close", k>>  calls == <<a, b>>
  <2>1. PICK for \in {"in", "out"} : Handle(for, mem, calls)
    BY <1>9 DEF IoFails
  <2>2. Still(a) /\ Still(b)
    BY StillFrames DEF StillCalls
  <2>3. Referenced(Append(calls, d), k)
    <3> HIDE DEF a, b, d
    <3> QED BY <1>4, <2>2
  <2> HIDE DEF calls
  <2> QED BY <1>1, <1>2, <1>3, <2>1, <2>3, EventHandled
<1>10. CASE EventIgnored
  <2> DEFINE calls == <<>>
  <2>1. Handle(Head(batch).for, mem, calls)
    BY <1>10 DEF EventIgnored
  <2>2. Referenced(Append(calls, d), k)
    BY <1>4
  <2> HIDE DEF calls
  <2> QED BY <1>1, <1>2, <1>3, <2>1, <2>2, EventHandled
<1> QED BY <1>5, <1>6, <1>7, <1>8, <1>9, <1>10

-----------------------------------------------------------------------------
(* The ledger is kept. *)

Ledger == SessLedger /\ ConnLedger /\ StatOK

\* A step that is silent keeps both ledgers.
LEMMA SilentLedger == Shape /\ SessLedger /\ ConnLedger /\ Silent => SessLedger' /\ ConnLedger'
  BY SilentSess, SilentConn DEF Silent

\* The session manager keeps them,
LEMMA ManagerLedger ==
  Shape /\ Ledger /\ verdict' = "none" /\ ManagerStep /\ UNCHANGED gen => SessLedger' /\ ConnLedger'
<1> SUFFICES ASSUME Shape, SessLedger, ConnLedger, StatOK, verdict' = "none", ManagerStep, UNCHANGED gen
             PROVE  SessLedger' /\ ConnLedger'
  BY DEF Ledger
<1>1. CASE sess_destroyed \/ close_conn_of \/ drop_ring \/ conn_failed \/ conn_timeout \/ ConnectRefused
  BY <1>1, CallersSilent, SilentLedger
<1>2. CASE sess_failure
  BY <1>2, SessFailureSilent, SilentLedger
<1>3. CASE DestroySess
  BY <1>3, SessDestroyed, SilentConn
<1>4. CASE session_issue_call
  BY <1>4, IssueCallSilent, SilentLedger
<1>5. CASE send_calls
  BY <1>5, SendCallsSilent, SilentLedger
<1>6. CASE create_conn
  BY <1>6, CreateConn, SilentSess
<1>7. CASE ConnectInProgress \/ ConnectAtOnce
  BY <1>7, ConnectSilent, SilentLedger
<1>8. CASE conn_connected
  BY <1>8, ConnectedSilent, SilentLedger
<1>9. CASE core_close
  BY <1>9, CoreClose, SilentSess
<1>10. CASE close_recvq
  BY <1>10, CloseRecvq, SilentSess
<1>11. CASE close_sd
  BY <1>11, CloseSd, SilentSess
<1>12. CASE DestroyConn
  BY <1>12, ConnDestroyed, SilentSess
<1>13. CASE recv_done
  BY <1>13, RecvDoneSilent, SilentLedger
<1>14. CASE call_done
  BY <1>14, CallDoneSilent, SilentLedger
<1>15. CASE forget_conn
  BY <1>15, ForgetConnSilent, SilentLedger
<1>16. CASE DestroyCall
  BY <1>16, DestroyCallSilent, SilentLedger
<1>17. CASE (object_dec_ref \/ free) /\ UNCHANGED <<envVars, stat, visit>>
  <2>1. stack # <<>> /\ stack[1][1] \in ObjectCalls
    BY <1>17 DEF object_dec_ref, free, Top, ObjectCalls
  <2>2. Arg(1) \in {"sess", "conn", "call"}
    BY <2>1, Args DEF Types
  <2>3. UNCHANGED <<stat, visit, gen>>
    BY <1>17
  <2>4. CASE Arg(1) = "sess"
    BY <1>17, <2>3, <2>4, SessDecRef, SessFree, SilentConn
  <2>5. CASE Arg(1) = "conn"
    BY <1>17, <2>3, <2>5, ConnDecRef, ConnFree, SilentSess
  <2>6. CASE Arg(1) = "call"
    BY <1>17, <2>3, <2>6, CallRefsSilent, SilentLedger
  <2> QED BY <2>2, <2>4, <2>5, <2>6
<1> QED BY <1>1, <1>2, <1>3, <1>4, <1>5, <1>6, <1>7, <1>8, <1>9, <1>10, <1>11, <1>12, <1>13,
           <1>14, <1>15, <1>16, <1>17 DEF ManagerStep

\* the counters remain what they are,
LEMMA StatStep == StatOK /\ [Next]_vars => StatOK'
<1> SUFFICES ASSUME StatOK, [Next]_vars PROVE DOMAIN stat' = DOMAIN stat
  BY DEF StatOK
<1>1. CASE DestroySess \/ create_conn \/ DestroyConn
  BY <1>1 DEF DestroySess, create_conn, DestroyConn
<1>2. CASE sess_destroyed \/ close_conn_of \/ drop_ring \/ conn_failed \/ conn_timeout \/ ConnectRefused
           \/ sess_failure \/ session_issue_call \/ send_calls \/ ConnectInProgress \/ ConnectAtOnce
           \/ conn_connected \/ core_close \/ close_recvq \/ close_sd \/ recv_done \/ call_done
           \/ forget_conn \/ DestroyCall
           \/ ((object_dec_ref \/ free) /\ UNCHANGED <<envVars, stat, visit>>)
  BY <1>2 DEF sess_destroyed, close_conn_of, drop_ring, conn_failed, conn_timeout, ConnectRefused,
     sess_failure, session_issue_call, send_calls, ConnectInProgress, ConnectAtOnce, conn_connected,
     core_close, close_recvq, close_sd, recv_done, call_done, forget_conn, DestroyCall
<1>3. CASE sess_create \/ not_done \/ done \/ IssueBurst \/ IssuePage \/ CallsCreated \/ CreateInBurst
           \/ CreateEmbedded \/ fetch_uri \/ call_destroyed \/ gen_sess_destroyed \/ do_recv
  BY <1>3 DEF sess_create, not_done, done, IssueBurst, IssuePage, CallsCreated, CreateInBurst,
     CreateEmbedded, fetch_uri, call_destroyed, gen_sess_destroyed, do_recv
<1>4. CASE Loop
  BY <1>4 DEF Loop, RateTick, user_think_time_expired, WatchdogExpired, epoll_wait,
     ConnectionEstablished, do_send, do_send_part, ReplyArrives, IoFails, EventIgnored
<1>5. CASE UNCHANGED vars
  BY <1>5 DEF vars
<1>6. CASE ManagerStep
  BY <1>1, <1>2, <1>6 DEF ManagerStep
<1> QED BY <1>3, <1>4, <1>5, <1>6 DEF Next, Calls, Finished

\* and so does every step that fails no assertion.
LEMMA StepLedger == Shape /\ Ledger /\ [Next]_vars /\ verdict' = "none" => Ledger'
<1> SUFFICES ASSUME Shape, Ledger, [Next]_vars, verdict' = "none" PROVE SessLedger' /\ ConnLedger'
  BY StatStep DEF Ledger
<1> USE DEF Ledger
<1>1. CASE ManagerStep /\ UNCHANGED gen
  BY <1>1, ManagerLedger
<1>2. CASE sess_create
  BY <1>2, SessCreated, SilentConn
<1>3. CASE not_done \/ done \/ IssuePage \/ CallsCreated
  BY <1>3, CreatorsSilent, SilentLedger
<1>4. CASE IssueBurst \/ fetch_uri
  BY <1>4, BurstSilent, SilentLedger
<1>5. CASE CreateInBurst \/ CreateEmbedded
  BY <1>5, CreateSilent, SilentLedger
<1>6. CASE call_destroyed
  BY <1>6, CallDestroyedSilent, SilentLedger
<1>7. CASE gen_sess_destroyed
  BY <1>7, GenCounts, SilentConn
<1>8. CASE do_recv
  BY <1>8, DoRecvSilent, SilentLedger
<1>9. CASE RateTick \/ user_think_time_expired \/ WatchdogExpired \/ epoll_wait
  BY <1>9, LoopSilent, SilentLedger
<1>10. CASE ConnectionEstablished \/ do_send \/ do_send_part \/ ReplyArrives \/ IoFails \/ EventIgnored
  BY <1>10, EventsSilent, SilentSess
<1>11. CASE UNCHANGED vars
  <2>1. UNCHANGED <<stack, mem, stat, visit, gen>>
    BY <1>11 DEF vars
  <2>2. SessLedger'
    BY <2>1 DEF SessLedger, SessOnce, SessOpen, SessApart, NewLater, Tallied, Counted, Running, Live, Visited
  <2>3. ConnLedger'
    BY <2>1 DEF ConnLedger, ConnRefs, ConnFreed, ConnDies, FreeUnheld, Connecting, Active, Existing
  <2> QED BY <2>2, <2>3
<1> QED BY <1>1, <1>2, <1>3, <1>4, <1>5, <1>6, <1>7, <1>8, <1>9, <1>10, <1>11
        DEF Next, Calls, Loop, Finished

-----------------------------------------------------------------------------
(* What the ledger says between two events *)

\* At first there is nothing.
LEMMA InitLedger == Init => Ledger
<1> SUFFICES ASSUME Init PROVE Ledger
  OBVIOUS
<1> DEFINE a == <<"sess_create">>  calls == <<a>>
<1>1. /\ mem.sess = <<>> /\ mem.conn = <<>> /\ stack = calls /\ stat = StatInit
      /\ visit = [k \in 1..NumSessions |->
                    [phase |-> "new", issued |-> 0, answered |-> 0, replies |-> 0]]
      /\ gen.generated = 0 /\ gen.destroyed = 0 /\ gen.running = TRUE
  BY DEF Init, ManagerInit, ObjectsInit
<1>2. DOMAIN mem.sess = {} /\ DOMAIN mem.conn = {}
  <2>1. DOMAIN <<>> = {}
    OBVIOUS
  <2> QED BY <1>1, <2>1
<1>3. stat.active = 0 /\ stat.completed = 0 /\ stat.failed = 0 /\ StatOK
  BY <1>1 DEF StatInit, StatOK
<1>4. \A n \in 1..NumSessions : visit[n].phase = "new"
  BY <1>1
<1>5. SessOnce /\ SessOpen /\ SessApart /\ NewLater
  BY <1>2, <1>4 DEF SessOnce, SessOpen, SessApart, NewLater
<1>6. Tallied
  <2>1. Visited("completed") = {} /\ Visited("failed") = {}
    BY <1>4 DEF Visited
  <2> QED BY <1>3, <2>1, FS_EmptySet DEF Tallied
<1>7. Counted
  <2>1. a \notin Counting
    BY DEF Counting
  <2> HIDE DEF a
  <2>2. Number(Counting, calls) = 0
    BY <2>1, NumberFew
  <2> QED BY <1>1, <1>3, <2>2 DEF Counted
<1>8. Running
  BY <1>1, SessionsAssumption DEF Running
<1>9. ConnRefs /\ ConnFreed /\ ConnDies /\ FreeUnheld
  BY <1>2 DEF ConnRefs, ConnFreed, ConnDies, FreeUnheld
<1>10. Connecting
  <2>1. stack[1][1] = "sess_create"
    BY <1>1
  <2> QED BY <2>1 DEF Connecting
<1>11. Active
  <2>1. Existing = {}
    BY <1>2 DEF Existing
  <2> QED BY <1>3, <2>1, FS_EmptySet DEF Active
<1> QED BY <1>3, <1>5, <1>6, <1>7, <1>8, <1>9, <1>10, <1>11 DEF Ledger, SessLedger, ConnLedger

\* The free list of a type holds the cells that are free, each once if none is there twice.
LEMMA FreeList ==
  ASSUME Shape, NEW t \in Types
  PROVE  /\ \A x : IsFree(t, x) <=> Number({x}, mem.free[t]) > 0
         /\ \A x : Number({x}, mem.free[t]) \in Nat
         /\ (\A x \in DOMAIN mem[t] : Number({x}, mem.free[t]) <= 1) => IsInjective(mem.free[t])
<1> DEFINE q == mem.free[t]  D == DOMAIN mem[t]
<1>1. q \in Seq(D)
  BY DEF Shape, MemOK
<1> HIDE DEF q, D
<1>2. Sized(q)
  BY <1>1, SizedIn
<1>3. \A x : Contains(q, x) <=> Number({x}, q) > 0
  BY <1>2, NumberSome DEF Contains
<1>4. \A x : Number({x}, q) \in Nat
  BY <1>2, NumberType
<1>5. ASSUME \A x \in D : Number({x}, q) <= 1 PROVE IsInjective(q)
  <2>1. ASSUME NEW x PROVE Number({x}, q) <= 1
    <3>1. CASE x \in D
      BY <1>5, <3>1
    <3>2. CASE x \notin D
      <4>1. \A i \in 1..Len(q) : q[i] \notin {x}
        BY <1>1, <3>2, ElementOfSeq
      <4>2. Number({x}, q) = 0
        BY <1>2, <4>1, NumberNone
      <4> QED BY <4>2
    <3> QED BY <3>1, <3>2
  <2> QED BY <1>2, <2>1, NumberOnce
<1> QED BY <1>3, <1>4, <1>5 DEF q, D, IsFree

\* With no call to be made a session has been freed once, or has its reference,
LEMMA SessLone ==
  ASSUME Shape, SessLedger, stack = <<>>, NEW s \in DOMAIN mem.sess
  PROVE  Number({s}, mem.free["sess"]) <= 1 /\ (s \in Used("sess") => mem.sess[s].ref = 1)
<1>1. Number(Ending(s), stack) = 0
  BY NumberFew
<1> DEFINE r == mem.sess[s].ref  e == Number(Ending(s), stack)  f == Number({s}, mem.free["sess"])
<1>2. r \in Nat /\ f \in Nat /\ e = 0 /\ r + e + f = 1
  BY <1>1, SessNumbers
<1>3. s \in Used("sess") => ~(f > 0)
  BY FreeList DEF Used, Types
<1> HIDE DEF r, e, f
<1>4. f <= 1 /\ (s \in Used("sess") => r = 1)
  BY <1>2, <1>3
<1> QED BY <1>4 DEF r, f

\* and a connection has been freed once, or has its reference and is open.
LEMMA ConnLone ==
  ASSUME Shape, ConnLedger, stack = <<>>, NEW k \in DOMAIN mem.conn
  PROVE  /\ Number({k}, mem.free["conn"]) <= 1
         /\ k \in Used("conn") => mem.conn[k].ref = 1
         /\ k \in Used("conn") <=> mem.conn[k].state \in Open
         /\ k \in Used("conn") <=> mem.conn[k].state # "FREE"
<1>1. Number(Holding(k), stack) = 0 /\ Number(Freeing("conn", k), stack) = 0
      /\ Number(Dying("conn", k), stack) = 0
  BY NumberFew
<1> DEFINE r == mem.conn[k].ref  st == mem.conn[k].state  f == Number({k}, mem.free["conn"])
<1>2. r \in Nat /\ st \in ConnStates /\ f \in Nat /\ Balanced(r, st, 0, 0, 0, f)
  BY <1>1, ConnNumbers
<1>3. k \in Used("conn") <=> ~(f > 0)
  BY FreeList DEF Used, Types
<1> HIDE DEF r, st, f
<1>4. /\ f <= 1 /\ (k \in Used("conn") => r = 1)
      /\ k \in Used("conn") <=> st \in Open
      /\ k \in Used("conn") <=> st # "FREE"
  BY <1>2, <1>3 DEF Balanced, ConnStates, Open
<1> QED BY <1>4 DEF r, st, f

\* So all are held once.
LEMMA LedgerHeldOnce == Shape /\ Ledger => OneReference
<1> SUFFICES ASSUME Shape, SessLedger, ConnLedger, stack = <<>> PROVE OneReference
  BY DEF Ledger, OneReference, Idle
<1>1. \A x \in Used("sess") : mem.sess[x].ref = 1
  BY SessLone DEF Used
<1>2. \A x \in Used("conn") : mem.conn[x].ref = 1
  BY ConnLone DEF Used
<1>3. IsInjective(mem.free["sess"])
  BY SessLone, FreeList DEF Types
<1>4. IsInjective(mem.free["conn"])
  BY ConnLone, FreeList DEF Types
<1>5. \A k \in DOMAIN mem.conn : mem.conn[k].state \in Open <=> k \in Used("conn")
  BY ConnLone
<1>6. \A t \in {"sess", "conn"} :
        (\A x \in Used(t) : mem[t][x].ref = 1) /\ IsInjective(mem.free[t])
  BY <1>1, <1>2, <1>3, <1>4
<1> QED BY <1>5, <1>6 DEF OneReference

\* The counters agree,
LEMMA LedgerCounters == Shape /\ Ledger => CountersAgree
<1> SUFFICES ASSUME Shape, SessLedger, ConnLedger, stack = <<>> PROVE CountersAgree
  BY DEF Ledger, CountersAgree, Idle
<1>1. Used("conn") = Existing
  BY ConnLone DEF Used, Existing
<1> QED BY <1>1 DEF CountersAgree, SessLedger, Tallied, ConnLedger, Active

\* Every session is over.
AllOver == Visited("completed") \union Visited("failed") = 1..NumSessions

\* and the generators leave the loop when all is over.
LEMMA LedgerExits ==
  Shape /\ Ledger => (~gen.running => AllOver) /\ (stack = <<>> /\ gen.running => ~AllOver)
<1> SUFFICES ASSUME Shape, SessLedger
             PROVE  (~gen.running => AllOver) /\ (stack = <<>> /\ gen.running => ~AllOver)
  BY DEF Ledger
<1> DEFINE C == Visited("completed")  F == Visited("failed")  N == 1..NumSessions
           c == Cardinality(C)  f == Cardinality(F)  u == Cardinality(C \union F)
           m == Number(Counting, stack)  d == gen.destroyed
<1>1. NumSessions \in Nat /\ NumSessions > 0 /\ 1 \in Int /\ NumSessions \in Int
  BY SessionsAssumption
<1>2. IsFiniteSet(N) /\ Cardinality(N) = NumSessions
  BY <1>1, FS_Interval
<1>3. C \subseteq N /\ F \subseteq N /\ C \cap F = {}
  BY DEF Visited
<1>4. d \in Nat /\ m \in Nat /\ d + m = c + f /\ (gen.running <=> d < NumSessions)
  <2>1. d \in Nat /\ m \in Nat
    BY NumberType DEF Shape, GenOK, StackOK
  <2>2. d + m = stat.completed + stat.failed /\ stat.completed = c /\ stat.failed = f
    BY DEF SessLedger, Tallied, Counted
  <2> QED BY <2>1, <2>2 DEF SessLedger, Running
<1> HIDE DEF C, F, N
<1>5. IsFiniteSet(C) /\ IsFiniteSet(F) /\ c \in Nat /\ f \in Nat
  BY <1>2, <1>3, FS_Subset, FS_CardinalityType
<1>6. u = c + f - Cardinality(C \cap F) /\ Cardinality(C \cap F) = 0
  BY <1>3, <1>5, FS_Union, FS_EmptySet
<1>7. C \union F \subseteq N
  BY <1>3
<1>8. u <= NumSessions /\ (u = NumSessions => N = C \union F)
  BY <1>2, <1>7, FS_Subset
<1>9. C \union F = N => u = NumSessions
  BY <1>2
<1>10. u = c + f
  <2> HIDE DEF u, c, f
  <2> QED BY <1>5, <1>6
<1>11. ~gen.running => C \union F = N
  <2> HIDE DEF u, c, f, d, m
  <2> QED BY <1>1, <1>4, <1>5, <1>8, <1>10
<1>12. stack = <<>> /\ gen.running => C \union F # N
  <2>1. stack = <<>> => m = 0
    BY NumberFew
  <2> HIDE DEF u, c, f, d, m
  <2> QED BY <1>1, <1>4, <1>5, <1>9, <1>10, <2>1
<1> QED BY <1>11, <1>12 DEF AllOver, C, F, N

\* There are finitely many connections that exist.
LEMMA ExistingFew == Shape => IsFiniteSet(Existing)
<1> SUFFICES ASSUME Shape PROVE IsFiniteSet(Existing)
  OBVIOUS
<1>1. Sized(mem.conn)
  BY DEF Shape, MemOK
<1>2. Len(mem.conn) \in Nat /\ DOMAIN mem.conn = 1..Len(mem.conn)
  BY <1>1, SizedLen
<1>3. Len(mem.conn) \in Int /\ 1 \in Int
  BY <1>2
<1>4. IsFiniteSet(1..Len(mem.conn))
  BY <1>3, FS_Interval
<1>5. Existing \subseteq 1..Len(mem.conn)
  BY <1>2 DEF Existing
<1> QED BY <1>4, <1>5, FS_Subset

\* A frame on top of the stack is in it.
LEMMA TopNumber ==
  ASSUME Shape, stack # <<>>, NEW X, stack[1] \in X
  PROVE  Number(X, stack) > 0
<1>1. Sized(stack)
  BY DEF Shape, StackOK
<1>2. Len(stack) \in Nat /\ Len(stack) # 0
  BY <1>1, SizedLen
<1>3. 1 \in 1..Len(stack)
  BY <1>2
<1> QED BY <1>1, <1>3, NumberSome

\* A connection that is referenced or being destroyed is not in the free list, and
\* it is counted as active.
LEMMA LedgerChecks == Shape /\ Ledger => ConnChecksPass
<1> SUFFICES ASSUME Shape, ConnLedger PROVE ConnChecksPass
  BY DEF Ledger
<1> DEFINE k == Arg(2)  ref == mem.conn[k].ref  st == mem.conn[k].state
           h == Number(Holding(k), stack)  f == Number(Freeing("conn", k), stack)
           d == Number(Dying("conn", k), stack)  l == Number({k}, mem.free["conn"])
<1>1. ASSUME k \in DOMAIN mem.conn
      PROVE  /\ h \in Nat /\ f \in Nat /\ d \in Nat /\ l \in Nat /\ ref \in Nat
             /\ Balanced(ref, st, h, f, d, l) /\ st \in ConnStates
  BY <1>1, ConnNumbers
<1>2. ~IsFree("conn", k) <=> ~(l > 0)
  BY FreeList DEF Types
<1>3. ASSUME Top("object_dec_ref"), Arg(1) = "conn" PROVE ref > 0 /\ ~IsFree("conn", k)
  <2>1. k \in DOMAIN mem.conn /\ stack # <<>> /\ stack[1] = <<"object_dec_ref", "conn", k>>
    BY <1>3, Args DEF ObjectCalls, Top
  <2>2. stack[1] \in Holding(k)
    BY <2>1 DEF Holding, DecRef
  <2> HIDE DEF k
  <2>3. h > 0
    BY <2>1, <2>2, TopNumber
  <2>4. /\ h \in Nat /\ f \in Nat /\ d \in Nat /\ l \in Nat /\ ref \in Nat
        /\ Balanced(ref, st, h, f, d, l)
    BY <1>1, <2>1
  <2> HIDE DEF h, f, d, l, ref, st
  <2>5. ref > 0 /\ l = 0
    BY <2>3, <2>4 DEF Balanced
  <2> QED BY <1>2, <2>5
<1>4. ASSUME Top("object_destroy"), Arg(1) = "conn" PROVE st = "CLOSING" /\ stat.active > 0
  <2>1. k \in DOMAIN mem.conn /\ stack # <<>> /\ stack[1] = <<"object_destroy", "conn", k>>
    BY <1>4, Args DEF ObjectCalls, Top
  <2>2. stack[1] \in Dying("conn", k)
    BY <2>1 DEF Dying
  <2> HIDE DEF k
  <2>3. d > 0
    BY <2>1, <2>2, TopNumber
  <2>4. /\ d \in Nat /\ Balanced(ref, st, h, f, d, l)
    BY <1>1, <2>1
  <2>5. st = "CLOSING"
    <3> HIDE DEF h, f, d, l, ref, st
    <3> QED BY <2>3, <2>4 DEF Balanced
  <2>6. k \in Existing
    BY <2>1, <2>5 DEF Existing
  <2>7. Cardinality(Existing) \in Nat /\ Cardinality(Existing) # 0
    BY <2>6, ExistingFew, FS_EmptySet, FS_CardinalityType
  <2> QED BY <2>5, <2>7 DEF ConnLedger, Active
<1>5. ASSUME Top("free"), Arg(1) = "conn" PROVE ~IsFree("conn", k)
  <2>1. k \in DOMAIN mem.conn /\ stack # <<>> /\ stack[1] = <<"free", "conn", k>>
    BY <1>5, Args DEF ObjectCalls, Top
  <2>2. stack[1] \in Freeing("conn", k)
    BY <2>1 DEF Freeing
  <2> HIDE DEF k
  <2>3. f > 0
    BY <2>1, <2>2, TopNumber
  <2>4. f \in Nat /\ l \in Nat /\ Balanced(ref, st, h, f, d, l)
    BY <1>1, <2>1
  <2> HIDE DEF h, f, d, l, ref, st
  <2>5. l = 0
    BY <2>3, <2>4 DEF Balanced
  <2> QED BY <1>2, <2>5
<1> QED BY <1>3, <1>4, <1>5 DEF ConnChecksPass

\* A step that fails an assertion destroys no session, and the generators do not exit in it.
LEMMA FailKeeps ==
  Shape /\ verdict = "none" /\ [Next]_vars /\ verdict' # "none" => Phases /\ gen'.running = gen.running
<1> SUFFICES ASSUME Shape, verdict = "none", [Next]_vars, verdict' # "none"
             PROVE  Phases /\ gen'.running = gen.running
  OBVIOUS
<1>1. Silent => Phases /\ gen'.running = gen.running
  BY DEF Silent, SessSilent, SessKept
<1>2. UNCHANGED <<visit, gen>> => Phases /\ gen'.running = gen.running
  BY DEF Phases
<1>3. CASE session_issue_call /\ UNCHANGED gen
  BY <1>1, <1>3, IssueCallSilent
<1>4. CASE (DestroyConn \/ recv_done) /\ UNCHANGED gen
  BY <1>2, <1>4 DEF DestroyConn, recv_done
<1>5. CASE call_done /\ UNCHANGED gen
  BY <1>1, <1>5, CallDoneSilent
<1>6. CASE (object_dec_ref \/ free) /\ UNCHANGED <<envVars, stat, visit>> /\ UNCHANGED gen
  BY <1>2, <1>6
<1>7. CASE CreateInBurst \/ CreateEmbedded
  BY <1>1, <1>7, CreateSilent
<1>8. CASE call_destroyed \/ do_recv
  BY <1>2, <1>8 DEF call_destroyed, do_recv
<1>9. CASE Loop
  BY <1>2, <1>9 DEF Loop, RateTick, user_think_time_expired, WatchdogExpired, epoll_wait,
     ConnectionEstablished, do_send, do_send_part, ReplyArrives, IoFails, EventIgnored
<1>10. CASE sess_failure \/ DestroySess \/ sess_destroyed \/ close_conn_of \/ drop_ring \/ send_calls
            \/ create_conn \/ ConnectInProgress \/ ConnectAtOnce \/ ConnectRefused \/ conn_connected
            \/ conn_failed \/ conn_timeout \/ core_close \/ close_recvq \/ close_sd \/ forget_conn
            \/ DestroyCall
  BY <1>10 DEF sess_failure, DestroySess, sess_destroyed, close_conn_of, drop_ring, send_calls,
     create_conn, ConnectInProgress, ConnectAtOnce, ConnectRefused, conn_connected, conn_failed,
     conn_timeout, core_close, close_recvq, close_sd, forget_conn, DestroyCall
<1>11. CASE sess_create \/ not_done \/ done \/ IssueBurst \/ IssuePage \/ CallsCreated \/ fetch_uri
            \/ gen_sess_destroyed
  BY <1>11 DEF sess_create, not_done, done, IssueBurst, IssuePage, CallsCreated, fetch_uri,
     gen_sess_destroyed
<1>12. CASE UNCHANGED vars
  BY <1>2, <1>12 DEF vars
<1>13. CASE ManagerStep /\ UNCHANGED gen
  BY <1>3, <1>4, <1>5, <1>6, <1>10, <1>13 DEF ManagerStep
<1> QED BY <1>7, <1>8, <1>9, <1>11, <1>12, <1>13 DEF Next, Calls, Finished

\* The shape and the ledger hold until an assertion fails.
Sound == verdict = "none" => Shape /\ Ledger

\* This is inductive.
LEMMA SoundStep == Sound /\ [Next]_vars => Sound'
<1> SUFFICES ASSUME Sound, [Next]_vars, verdict' = "none" PROVE Shape' /\ Ledger'
  BY DEF Sound
<1>1. verdict = "none"
  BY Stopped DEF vars
<1> QED BY <1>1, StepShape, StepLedger DEF Sound

\* In the first state, too.
LEMMA InitSound == Init => Sound
  BY InitShape, InitLedger DEF Sound

\* What may become of a session: it is created once, and completes or fails once.
EndsOnce(n) ==
  \/ visit'[n].phase = visit[n].phase
  \/ visit[n].phase = "new" /\ visit'[n].phase = "open"
  \/ visit[n].phase = "open" /\ visit'[n].phase \in {"completed", "failed"}

\* Only the creation and the destruction of a session change phases.
LEMMA PhaseSteps ==
  Shape /\ [Next]_vars => Phases \/ sess_create \/ (DestroySess /\ UNCHANGED gen)
<1> SUFFICES ASSUME Shape, [Next]_vars, ~sess_create, ~(DestroySess /\ UNCHANGED gen) PROVE Phases
  OBVIOUS
<1>1. Silent => Phases
  BY DEF Silent, SessSilent, SessKept
<1>2. UNCHANGED visit => Phases
  BY DEF Phases
<1>3. CASE (call_done /\ UNCHANGED gen) \/ CreateInBurst \/ CreateEmbedded
  BY <1>1, <1>3, CallDoneSilent, CreateSilent
<1>4. CASE (object_dec_ref \/ free) /\ UNCHANGED <<envVars, stat, visit>>
  BY <1>2, <1>4
<1>5. CASE Loop
  BY <1>2, <1>5 DEF Loop, RateTick, user_think_time_expired, WatchdogExpired, epoll_wait,
     ConnectionEstablished, do_send, do_send_part, ReplyArrives, IoFails, EventIgnored
<1>6. CASE sess_failure \/ sess_destroyed \/ close_conn_of \/ drop_ring \/ session_issue_call
           \/ send_calls \/ create_conn \/ ConnectInProgress \/ ConnectAtOnce \/ ConnectRefused
           \/ conn_connected \/ conn_failed \/ conn_timeout
  BY <1>2, <1>6 DEF sess_failure, sess_destroyed, close_conn_of, drop_ring, session_issue_call,
     send_calls, create_conn, ConnectInProgress, ConnectAtOnce, ConnectRefused, conn_connected,
     conn_failed, conn_timeout
<1>7. CASE core_close \/ close_recvq \/ close_sd \/ DestroyConn \/ recv_done \/ forget_conn \/ DestroyCall
  BY <1>2, <1>7 DEF core_close, close_recvq, close_sd, DestroyConn, recv_done, forget_conn, DestroyCall
<1>8. CASE not_done \/ done \/ IssueBurst \/ IssuePage \/ CallsCreated \/ fetch_uri
           \/ call_destroyed \/ gen_sess_destroyed \/ do_recv
  BY <1>2, <1>8 DEF not_done, done, IssueBurst, IssuePage, CallsCreated, fetch_uri, call_destroyed,
     gen_sess_destroyed, do_recv
<1>9. CASE UNCHANGED vars
  BY <1>2, <1>9 DEF vars
<1>10. CASE ManagerStep /\ UNCHANGED gen
  BY <1>3, <1>4, <1>6, <1>7, <1>10 DEF ManagerStep
<1> QED BY <1>3, <1>5, <1>8, <1>9, <1>10 DEF Next, Calls, Finished

\* A session that is created is a new one; the one that is destroyed is open.
LEMMA PhasesEnd == Sound /\ [Next]_vars => \A n \in 1..NumSessions : EndsOnce(n)
<1> SUFFICES ASSUME Sound, [Next]_vars, NEW n \in 1..NumSessions PROVE EndsOnce(n)
  OBVIOUS
<1>1. CASE Phases
  BY <1>1 DEF Phases, EndsOnce
<1>2. CASE verdict # "none"
  <2>1. visit' = visit
    BY <1>2, Stopped DEF vars
  <2> QED BY <2>1 DEF EndsOnce
<1>3. CASE verdict = "none" /\ sess_create
  <2>1. Shape /\ SessLedger
    BY <1>3 DEF Sound, Ledger
  <2>2. visit \in [1..NumSessions -> VisitRecs] /\ gen.generated \in Nat
    BY <2>1 DEF Shape, GenOK
  <2>3. CASE gen.generated >= NumSessions
    <3>1. visit' = visit
      BY <1>3, <2>3 DEF sess_create
    <3> QED BY <3>1 DEF EndsOnce
  <2>4. CASE ~(gen.generated >= NumSessions)
    <3> DEFINE j == gen.generated + 1
    <3>1. visit' = [visit EXCEPT ![j].phase = "open"]
      BY <1>3, <2>4 DEF sess_create
    <3>2. CASE n = j
      <4>1. visit[n].phase = "new"
        BY <2>1, <2>2, <3>2 DEF SessLedger, NewLater
      <4>2. visit'[n].phase = "open"
        BY <2>2, <3>1, <3>2 DEF VisitRecs
      <4> QED BY <4>1, <4>2 DEF EndsOnce
    <3>3. CASE n # j
      <4>1. visit'[n] = visit[n]
        BY <2>2, <3>1, <3>3
      <4> QED BY <4>1 DEF EndsOnce
    <3> QED BY <3>2, <3>3
  <2> QED BY <2>3, <2>4
<1>4. CASE verdict = "none" /\ DestroySess /\ UNCHANGED gen
  <2> DEFINE s == Arg(2)  o == mem.sess[s]  j == o.num
             phase == IF o.failed THEN "failed" ELSE "completed"
  <2>1. Shape /\ SessLedger
    BY <1>4 DEF Sound, Ledger
  <2>2. visit \in [1..NumSessions -> VisitRecs]
    BY <2>1 DEF Shape
  <2>3. stack # <<>> /\ stack[1][1] = "object_destroy" /\ Arg(1) = "sess"
        /\ visit' = [visit EXCEPT ![j].phase = phase]
    BY <1>4 DEF DestroySess, Top
  <2>4. s \in DOMAIN mem.sess /\ stack[1] = <<"object_destroy", "sess", s>>
    BY <2>1, <2>3, Args DEF ObjectCalls
  <2>5. phase \in {"completed", "failed"}
    OBVIOUS
  <2> HIDE DEF s, phase
  <2>6. visit[j].phase = "open"
    <3>1. stack[1] \in Dying("sess", s)
      BY <2>4 DEF Dying
    <3>2. Number(Dying("sess", s), stack) > 0
      BY <2>1, <2>3, <3>1, TopNumber
    <3> DEFINE r == mem.sess[s].ref  e == Number(Ending(s), stack)
               d == Number(Dying("sess", s), stack)  l == Number({s}, mem.free["sess"])
    <3>3. r \in Nat /\ e \in Nat /\ l \in Nat /\ d \in Nat /\ r + e + l = 1 /\ d <= e
      BY <2>1, <2>4, SessNumbers
    <3>4. d > 0
      BY <3>2
    <3>5. d = 1
      <4> HIDE DEF r, e, d, l
      <4> QED BY <3>3, <3>4
    <3> QED BY <2>1, <2>4, <3>5 DEF SessLedger, SessOpen, Live
  <2>7. CASE n = j
    <3>1. visit'[n].phase = phase
      BY <2>2, <2>3, <2>7 DEF VisitRecs
    <3> QED BY <2>5, <2>6, <2>7, <3>1 DEF EndsOnce
  <2>8. CASE n # j
    <3>1. visit'[n] = visit[n]
      BY <2>2, <2>3, <2>8
    <3> QED BY <3>1 DEF EndsOnce
  <2> QED BY <2>7, <2>8
<1>5. verdict = "none" => Shape
  BY DEF Sound
<1> QED BY <1>1, <1>2, <1>3, <1>4, <1>5, PhaseSteps

\* object.c, sess.c and conn.c: whatever a destruction runs into (core_close
\* called again from a callback, sess_failure from an inner frame, a connection
\* replaced while it is closed), every session and every connection is between
\* two events either freed once or referenced once, and then the connection is
\* open; and no reference to a connection is given up after its last, none is
\* destroyed while it is open or when none is counted, none is freed twice.
THEOREM EachHeldOnce == Spec => []HeldOnce
<1>1. Sound => OneReference
  BY LedgerHeldOnce DEF Sound, OneReference, Idle
<1>2. Sound => ConnChecksPass
  BY LedgerChecks DEF Sound, ConnChecksPass, Top
<1>3. Sound => HeldOnce
  BY <1>1, <1>2 DEF HeldOnce
<1> QED BY <1>3, InitSound, SoundStep, PTL DEF Spec

\* sess_stat.c and basic.c: each session is counted once, as completed or as
\* failed, and the number of open connections is the one that is reported.
THEOREM CountersAlwaysAgree == Spec => []CountersAgree
<1>1. Sound => CountersAgree
  BY LedgerCounters DEF Sound, CountersAgree, Idle
<1> QED BY <1>1, InitSound, SoundStep, PTL DEF Spec

\* wsess.c, wsesslog.c, wsesspage.c: core_exit is called by the handler of the
\* last session that is destroyed, neither before it nor later.
THEOREM ExitsRight == Spec => []ExitsWhenAllOver
<1> DEFINE K == Sound /\ (~gen.running => AllOver)
<1>1. Init => K
  <2> SUFFICES ASSUME Init PROVE K
    OBVIOUS
  <2>1. gen.running
    BY DEF Init
  <2> QED BY <2>1, InitSound
<1>2. K /\ [Next]_vars => K'
  <2> SUFFICES ASSUME K, [Next]_vars PROVE ~gen'.running => AllOver'
    BY SoundStep
  <2>1. CASE verdict' = "none"
    <3>1. Sound'
      BY SoundStep
    <3>2. Shape' /\ Ledger'
      BY <2>1, <3>1 DEF Sound
    <3>3. (Shape /\ Ledger => (~gen.running => AllOver))'
      BY LedgerExits, PTL
    <3> QED BY <3>2, <3>3
  <2>2. CASE verdict' # "none"
    <3>1. Phases /\ gen'.running = gen.running
      <4>1. CASE verdict = "none"
        BY <2>2, <4>1, FailKeeps DEF Sound
      <4>2. CASE verdict # "none"
        BY <4>2, Stopped DEF vars, Phases
      <4> QED BY <4>1, <4>2
    <3>2. AllOver' <=> AllOver
      BY <3>1 DEF AllOver, Visited, Phases
    <3> QED BY <3>1, <3>2
  <2> QED BY <2>1, <2>2
<1>3. K => ExitsWhenAllOver
  BY LedgerExits DEF Sound, ExitsWhenAllOver, Idle, AllOver
<1> QED BY <1>1, <1>2, <1>3, PTL DEF Spec
\* sess.c, sess_stat.c: a session is created once and is over once, as completed or as
\* failed, whatever fails while it is destroyed.
THEOREM SessionsEndOnce == Spec => [][\A n \in 1..NumSessions : EndsOnce(n)]_vars
<1>1. Sound /\ [Next]_vars => [\A n \in 1..NumSessions : EndsOnce(n)]_vars
  BY PhasesEnd
<1> QED BY <1>1, InitSound, SoundStep, PTL DEF Spec
=============================================================================
