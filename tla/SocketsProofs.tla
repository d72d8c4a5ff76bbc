--------------------------- MODULE SocketsProofs ---------------------------
(***************************************************************************)
(* What TLAPS proves of Sockets, for every list of options, number of      *)
(* words, size of a word and part of it that ffs sees.                     *)
(***************************************************************************)
EXTENDS Sockets, FiniteSetTheorems, WellFoundedInduction, TLAPS

-----------------------------------------------------------------------------
(* Numbers *)

\* A set of numbers that is not empty has a least one.
LEMMA LeastNumber ==
  ASSUME NEW S, S \subseteq Nat, S # {}
  PROVE  \E n \in S : \A m \in S : n <= m
<1> DEFINE R == {xy \in Nat \X Nat : xy[1] < xy[2]}
<1>1. OpToRel(<, Nat) = R
  BY DEF OpToRel
<1>2. IsWellFoundedOn(R, Nat)
  BY <1>1, NatLessThanWellFounded
<1>3. \A m, n \in Nat : m < n => <<m, n>> \in R
  OBVIOUS
<1> HIDE DEF R
<1>4. PICK n \in S : \A m \in S : ~(<<m, n>> \in R)
  BY <1>2, WFMin
<1>5. n \in Nat /\ \A m \in S : m \in Nat /\ ~(m < n)
  BY <1>3, <1>4, S \subseteq Nat
<1> QED BY <1>5, SMT

\* The word at a distance of n from word i.
LEMMA Turn ==
  ASSUME NEW w \in Nat \ {0}, NEW i \in 0..(w - 1), NEW j \in 0..(w - 1)
  PROVE  /\ (j - i) % w \in 0..(w - 1)
         /\ (i + ((j - i) % w)) % w = j
         /\ j # i => (j - i) % w \in 1..(w - 1)
<1>1. (j - i) % w = IF i <= j THEN j - i ELSE j - i + w
  BY SMT
<1>2. \A n \in 0..(2 * w - 1) : n % w = IF n < w THEN n ELSE n - w
  BY SMT
<1> DEFINE d == (j - i) % w
<1> HIDE DEF d
<1>3. d \in 0..(w - 1) /\ (j # i => d # 0) /\ (i + d = j \/ i + d = j + w) /\ d \in Int
  BY <1>1 DEF d
<1>4. (i + d) % w = j
  BY <1>2, <1>3
<1> QED BY <1>3, <1>4 DEF d

\* A number below w * n has a quotient below w and a rest below n.
LEMMA Place ==
  ASSUME NEW n \in Nat \ {0}, NEW w \in Nat, NEW p \in 0..(w * n - 1)
  PROVE  p \div n \in 0..(w - 1) /\ p % n \in 0..(n - 1) /\ p = ((p \div n) * n) + (p % n)
BY SMT

-----------------------------------------------------------------------------
(* The pool of ports of one address *)

Pool == [free : SUBSET Ports, mask : SUBSET AllBits, previous : 0..(Words - 1)]

\* The word at hand and the words behind it are all the words of the map.
LEMMA EveryWord ==
  ASSUME NEW i \in 0..(Words - 1), NEW j \in 0..(Words - 1), j # i
  PROVE  j \in NextWords(i)
<1>1. Words \in Nat \ {0}
  BY PoolAssumption
<1>2. (j - i) % Words \in 1..(Words - 1) /\ (i + ((j - i) % Words)) % Words = j
  BY <1>1, Turn
<1> QED BY <1>2 DEF NextWords

\* NextWords names words of the map, and not the one at hand.
LEMMA WordsOfMap ==
  ASSUME NEW i \in 0..(Words - 1)
  PROVE  NextWords(i) \subseteq 0..(Words - 1) /\ i \notin NextWords(i)
<1>1. Words \in Nat \ {0}
  BY PoolAssumption
<1>2. ASSUME NEW n \in 1..(Words - 1) PROVE (i + n) % Words \in 0..(Words - 1) \ {i}
  <2>1. (i + n) % Words = IF i + n < Words THEN i + n ELSE i + n - Words
    BY <1>1, SMT
  <2> QED BY <1>1, <2>1
<1> QED BY <1>2 DEF NextWords

\* Every port has its word and its bit.
LEMMA PortPlace ==
  ASSUME NEW addr \in Pool, NEW p \in addr.free
  PROVE  \E j \in 0..(Words - 1) : \E b \in Word(addr, j) : p = (j * Bits) + b
<1>1. p \in 0..(Words * Bits - 1) /\ Words \in Nat /\ Bits \in Nat \ {0}
  BY PoolAssumption DEF Pool, Ports
<1>2. p \div Bits \in 0..(Words - 1) /\ p % Bits \in 0..(Bits - 1)
      /\ p = ((p \div Bits) * Bits) + (p % Bits)
  BY <1>1, Place
<1>3. p % Bits \in Word(addr, p \div Bits)
  BY <1>2, Zenon DEF Word, AllBits
<1> QED BY <1>2, <1>3, Zenon

\* The nearest of the words that have a free port is one of them.
LEMMA NearestWord ==
  ASSUME NEW i \in 0..(Words - 1), NEW filled, filled \subseteq NextWords(i), filled # {}
  PROVE  /\ (CHOOSE j \in filled : \A l \in filled : Distance(i, j) <= Distance(i, l)) \in filled
         /\ filled \subseteq 0..(Words - 1)
<1> DEFINE D == {Distance(i, j) : j \in filled}
<1>1. Words \in Nat \ {0} /\ filled \subseteq 0..(Words - 1)
  BY PoolAssumption, WordsOfMap
<1>2. \A j \in 0..(Words - 1) : Distance(i, j) \in Nat
  BY <1>1, Turn DEF Distance
<1>3. D \subseteq Nat /\ D # {}
  BY <1>1, <1>2
<1>4. PICK n \in D : \A m \in D : n <= m
  BY <1>3, LeastNumber, Zenon
<1>5. PICK j \in filled : n = Distance(i, j)
  BY <1>4
<1>6. \A l \in filled : Distance(i, j) <= Distance(i, l)
  BY <1>4, <1>5
<1> QED BY <1>1, <1>5, <1>6

\* When port_get finds no word to take a port from, the ports that are free, if
\* there are any, are all of the present word.
LEMMA NoWordLeft ==
  ASSUME NEW addr \in Pool, TakenWord(addr) = None
  PROVE  Cardinality(addr.free) <= Bits
<1> DEFINE i == addr.previous
<1> DEFINE filled == {j \in NextWords(i) : Word(addr, j) # {}}
<1>1. i \in 0..(Words - 1) /\ None \notin 0..(Words - 1) /\ Bits \in Nat \ {0} /\ Words \in Nat
  BY PoolAssumption DEF Pool, None
<1>2. filled = {}
  <2> SUFFICES ASSUME filled # {} PROVE FALSE
    OBVIOUS
  <2> DEFINE nearest == CHOOSE j \in filled : \A l \in filled : Distance(i, j) <= Distance(i, l)
  <2>1. TakenWord(addr) \in {i, nearest}
    BY DEF TakenWord
  <2>2. nearest \in filled /\ filled \subseteq 0..(Words - 1)
    <3> HIDE DEF filled
    <3>1. filled \subseteq NextWords(i)
      BY DEF filled
    <3> QED BY <1>1, <3>1, NearestWord
  <2> HIDE DEF nearest
  <2> QED BY <1>1, <2>1, <2>2
<1>3. \A p \in addr.free : p \in (i * Bits)..((i * Bits) + Bits - 1)
  <2> TAKE p \in addr.free
  <2>1. PICK j \in 0..(Words - 1) : \E b \in Word(addr, j) : p = (j * Bits) + b
    BY PortPlace
  <2>0. PICK b \in Word(addr, j) : p = (j * Bits) + b
    BY <2>1
  <2>2. j = i
    BY <2>0, <1>1, <1>2, EveryWord
  <2>3. b \in 0..(Bits - 1)
    BY <2>0 DEF Word, AllBits
  <2> DEFINE base == i * Bits
  <2>4. base \in Int /\ p = base + b
    BY <2>0, <2>2, <2>3, <1>1
  <2> HIDE DEF base
  <2>5. p \in base..(base + Bits - 1)
    BY <2>3, <2>4, <1>1
  <2> QED BY <2>5 DEF base
<1> DEFINE base == i * Bits
<1>4. base \in Int
  BY <1>1
<1> HIDE DEF base, i
<1>5. IsFiniteSet(base..(base + Bits - 1)) /\ Cardinality(base..(base + Bits - 1)) = Bits
  <2>1. base + Bits - 1 \in Int /\ ~(base > base + Bits - 1) /\ (base + Bits - 1) - base + 1 = Bits
    BY <1>1, <1>4
  <2> QED BY <2>1, <1>4, FS_Interval
<1>6. addr.free \in SUBSET (base..(base + Bits - 1))
  BY <1>3 DEF base, i
<1> QED BY <1>5, <1>6, FS_Subset

\* The word port_get takes a port from, and the bits it looks at.
LEMMA WordTaken ==
  ASSUME NEW addr \in Pool, TakenWord(addr) # None
  PROVE  /\ TakenWord(addr) \in 0..(Words - 1)
         /\ TakenWord(addr) = addr.previous => Word(addr, addr.previous) \intersect addr.mask # {}
         /\ TakenWord(addr) # addr.previous => Word(addr, TakenWord(addr)) # {}
<1> DEFINE i == addr.previous
<1> DEFINE filled == {j \in NextWords(i) : Word(addr, j) # {}}
<1> DEFINE nearest == CHOOSE j \in filled : \A l \in filled : Distance(i, j) <= Distance(i, l)
<1>1. i \in 0..(Words - 1)
  BY DEF Pool
<1>2. CASE Word(addr, i) \intersect addr.mask # {}
  BY <1>1, <1>2 DEF TakenWord
<1>3. CASE Word(addr, i) \intersect addr.mask = {}
  <2>1. filled # {} /\ TakenWord(addr) = nearest
    BY <1>3 DEF TakenWord
  <2>2. nearest \in filled /\ filled \subseteq 0..(Words - 1)
    <3> HIDE DEF filled
    <3>1. filled \subseteq NextWords(i)
      BY DEF filled
    <3> QED BY <1>1, <2>1, <3>1, NearestWord
  <2> HIDE DEF nearest
  <2>3. Word(addr, nearest) # {} /\ nearest \in 0..(Words - 1) /\ nearest # i
    <3>1. i \notin NextWords(i)
      BY <1>1, WordsOfMap, Zenon
    <3> QED BY <2>2, <3>1, <2>1
  <2> QED BY <2>1, <2>3
<1> QED BY <1>2, <1>3

\* The ports that port_get never mistakes
Sure == Ports \ Mistaken

\* A port has its place below the end of the map.
LEMMA PortOfMap ==
  ASSUME NEW i \in 0..(Words - 1), NEW b \in 0..(Bits - 1)
  PROVE  i * Bits + b \in Ports
<1>1. Words \in Nat \ {0} /\ Bits \in Nat \ {0}
  BY PoolAssumption
<1>2. i * Bits \in Nat /\ i * Bits <= (Words - 1) * Bits /\ (Words - 1) * Bits = Words * Bits - Bits
  BY <1>1
<1> DEFINE base == i * Bits
<1> DEFINE end == Words * Bits
<1>3. base \in Nat /\ end \in Int /\ base <= end - Bits
  BY <1>1, <1>2
<1> HIDE DEF base, end
<1>4. base + b \in 0..(end - 1)
  BY <1>1, <1>3
<1> QED BY <1>4 DEF base, end, Ports

\* lffs finds the lowest of the bits it sees.
LEMMA BitFound ==
  ASSUME opt \in Options, NEW bits \in SUBSET AllBits
  PROVE  \/ lffs(bits) - 1 \in bits /\ lffs(bits) - 1 \in Nat
         \/ lffs(bits) - 1 = -1 /\ (bits # {} => opt.int_bits < Bits)
<1> DEFINE seen == {b \in bits : b < opt.int_bits}
<1> DEFINE lowest == CHOOSE b \in seen : \A c \in seen : b <= c
<1>1. opt.int_bits \in 1..Bits /\ Bits \in Nat \ {0} /\ bits \subseteq 0..(Bits - 1)
  BY OptionsAssumption, PoolAssumption DEF AllBits
<1>2. CASE seen = {}
  <2>1. lffs(bits) = 0
    BY <1>2 DEF lffs
  <2>2. \A b \in bits : ~(b < opt.int_bits)
    BY <1>2
  <2>3. bits # {} => opt.int_bits < Bits
    <3> HAVE bits # {}
    <3>1. PICK b : b \in bits
      OBVIOUS
    <3>2. b \in 0..(Bits - 1) /\ ~(b < opt.int_bits)
      BY <1>1, <2>2, <3>1
    <3> QED BY <1>1, <3>2
  <2>4. lffs(bits) - 1 = -1
    BY <2>1
  <2> QED BY <2>3, <2>4
<1>3. CASE seen # {}
  <2>1. lffs(bits) = 1 + lowest
    BY <1>3 DEF lffs
  <2>2. seen \subseteq bits
    OBVIOUS
  <2> HIDE DEF seen
  <2>3. seen \subseteq Nat
    <3>1. 0..(Bits - 1) \subseteq Nat
      BY <1>1
    <3> QED BY <1>1, <2>2, <3>1
  <2>4. lowest \in seen
    BY <1>3, <2>3, LeastNumber
  <2> HIDE DEF lowest
  <2>5. lffs(bits) - 1 = lowest
    BY <2>1, <2>3, <2>4
  <2> QED BY <2>2, <2>3, <2>4, <2>5
<1> QED BY <1>2, <1>3

\* port_get returns a port that is free and takes nothing else out of the pool, except for
\* the ports it mistakes; and it leaves a pool.
LEMMA PortTaken ==
  ASSUME opt \in Options, NEW addr \in Pool, TakenWord(addr) # None
  PROVE  /\ Got(addr) \in Ports \union {-1}
         /\ port_get(addr) \in Pool
         /\ Got(addr) \in Sure => Got(addr) \in addr.free
         /\ \A p \in Sure : p \in port_get(addr).free <=> p \in addr.free /\ p # Got(addr)
<1> DEFINE i == TakenWord(addr)
<1> DEFINE bits == IF i = addr.previous THEN Word(addr, i) \intersect addr.mask ELSE Word(addr, i)
<1> DEFINE bit == TakenBit(addr)
<1> DEFINE removed == {i * Bits + b : b \in Cleared(addr)}
<1>1. /\ i \in 0..(Words - 1) /\ bits # {} /\ bits \subseteq Word(addr, i)
      /\ Word(addr, i) \subseteq AllBits
  BY WordTaken DEF Word
<1>2. Bits \in Nat \ {0} /\ Words \in Nat \ {0} /\ opt.shifted \subseteq {Bits - 1}
  BY PoolAssumption, OptionsAssumption
<1>3. bit = lffs(bits) - 1 /\ Got(addr) = i * Bits + bit
  BY DEF TakenBit, Got
<1> HIDE DEF bits
<1>4. \/ bit \in bits /\ bit \in Nat
      \/ bit = -1 /\ opt.int_bits < Bits
  BY <1>1, <1>3, BitFound
<1>5. port_get(addr).free = addr.free \ removed /\ port_get(addr) \in Pool
  BY <1>1 DEF port_get, Pool
<1> HIDE DEF i, bit
<1>6. CASE bit \in bits /\ bit \in Nat
  <2>1. Cleared(addr) = {bit}
    BY <1>6 DEF Cleared, bit
  <2>2. removed = {Got(addr)}
    BY <1>3, <2>1
  <2>3. Got(addr) \in addr.free
    BY <1>1, <1>3, <1>6 DEF Word
  <2>4. addr.free \subseteq Ports /\ Sure \subseteq Ports
    BY DEF Pool, Sure
  <2> HIDE DEF removed
  <2> QED BY <1>5, <2>2, <2>3, <2>4
<1>7. CASE bit = -1 /\ opt.int_bits < Bits
  <2>1. Mistaken = {j * Bits + Bits - 1 : j \in 0..(Words - 1)}
    BY <1>7 DEF Mistaken
  <2>2. Cleared(addr) \subseteq {Bits - 1}
    BY <1>2, <1>7 DEF Cleared, bit
  <2>3. i * Bits + (Bits - 1) = i * Bits + Bits - 1
    <3>1. i * Bits \in Int
      BY <1>1, <1>2
    <3> DEFINE base == i * Bits
    <3> HIDE DEF base
    <3>2. base \in Int => base + (Bits - 1) = base + Bits - 1
      BY <1>2
    <3> QED BY <3>1, <3>2 DEF base
  <2>4. removed \subseteq Mistaken
    BY <1>1, <2>1, <2>2, <2>3
  <2>5. Got(addr) \in Mistaken \union {-1}
    <3>1. CASE i = 0
      <4>1. 0 * Bits + -1 = -1
        BY <1>2
      <4> QED BY <1>3, <1>7, <3>1, <4>1
    <3>2. CASE i # 0
      <4>1. i - 1 \in 0..(Words - 1)
        BY <1>1, <1>2, <3>2
      <4>2. (i - 1) * Bits + Bits - 1 = i * Bits + -1
        <5>1. (i - 1) * Bits = i * Bits - Bits /\ i * Bits \in Int
          BY <1>1, <1>2
        <5> DEFINE base == i * Bits
        <5> HIDE DEF base
        <5>2. base \in Int => (base - Bits) + Bits - 1 = base + -1
          BY <1>2
        <5> QED BY <5>1, <5>2 DEF base
      <4>3. (i - 1) * Bits + Bits - 1 \in Mistaken
        BY <2>1, <4>1
      <4> QED BY <1>3, <1>7, <4>2, <4>3
    <3> QED BY <3>1, <3>2
  <2>6. Mistaken \subseteq Ports /\ -1 \notin Ports
    <3>1. \A j \in 0..(Words - 1) : j * Bits + Bits - 1 \in Ports
      <4> TAKE j \in 0..(Words - 1)
      <4>1. Bits - 1 \in 0..(Bits - 1) /\ j * Bits \in Int
        BY <1>2
      <4>2. j * Bits + (Bits - 1) \in Ports
        BY <4>1, PortOfMap
      <4> DEFINE base == j * Bits
      <4> HIDE DEF base
      <4>3. base \in Int => base + (Bits - 1) = base + Bits - 1
        BY <1>2
      <4> QED BY <4>1, <4>2, <4>3 DEF base
    <3>2. -1 \notin Ports
      BY DEF Ports
    <3> QED BY <2>1, <3>1, <3>2
  <2>7. \A p \in Sure : p \notin removed /\ p # Got(addr)
    <3> HIDE DEF removed
    <3> QED BY <2>4, <2>5, <2>6 DEF Sure
  <2> HIDE DEF removed
  <2> QED BY <1>5, <2>5, <2>6, <2>7
<1> QED BY <1>4, <1>6, <1>7

-----------------------------------------------------------------------------
(* The invariant: the calls that have not returned, and the descriptors and *)
(* ports of every connection.                                              *)

Names == {opt.servers[i] : i \in DOMAIN opt.servers}
Conn == [state    : {"INITIAL", "CONNECTING", "FREE"},
         hostname : Names,
         sin      : {hash_lookup(h) : h \in Names} \union {""},
         sd       : Nat \union {None},
         myaddr   : 0..opt.addresses,
         myport   : Ports \union {-1, None}]
Frame == (Nat \ {0}) \X {"socket", "bind", "connect", "failed", "closing"}

Typed ==
  /\ opt \in Options
  /\ current \in 1..Len(opt.servers)
  /\ pool \in [Addresses -> Pool]
  /\ last \in Addresses
  /\ conns \in Seq(Conn)
  /\ stack \in Seq(Frame)
  /\ fds \in SUBSET Nat /\ IsFiniteSet(fds)

\* Each call that has not returned is of another connection, one that is open, and all
\* but the innermost wait in a handler of conn_failure.  A connection without such a
\* call has come to the end of core_connect.
Nested ==
  /\ \A i \in DOMAIN stack : stack[i][1] \in Live
  /\ \A i, j \in DOMAIN stack : stack[i][1] = stack[j][1] => i = j
  /\ \A i \in DOMAIN stack : i # 1 => stack[i][2] = "closing"
  /\ \A j \in Live : conns[j].state = "CONNECTING" \/ \E i \in DOMAIN stack : stack[i][1] = j

\* What core_connect has got for its connection so far.
Gathered ==
  /\ At("socket") => conns[k].state = "INITIAL" /\ conns[k].sd = None /\ conns[k].myport = None
  /\ At("bind") => /\ conns[k].state = "INITIAL" /\ conns[k].myport = None
                   /\ opt.hog /\ conns[k].myaddr \in Addresses
  /\ At("connect") => conns[k].state = "INITIAL"
  /\ \A j \in DOMAIN conns : conns[j].myport # None => opt.hog /\ conns[j].myaddr \in Addresses

Calls == Typed /\ Nested /\ Gathered

\* core_connect loses a descriptor when fcntl or setsockopt fails.
Handled == "ENOBUFS" \notin opt.errors

Descriptors ==
  /\ \A j \in Live : conns[j].sd # None => conns[j].sd \in fds
  /\ \A d \in fds : \E j \in Live : conns[j].sd = d
  /\ \A i, j \in Live : i # j /\ conns[i].sd # None => conns[i].sd # conns[j].sd

\* A port is of one connection; while that is to be put back once more, the port may be
\* free, or be refused to another connection.
PortsHeld ==
  /\ \A i, j \in Live : i # j /\ conns[i].myport # None /\ conns[i].myport = conns[j].myport
       => conns[i].myaddr # conns[j].myaddr
  /\ \A j \in Live : conns[j].myport \in Sure =>
       \/ Twice(j)
       \/ /\ <<conns[j].myaddr, conns[j].myport>> \notin rejected
          /\ conns[j].myport \notin pool[conns[j].myaddr].free

PortsSplit ==
  \A a \in Addresses : \A p \in Sure :
    /\ <<a, p>> \in rejected => p \notin pool[a].free
    /\ \/ p \in pool[a].free \/ <<a, p>> \in rejected
       \/ \E j \in Live : conns[j].myaddr = a /\ conns[j].myport = p

PortsKept == PortsHeld /\ PortsSplit

Resources == Calls /\ Descriptors /\ PortsKept

\* The command line and the table of servers stay as they are.
LEMMA Settled ==
  ASSUME opt' = opt, table' = table
  PROVE  Conn' = Conn /\ Addresses' = Addresses
<1>1. \A h : hash_lookup(h)' = hash_lookup(h)
  BY DEF hash_lookup, Probes
<1>2. Names' = Names
  BY Zenon DEF Names
<1>3. {hash_lookup(h) : h \in Names}' = {hash_lookup(h) : h \in Names}
  BY <1>1, <1>2
<1>4. Conn' = Conn
  BY <1>2, <1>3, Zenon DEF Conn
<1> QED BY <1>4, Zenon DEF Addresses

-----------------------------------------------------------------------------
(* What the steps do to the stack of calls *)

\* The innermost call goes on.
LEMMA GoesOn ==
  ASSUME Typed, stack # <<>>, NEW w \in {"bind", "connect", "failed"}, Goto(w)
  PROVE  /\ stack' \in Seq(Frame) /\ stack' # <<>> /\ 1 \in DOMAIN stack
         /\ DOMAIN stack' = DOMAIN stack /\ stack'[1] = <<k, w>> /\ k' = k
         /\ \A i \in DOMAIN stack : i # 1 => stack'[i] = stack[i]
         /\ \A i \in DOMAIN stack : stack'[i][1] = stack[i][1]
         /\ k \in Nat \ {0} /\ \A p : At(p)' <=> p = w
<1>1. stack \in Seq(Frame) /\ stack # <<>>
  BY DEF Typed
<1>2. Len(stack) \in Nat \ {0} /\ stack[1] \in Frame
  BY <1>1
<1>3. k \in Nat \ {0} /\ <<k, w>> \in Frame
  BY <1>2 DEF k, Frame
<1>4. stack' = <<<<k, w>>>> \o Tail(stack)
  BY DEF Goto
<1>5. Tail(stack) \in Seq(Frame) /\ Len(Tail(stack)) = Len(stack) - 1
      /\ \A i \in 1..(Len(stack) - 1) : Tail(stack)[i] = stack[i + 1]
  BY <1>1, <1>2
<1>6. stack' \in Seq(Frame) /\ Len(stack') = Len(stack) /\ stack'[1] = <<k, w>>
      /\ \A i \in 2..Len(stack) : stack'[i] = stack[i]
  <2> DEFINE rest == Tail(stack)
  <2> DEFINE top == <<k, w>>
  <2> HIDE DEF rest, top
  <2>1. rest \in Seq(Frame) /\ top \in Frame /\ stack' = <<top>> \o rest
    BY <1>3, <1>4, <1>5 DEF rest, top
  <2>2. stack' \in Seq(Frame) /\ Len(stack') = 1 + Len(rest) /\ stack'[1] = top
        /\ \A i \in 2..(1 + Len(rest)) : stack'[i] = rest[i - 1]
    BY <2>1
  <2> QED BY <2>2, <1>2, <1>5 DEF rest, top
<1>7. DOMAIN stack' = 1..Len(stack) /\ DOMAIN stack = 1..Len(stack)
  BY <1>1, <1>6
<1>8. k' = k /\ stack' # <<>> /\ stack[1][1] = k
  BY <1>2, <1>6, <1>7 DEF k
<1>9. \A p : At(p)' <=> p = w
  BY <1>6, <1>8 DEF At
<1> QED BY <1>2, <1>3, <1>6, <1>7, <1>8, <1>9

\* The innermost call returns.
LEMMA Returns ==
  ASSUME Typed, stack # <<>>, stack' = Tail(stack)
  PROVE  /\ stack' \in Seq(Frame) /\ k \in Nat \ {0} /\ 1 \in DOMAIN stack
         /\ \A i \in DOMAIN stack' : i + 1 \in DOMAIN stack /\ i + 1 # 1 /\ stack'[i] = stack[i + 1]
         /\ \A i \in DOMAIN stack : i # 1 => i - 1 \in DOMAIN stack' /\ stack'[i - 1] = stack[i]
         /\ \A i, j \in DOMAIN stack' : i + 1 = j + 1 => i = j
<1>1. stack \in Seq(Frame) /\ stack # <<>>
  BY DEF Typed
<1>2. Len(stack) \in Nat \ {0} /\ stack[1] \in Frame
  BY <1>1
<1>3. k \in Nat \ {0}
  BY <1>2 DEF k, Frame
<1>4. stack' \in Seq(Frame) /\ Len(stack') = Len(stack) - 1
      /\ \A i \in 1..(Len(stack) - 1) : stack'[i] = stack[i + 1]
  BY <1>1, <1>2
<1>5. DOMAIN stack' = 1..(Len(stack) - 1) /\ DOMAIN stack = 1..Len(stack)
  BY <1>1, <1>4
<1>6. \A i \in DOMAIN stack' : i + 1 \in DOMAIN stack /\ i + 1 # 1 /\ stack'[i] = stack[i + 1]
  BY <1>2, <1>4, <1>5
<1>7. \A i \in DOMAIN stack : i # 1 => i - 1 \in DOMAIN stack' /\ stack'[i - 1] = stack[i]
  BY <1>2, <1>4, <1>5
<1>8. \A i, j \in DOMAIN stack' : i + 1 = j + 1 => i = j
  BY <1>2, <1>5
<1> QED BY <1>2, <1>3, <1>4, <1>5, <1>6, <1>7, <1>8

\* A connection is opened, and core_connect is called for it; the calls below wait.
LEMMA Opens ==
  ASSUME Typed, NEW below \in Seq(Frame), NewConn(below), DOMAIN below = DOMAIN stack,
         \A i \in DOMAIN stack : below[i][1] = stack[i][1] /\ below[i][2] = "closing"
  PROVE  LET n == Len(conns) + 1
         IN  /\ conns' \in Seq(Conn) /\ n \in Nat \ {0} /\ n \notin DOMAIN conns
             /\ DOMAIN conns' = DOMAIN conns \union {n}
             /\ \A j \in DOMAIN conns : conns'[j] = conns[j]
             /\ conns'[n].state = "INITIAL" /\ conns'[n].sd = None /\ conns'[n].myport = None
             /\ Live' = Live \union {n}
             /\ current' \in 1..Len(opt.servers)
             /\ stack' \in Seq(Frame) /\ 1 \in DOMAIN stack' /\ stack'[1] = <<n, "socket">>
             /\ k' = n /\ At("socket")' /\ ~At("bind")' /\ ~At("connect")' /\ ~At("failed")'
             /\ \A i \in DOMAIN stack : i + 1 \in DOMAIN stack' /\ stack'[i + 1][1] = stack[i][1]
             /\ \A i \in DOMAIN stack' \ {1} : /\ i - 1 \in DOMAIN stack
                                                /\ stack'[i][1] = stack[i - 1][1]
                                                /\ stack'[i][2] = "closing"
             /\ \A i, j \in DOMAIN stack' : i - 1 = j - 1 => i = j
<1> DEFINE n == Len(conns) + 1
<1> DEFINE new == [state |-> "INITIAL", hostname |-> opt.servers[current],
                   sin |-> "", sd |-> None, myaddr |-> 0, myport |-> None]
<1>1. conns \in Seq(Conn) /\ Len(conns) \in Nat /\ DOMAIN conns = 1..Len(conns)
  BY DEF Typed
<1>2. opt.servers \in Seq(STRING) /\ opt.servers # <<>> /\ current \in 1..Len(opt.servers)
      /\ opt.addresses \in Nat \ {0}
  BY OptionsAssumption DEF Typed
<1>3. new \in Conn
  <2>1. opt.servers[current] \in Names
    BY <1>2 DEF Names
  <2>2. 0 \in 0..opt.addresses
    BY <1>2
  <2> QED BY <2>1, <2>2 DEF Conn
<1>4. conns' = Append(conns, new) /\ stack' = <<<<n, "socket">>>> \o below
      /\ current' = (current % Len(opt.servers)) + 1
  BY DEF NewConn
<1> HIDE DEF new
<1>5. /\ conns' \in Seq(Conn) /\ n \in Nat \ {0} /\ n \notin DOMAIN conns
      /\ DOMAIN conns' = DOMAIN conns \union {n}
      /\ \A j \in DOMAIN conns : conns'[j] = conns[j]
      /\ conns'[n] = new
  BY <1>1, <1>3, <1>4
<1>6. new.state = "INITIAL" /\ new.sd = None /\ new.myport = None
  BY DEF new
<1>7. Live' = Live \union {n}
  BY <1>5, <1>6 DEF Live
<1>8. current' \in 1..Len(opt.servers)
  <2>1. Len(opt.servers) \in Nat \ {0}
    BY <1>2
  <2> DEFINE len == Len(opt.servers)
  <2>2. len \in Nat \ {0} /\ current \in Nat
    BY <1>2, <2>1
  <2> HIDE DEF len
  <2>3. (current % len) + 1 \in 1..len
    BY <2>2, SMT
  <2> QED BY <1>4, <2>3 DEF len
<1> DEFINE top == <<n, "socket">>
<1>9. top \in Frame
  BY <1>5 DEF Frame
<1>10. top[1] = n /\ top[2] = "socket"
  OBVIOUS
<1>11. stack' = <<top>> \o below /\ DOMAIN stack = 1..Len(below) /\ Len(below) \in Nat
  BY <1>4
<1> HIDE DEF top, n
<1>12. /\ stack' \in Seq(Frame) /\ stack'[1] = top /\ Len(stack') = 1 + Len(below)
       /\ \A i \in 2..(1 + Len(below)) : stack'[i] = below[i - 1]
  BY <1>9, <1>11
<1>13. DOMAIN stack' = 1..(1 + Len(below)) /\ stack' # <<>>
  BY <1>11, <1>12
<1>14. k' = n /\ At("socket")' /\ ~At("bind")' /\ ~At("connect")' /\ ~At("failed")'
  BY <1>10, <1>12, <1>13 DEF k, At
<1>15. \A i \in DOMAIN stack : i + 1 \in DOMAIN stack' /\ stack'[i + 1][1] = stack[i][1]
  BY <1>11, <1>12, <1>13
<1>16. \A i \in DOMAIN stack' \ {1} : i - 1 \in DOMAIN stack /\ stack'[i] = below[i - 1]
  BY <1>11, <1>12, <1>13
<1>17. \A i, j \in DOMAIN stack' : i - 1 = j - 1 => i = j
  BY <1>11, <1>13
<1>18. 1 \in DOMAIN stack'
  BY <1>11, <1>13
<1> QED BY <1>5, <1>6, <1>7, <1>8, <1>12, <1>14, <1>15, <1>16, <1>17, <1>18 DEF n, top

\* The record of one connection changes.
LEMMA Changes ==
  ASSUME Typed, NEW j \in DOMAIN conns, NEW c \in Conn, conns' = [conns EXCEPT ![j] = c]
  PROVE  /\ conns' \in Seq(Conn) /\ DOMAIN conns' = DOMAIN conns /\ conns'[j] = c
         /\ \A i \in DOMAIN conns : i # j => conns'[i] = conns[i]
         /\ c.state # "FREE" /\ j \in Live => Live' = Live
         /\ c.state = "FREE" => Live' = Live \ {j}
<1>1. conns \in Seq(Conn)
  BY DEF Typed
<1>2. /\ conns' \in Seq(Conn) /\ DOMAIN conns' = DOMAIN conns /\ conns'[j] = c
      /\ \A i \in DOMAIN conns : i # j => conns'[i] = conns[i]
  BY <1>1
<1> QED BY <1>2 DEF Live

-----------------------------------------------------------------------------
(* Calls is kept by every step *)

LEMMA CallsInit == Init => Calls
<1> SUFFICES ASSUME Init PROVE Calls
  OBVIOUS
<1>1. opt.servers \in Seq(STRING) /\ opt.servers # <<>> /\ opt.addresses \in Nat \ {0}
  BY OptionsAssumption DEF Init
<1>2. core_add_address \in Pool
  BY PoolAssumption DEF Pool, core_add_address
<1>3. Typed
  BY <1>1, <1>2, FS_EmptySet DEF Init, Typed, Addresses
<1>4. Nested /\ Gathered
  BY DEF Init, Nested, Gathered, At, Live
<1> QED BY <1>3, <1>4 DEF Calls

\* What every step leaves as it is
LEMMA Constancy == [Next]_vars => opt' = opt /\ table' = table
BY DEF Next, vars, names, Connect, Reconnect, NewConn, socket_fails, socket, bind, connect, connect_fails,
       core_close, conn_failure, conn_failure_closes, CloseConn, PortExpires, Idle

\* conn_new, for the load generator or for a handler of conn_failure
LEMMA CallsOpen ==
  ASSUME Calls, NEW below \in Seq(Frame), NewConn(below), DOMAIN below = DOMAIN stack,
         \A i \in DOMAIN stack : below[i][1] = stack[i][1] /\ below[i][2] = "closing"
  PROVE  Calls'
<1> DEFINE n == Len(conns) + 1
<1>0. Typed /\ Nested /\ Gathered
  BY DEF Calls
<1>1. UNCHANGED <<opt, table, pool, last, fds>>
  BY DEF NewConn, kernel
<1>2. Conn' = Conn /\ Addresses' = Addresses
  BY <1>1, Settled
<1>3. /\ conns' \in Seq(Conn) /\ n \in Nat \ {0} /\ n \notin DOMAIN conns
      /\ DOMAIN conns' = DOMAIN conns \union {n}
      /\ \A j \in DOMAIN conns : conns'[j] = conns[j]
      /\ conns'[n].state = "INITIAL" /\ conns'[n].sd = None /\ conns'[n].myport = None
      /\ Live' = Live \union {n} /\ current' \in 1..Len(opt.servers)
      /\ k' = n /\ At("socket")' /\ ~At("bind")' /\ ~At("connect")'
  BY <1>0, Opens
<1>4. /\ stack' \in Seq(Frame) /\ 1 \in DOMAIN stack' /\ stack'[1] = <<n, "socket">>
      /\ \A i \in DOMAIN stack : i + 1 \in DOMAIN stack' /\ stack'[i + 1][1] = stack[i][1]
      /\ \A i \in DOMAIN stack' \ {1} : /\ i - 1 \in DOMAIN stack
                                         /\ stack'[i][1] = stack[i - 1][1]
                                         /\ stack'[i][2] = "closing"
      /\ \A i, j \in DOMAIN stack' : i - 1 = j - 1 => i = j
  BY <1>0, Opens
<1> HIDE DEF n
<1>5. Typed'
  BY <1>0, <1>1, <1>2, <1>3, <1>4 DEF Typed
<1>6. Nested'
  <2>1. Live \subseteq DOMAIN conns /\ n \notin Live
    BY <1>3 DEF Live
  <2>2. /\ \A i \in DOMAIN stack : stack[i][1] \in Live
        /\ \A i, j \in DOMAIN stack : stack[i][1] = stack[j][1] => i = j
        /\ \A j \in Live : conns[j].state = "CONNECTING" \/ \E i \in DOMAIN stack : stack[i][1] = j
    BY <1>0 DEF Nested
  <2>3. stack'[1][1] = n /\ \A i \in DOMAIN stack' \ {1} : stack'[i][1] \in Live
    BY <1>4, <2>2
  <2>4. \A i \in DOMAIN stack' : stack'[i][1] \in Live'
    BY <1>3, <2>3
  <2>5. \A i, j \in DOMAIN stack' : stack'[i][1] = stack'[j][1] => i = j
    <3>1. \A i, j \in DOMAIN stack' \ {1} : stack'[i][1] = stack'[j][1] => i = j
      BY <1>4, <2>2
    <3> QED BY <2>1, <2>3, <3>1
  <2>6. \A i \in DOMAIN stack' : i # 1 => stack'[i][2] = "closing"
    BY <1>4
  <2>7. \A j \in Live : conns[j].state = "CONNECTING" \/ \E i \in DOMAIN stack' : stack'[i][1] = j
    BY <1>4, <2>2
  <2>8. \A j \in Live' : conns'[j].state = "CONNECTING" \/ \E i \in DOMAIN stack' : stack'[i][1] = j
    BY <1>3, <1>4, <2>1, <2>3, <2>7
  <2> QED BY <2>4, <2>5, <2>6, <2>8 DEF Nested
<1>7. Gathered'
  <2>1. \A j \in DOMAIN conns' : conns'[j].myport # None => opt'.hog /\ conns'[j].myaddr \in Addresses'
    BY <1>0, <1>1, <1>2, <1>3 DEF Gathered
  <2>2. (conns[k].state)' = "INITIAL" /\ (conns[k].sd)' = None /\ (conns[k].myport)' = None
    BY <1>3
  <2> QED BY <1>3, <2>1, <2>2 DEF Gathered
<1> QED BY <1>5, <1>6, <1>7 DEF Calls

\* The innermost call goes on: the nesting is the same.
LEMMA NestedOn ==
  ASSUME Typed, Nested, stack # <<>>, NEW w \in {"bind", "connect", "failed"}, Goto(w),
         DOMAIN conns' = DOMAIN conns, \A j \in DOMAIN conns : conns'[j].state = conns[j].state
  PROVE  Nested' /\ Live' = Live /\ k \in Live
<1>1. /\ DOMAIN stack' = DOMAIN stack /\ 1 \in DOMAIN stack /\ stack[1][1] = k
      /\ \A i \in DOMAIN stack : i # 1 => stack'[i] = stack[i]
      /\ \A i \in DOMAIN stack : stack'[i][1] = stack[i][1]
  BY GoesOn DEF k
<1>2. Live' = Live
  BY DEF Live
<1>3. /\ \A i \in DOMAIN stack : stack[i][1] \in Live
      /\ \A i, j \in DOMAIN stack : stack[i][1] = stack[j][1] => i = j
      /\ \A i \in DOMAIN stack : i # 1 => stack[i][2] = "closing"
      /\ \A j \in Live : conns[j].state = "CONNECTING" \/ \E i \in DOMAIN stack : stack[i][1] = j
  BY DEF Nested
<1>4. k \in Live
  BY <1>1, <1>3
<1>5. \A i \in DOMAIN stack' : stack'[i][1] \in Live'
  BY <1>1, <1>2, <1>3
<1>6. \A i, j \in DOMAIN stack' : stack'[i][1] = stack'[j][1] => i = j
  BY <1>1, <1>3
<1>7. \A i \in DOMAIN stack' : i # 1 => stack'[i][2] = "closing"
  BY <1>1, <1>3
<1>8. \A j \in Live : conns'[j].state = conns[j].state
  BY DEF Live
<1>9. \A j \in Live' : conns'[j].state = "CONNECTING" \/ \E i \in DOMAIN stack' : stack'[i][1] = j
  BY <1>1, <1>2, <1>3, <1>8
<1> QED BY <1>2, <1>4, <1>5, <1>6, <1>7, <1>9 DEF Nested

\* The innermost call returns, its connection under way or closed.
LEMMA NestedReturn ==
  ASSUME Typed, Nested, stack # <<>>, stack' = Tail(stack), DOMAIN conns' = DOMAIN conns,
         \A j \in DOMAIN conns : j # k => conns'[j].state = conns[j].state,
         conns'[k].state \in {"CONNECTING", "FREE"}
  PROVE  Nested' /\ k \in Live /\ ~At("socket")' /\ ~At("bind")' /\ ~At("connect")' /\ ~At("failed")'
<1>1. /\ 1 \in DOMAIN stack /\ stack[1][1] = k /\ stack' \in Seq(Frame)
      /\ \A i \in DOMAIN stack' : i + 1 \in DOMAIN stack /\ i + 1 # 1 /\ stack'[i] = stack[i + 1]
      /\ \A i \in DOMAIN stack : i # 1 => i - 1 \in DOMAIN stack' /\ stack'[i - 1] = stack[i]
      /\ \A i, j \in DOMAIN stack' : i + 1 = j + 1 => i = j
  BY Returns DEF k
<1>2. /\ \A i \in DOMAIN stack : stack[i][1] \in Live
      /\ \A i, j \in DOMAIN stack : stack[i][1] = stack[j][1] => i = j
      /\ \A i \in DOMAIN stack : i # 1 => stack[i][2] = "closing"
      /\ \A j \in Live : conns[j].state = "CONNECTING" \/ \E i \in DOMAIN stack : stack[i][1] = j
  BY DEF Nested
<1>3. k \in Live
  BY <1>1, <1>2
<1>4. \A i \in DOMAIN stack' : stack'[i][1] # k /\ stack'[i][1] \in Live /\ stack'[i][2] = "closing"
  BY <1>1, <1>2
<1>5. \A j \in DOMAIN conns : j # k => (j \in Live' <=> j \in Live)
  BY DEF Live
<1>6. Live \subseteq DOMAIN conns /\ Live' \subseteq DOMAIN conns
  BY DEF Live
<1>7. \A i \in DOMAIN stack' : stack'[i][1] \in Live'
  BY <1>4, <1>5, <1>6
<1>8. \A i, j \in DOMAIN stack' : stack'[i][1] = stack'[j][1] => i = j
  BY <1>1, <1>2
<1>9. \A j \in Live' : conns'[j].state = "CONNECTING" \/ \E i \in DOMAIN stack' : stack'[i][1] = j
  <2>1. k \in Live' => conns'[k].state = "CONNECTING"
    BY DEF Live
  <2>2. \A i \in DOMAIN stack : stack[i][1] # k => \E l \in DOMAIN stack' : stack'[l][1] = stack[i][1]
    BY <1>1
  <2>3. \A j \in Live : j # k =>
          conns[j].state = "CONNECTING" \/ \E l \in DOMAIN stack' : stack'[l][1] = j
    BY <1>2, <2>2
  <2> QED BY <1>5, <1>6, <2>1, <2>3
<1>10. \A i \in DOMAIN stack' : i # 1 => stack'[i][2] = "closing"
  BY <1>4
<1>11. stack' # <<>> => stack'[1][2] = "closing"
  <2>1. stack' # <<>> => 1 \in DOMAIN stack'
    BY <1>1
  <2> QED BY <1>4, <2>1
<1> QED BY <1>3, <1>7, <1>8, <1>9, <1>10, <1>11 DEF Nested, At

\* The lowest descriptor that is free, for socket
LEMMA FreshFd ==
  ASSUME Typed
  PROVE  NewFd \in Nat /\ NewFd \notin fds /\ IsFiniteSet(fds \union {NewFd})
<1> DEFINE free == Nat \ fds
<1>1. fds \subseteq Nat /\ IsFiniteSet(fds) /\ Cardinality(fds) \in Nat
  BY FS_CardinalityType DEF Typed
<1>2. free # {}
  <2> SUFFICES ASSUME free = {} PROVE FALSE
    OBVIOUS
  <2>1. 0..Cardinality(fds) \in SUBSET fds
    BY <1>1
  <2>2. Cardinality(0..Cardinality(fds)) = Cardinality(fds) + 1
    BY <1>1, FS_Interval
  <2>3. Cardinality(0..Cardinality(fds)) <= Cardinality(fds)
    BY <1>1, <2>1, FS_Subset
  <2> QED BY <1>1, <2>2, <2>3
<1> HIDE DEF free
<1>3. PICK d \in free : \A m \in free : d <= m
  <2>1. free \subseteq Nat
    BY DEF free
  <2> QED BY <1>2, <2>1, LeastNumber
<1>4. d \in Nat /\ d \notin fds /\ \A f \in 0..(d - 1) : f \in fds
  BY <1>3 DEF free
<1>5. d \in 0..Cardinality(fds)
  <2>1. 0..(d - 1) \in SUBSET fds
    BY <1>4
  <2>2. Cardinality(0..(d - 1)) <= Cardinality(fds)
    BY <1>1, <2>1, FS_Subset
  <2>3. Cardinality(0..(d - 1)) = d
    BY <1>4, FS_Interval
  <2> QED BY <1>1, <1>4, <2>2, <2>3
<1>6. NewFd \in Nat /\ NewFd \notin fds
  BY <1>1, <1>4, <1>5 DEF NewFd
<1> QED BY <1>1, <1>6, FS_AddElement

\* connect_fails, core_close: a port is put back into the pool of its address.
LEMMA PutKeeps ==
  ASSUME Typed, Gathered, NEW j \in DOMAIN conns
  PROVE  /\ ReturnPort(j) \in [Addresses -> Pool]
         /\ \A a \in Addresses : pool[a] \in Pool
         /\ \A a \in Addresses : \A p \in Ports :
              p \in ReturnPort(j)[a].free <=> p \in pool[a].free \/ (conns[j].myaddr = a /\ conns[j].myport = p)
<1>1. pool \in [Addresses -> Pool] /\ conns[j] \in Conn
  BY DEF Typed
<1>0. None \notin Ports
  BY PoolAssumption DEF Ports, None
<1>2. CASE conns[j].myport = None
  BY <1>0, <1>1, <1>2 DEF ReturnPort
<1>3. CASE conns[j].myport # None
  <2>1. conns[j].myaddr \in Addresses
    BY <1>1, <1>3 DEF Gathered
  <2>2. \A a \in Addresses : /\ port_put(pool[a], conns[j].myport) \in Pool
                             /\ port_put(pool[a], conns[j].myport).free
                                  = pool[a].free \union ({conns[j].myport} \intersect Ports)
    BY <1>1 DEF port_put, Pool
  <2>3. ReturnPort(j) = [pool EXCEPT ![conns[j].myaddr] = port_put(@, conns[j].myport)]
    BY <1>3 DEF ReturnPort
  <2> QED BY <1>1, <2>1, <2>2, <2>3
<1> QED BY <1>2, <1>3

LEMMA CallsSocketFails == Calls /\ socket_fails => Calls'
<1> SUFFICES ASSUME Calls, socket_fails PROVE Calls'
  OBVIOUS
<1>1. Typed /\ Nested /\ Gathered /\ stack # <<>>
  BY DEF Calls, socket_fails, At
<1>2. Goto("failed") /\ UNCHANGED <<opt, table, current, pool, last, conns>>
  BY DEF socket_fails, Fail, names
<1>3. fds' \in SUBSET Nat /\ IsFiniteSet(fds')
  BY <1>1, FreshFd DEF socket_fails, Typed
<1>4. Conn' = Conn /\ Addresses' = Addresses
  BY <1>2, Settled
<1>5. stack' \in Seq(Frame) /\ ~At("socket")' /\ ~At("bind")' /\ ~At("connect")'
  BY <1>1, <1>2, GoesOn
<1>6. Typed'
  BY <1>1, <1>2, <1>3, <1>4, <1>5 DEF Typed
<1>7. Nested'
  BY <1>1, <1>2, NestedOn
<1>8. Gathered'
  BY <1>1, <1>2, <1>4, <1>5 DEF Gathered
<1> QED BY <1>6, <1>7, <1>8 DEF Calls

LEMMA CallsSocket == Calls /\ socket => Calls'
<1> SUFFICES ASSUME Calls, socket PROVE Calls'
  OBVIOUS
<1> DEFINE sin == hash_lookup(conns[k].hostname)
<1>1. Typed /\ Nested /\ Gathered /\ stack # <<>> /\ At("socket") /\ k \in Live
  <2>1. Typed /\ Nested /\ Gathered /\ stack # <<>> /\ At("socket")
    BY DEF Calls, socket, At
  <2>2. 1 \in DOMAIN stack
    BY <2>1 DEF Typed
  <2> QED BY <2>1, <2>2 DEF Nested, k
<1>2. UNCHANGED <<opt, table, current, pool>> /\ fds' = fds \union {NewFd}
  BY DEF socket, names
<1>3. fds' \in SUBSET Nat /\ IsFiniteSet(fds') /\ NewFd \in Nat
  BY <1>1, <1>2, FreshFd DEF Typed
<1>4. Conn' = Conn /\ Addresses' = Addresses
  BY <1>2, Settled
<1>5. /\ conns[k].state = "INITIAL" /\ conns[k].myport = None
      /\ conns[k] \in Conn /\ conns \in Seq(Conn) /\ k \in DOMAIN conns
      /\ last \in Addresses /\ opt.addresses \in Nat \ {0}
  BY <1>1, OptionsAssumption DEF Gathered, Typed, Live
<1>6. last \in 0..opt.addresses /\ NextAddress \in Addresses /\ Addresses \subseteq 0..opt.addresses
  BY <1>5 DEF NextAddress, Addresses
<1>7. CASE sin = ""
  <2> DEFINE c == [conns[k] EXCEPT !.sd = NewFd]
  <2>1. conns' = [conns EXCEPT ![k] = c] /\ Goto("failed") /\ last' = last
    BY <1>7 DEF socket, Fail
  <2>2. c \in Conn /\ c.state = "INITIAL" /\ c.myport = None
    BY <1>3, <1>5 DEF Conn
  <2> HIDE DEF c
  <2>3. /\ conns' \in Seq(Conn) /\ DOMAIN conns' = DOMAIN conns /\ conns'[k] = c
        /\ \A i \in DOMAIN conns : i # k => conns'[i] = conns[i]
    BY <1>1, <1>5, <2>1, <2>2, Changes
  <2>4. stack' \in Seq(Frame) /\ ~At("socket")' /\ ~At("bind")' /\ ~At("connect")'
    BY <1>1, <2>1, GoesOn
  <2>5. Typed'
    BY <1>1, <1>2, <1>3, <1>4, <1>5, <2>1, <2>3, <2>4 DEF Typed
  <2>6. Nested'
    BY <1>1, <1>5, <2>1, <2>2, <2>3, NestedOn
  <2>7. Gathered'
    BY <1>1, <1>2, <1>4, <2>2, <2>3, <2>4 DEF Gathered
  <2> QED BY <2>5, <2>6, <2>7 DEF Calls
<1>8. CASE sin # ""
  <2> DEFINE c == [conns[k] EXCEPT !.sd = NewFd, !.sin = sin, !.myaddr = last]
  <2> DEFINE w == IF opt.hog THEN "bind" ELSE "connect"
  <2>1. conns' = [conns EXCEPT ![k] = c] /\ Goto(w) /\ last' = NextAddress
    BY <1>8 DEF socket
  <2>2. c \in Conn /\ c.state = "INITIAL" /\ c.myport = None /\ c.myaddr = last
    BY <1>3, <1>5, <1>6 DEF Conn
  <2> HIDE DEF c
  <2>3. /\ conns' \in Seq(Conn) /\ DOMAIN conns' = DOMAIN conns /\ conns'[k] = c
        /\ \A i \in DOMAIN conns : i # k => conns'[i] = conns[i]
    BY <1>1, <1>5, <2>1, <2>2, Changes
  <2>4. stack' \in Seq(Frame) /\ ~At("socket")' /\ k' = k
        /\ (At("bind")' => opt.hog)
    BY <1>1, <2>1, GoesOn
  <2>5. Typed'
    BY <1>1, <1>2, <1>3, <1>4, <1>6, <2>1, <2>3, <2>4 DEF Typed
  <2>6. Nested'
    BY <1>1, <1>5, <2>1, <2>2, <2>3, NestedOn
  <2>7. Gathered'
    <3>1. \A j \in DOMAIN conns' : conns'[j].myport # None => opt'.hog /\ conns'[j].myaddr \in Addresses'
      BY <1>1, <1>2, <1>4, <2>2, <2>3 DEF Gathered
    <3> QED BY <1>2, <1>4, <1>5, <2>2, <2>3, <2>4, <3>1 DEF Gathered
  <2> QED BY <2>5, <2>6, <2>7 DEF Calls
<1> QED BY <1>7, <1>8

LEMMA CallsBind == Calls /\ bind => Calls'
<1> SUFFICES ASSUME Calls, bind PROVE Calls'
  OBVIOUS
<1> DEFINE a == conns[k].myaddr
<1> DEFINE p == Got(pool[a])
<1>1. Typed /\ Nested /\ Gathered /\ stack # <<>> /\ At("bind") /\ k \in Live
  <2>1. Typed /\ Nested /\ Gathered /\ stack # <<>> /\ At("bind")
    BY DEF Calls, bind, At
  <2>2. 1 \in DOMAIN stack
    BY <2>1 DEF Typed
  <2> QED BY <2>1, <2>2 DEF Nested, k
<1>2. UNCHANGED <<opt, table, current, last, fds>>
  BY DEF bind, names, kernel
<1>3. Conn' = Conn /\ Addresses' = Addresses
  BY <1>2, Settled
<1>4. /\ conns[k].state = "INITIAL" /\ a \in Addresses /\ opt.hog
      /\ conns[k] \in Conn /\ k \in DOMAIN conns /\ pool[a] \in Pool
  BY <1>1 DEF Gathered, Typed, Live
<1>5. CASE UNCHANGED conns /\ pool' \in [Addresses -> Pool] /\ stack' = stack
  BY <1>1, <1>2, <1>3, <1>5 DEF Calls, Typed, Nested, Gathered, Live, At, k
<1>6. CASE UNCHANGED conns /\ pool' \in [Addresses -> Pool] /\ Goto("failed")
  <2>1. stack' \in Seq(Frame) /\ ~At("socket")' /\ ~At("bind")' /\ ~At("connect")'
    BY <1>1, <1>6, GoesOn
  <2>2. Typed'
    BY <1>1, <1>2, <1>3, <1>6, <2>1 DEF Typed
  <2>3. Nested'
    BY <1>1, <1>6, NestedOn
  <2>4. Gathered'
    BY <1>1, <1>2, <1>3, <1>6, <2>1 DEF Gathered
  <2> QED BY <2>2, <2>3, <2>4 DEF Calls
<1>7. CASE /\ conns' = [conns EXCEPT ![k].myport = p] /\ p \in Ports \union {-1}
           /\ pool' \in [Addresses -> Pool] /\ Goto("connect")
  <2> DEFINE c == [conns[k] EXCEPT !.myport = p]
  <2>1. c \in Conn /\ c.state = "INITIAL" /\ c.myaddr = a /\ conns' = [conns EXCEPT ![k] = c]
    BY <1>4, <1>7 DEF Conn
  <2> HIDE DEF c
  <2>2. /\ conns' \in Seq(Conn) /\ DOMAIN conns' = DOMAIN conns /\ conns'[k] = c
        /\ \A i \in DOMAIN conns : i # k => conns'[i] = conns[i]
    BY <1>1, <1>4, <2>1, Changes
  <2>3. stack' \in Seq(Frame) /\ ~At("socket")' /\ ~At("bind")' /\ k' = k
    BY <1>1, <1>7, GoesOn
  <2>4. Typed'
    BY <1>1, <1>2, <1>3, <1>7, <2>2, <2>3 DEF Typed
  <2>5. Nested'
    BY <1>1, <1>4, <1>7, <2>1, <2>2, NestedOn
  <2>6. Gathered'
    <3>1. \A j \in DOMAIN conns' : conns'[j].myport # None => opt'.hog /\ conns'[j].myaddr \in Addresses'
      BY <1>1, <1>2, <1>3, <1>4, <2>1, <2>2 DEF Gathered
    <3> QED BY <2>1, <2>2, <2>3, <3>1 DEF Gathered
  <2> QED BY <2>4, <2>5, <2>6 DEF Calls
<1>8. CASE TakenWord(pool[a]) = None
  BY <1>1, <1>6, <1>8 DEF bind, Fail, Typed
<1>9. CASE TakenWord(pool[a]) # None
  <2>1. port_get(pool[a]) \in Pool /\ p \in Ports \union {-1}
    BY <1>1, <1>4, <1>9, PortTaken DEF Typed
  <2>2. pool' \in [Addresses -> Pool]
    BY <1>1, <1>4, <1>9, <2>1 DEF bind, Typed
  <2> QED BY <1>5, <1>6, <1>7, <1>9, <2>1, <2>2 DEF bind, Fail
<1> QED BY <1>8, <1>9

LEMMA CallsConnect == Calls /\ connect => Calls'
<1> SUFFICES ASSUME Calls, connect PROVE Calls'
  OBVIOUS
<1> DEFINE c == [conns[k] EXCEPT !.state = "CONNECTING"]
<1>1. Typed /\ Nested /\ Gathered /\ stack # <<>> /\ At("connect") /\ k \in Live
  <2>1. Typed /\ Nested /\ Gathered /\ stack # <<>> /\ At("connect")
    BY DEF Calls, connect, At
  <2>2. 1 \in DOMAIN stack
    BY <2>1 DEF Typed
  <2> QED BY <2>1, <2>2 DEF Nested, k
<1>2. UNCHANGED <<opt, table, current, pool, last, fds>> /\ stack' = Tail(stack)
  BY DEF connect, names, kernel
<1>3. Conn' = Conn /\ Addresses' = Addresses
  BY <1>2, Settled
<1>4. conns[k] \in Conn /\ k \in DOMAIN conns /\ conns \in Seq(Conn)
  BY <1>1 DEF Typed, Live
<1>5. /\ c \in Conn /\ c.state = "CONNECTING" /\ conns' = [conns EXCEPT ![k] = c]
      /\ c.myport = conns[k].myport /\ c.myaddr = conns[k].myaddr
  BY <1>4 DEF connect, Conn
<1> HIDE DEF c
<1>6. /\ conns' \in Seq(Conn) /\ DOMAIN conns' = DOMAIN conns /\ conns'[k] = c
      /\ \A i \in DOMAIN conns : i # k => conns'[i] = conns[i]
  BY <1>1, <1>4, <1>5, Changes
<1>7. Nested' /\ ~At("socket")' /\ ~At("bind")' /\ ~At("connect")'
  BY <1>1, <1>2, <1>5, <1>6, NestedReturn
<1>8. stack' \in Seq(Frame)
  BY <1>1, <1>2, Returns
<1>9. Typed'
  BY <1>1, <1>2, <1>3, <1>6, <1>8 DEF Typed
<1>10. Gathered'
  BY <1>1, <1>2, <1>3, <1>5, <1>6, <1>7 DEF Gathered
<1> QED BY <1>7, <1>9, <1>10 DEF Calls

LEMMA CallsConnectFails == Calls /\ connect_fails => Calls'
<1> SUFFICES ASSUME Calls, connect_fails PROVE Calls'
  OBVIOUS
<1>1. Typed /\ Nested /\ Gathered /\ stack # <<>> /\ k \in DOMAIN conns
  <2>1. Typed /\ Nested /\ Gathered /\ stack # <<>>
    BY DEF Calls, connect_fails, At
  <2>2. 1 \in DOMAIN stack
    BY <2>1 DEF Typed
  <2> QED BY <2>1, <2>2 DEF Nested, k, Live
<1>2. UNCHANGED <<opt, table, current, last, conns, fds>> /\ Goto("failed") /\ pool' = ReturnPort(k)
  BY DEF connect_fails, names, kernel, Fail, ReturnPort
<1>3. Conn' = Conn /\ Addresses' = Addresses
  BY <1>2, Settled
<1>4. pool' \in [Addresses -> Pool]
  BY <1>1, <1>2, PutKeeps
<1>5. stack' \in Seq(Frame) /\ ~At("socket")' /\ ~At("bind")' /\ ~At("connect")'
  BY <1>1, <1>2, GoesOn
<1>6. Typed'
  BY <1>1, <1>2, <1>3, <1>4, <1>5 DEF Typed
<1>7. Nested'
  BY <1>1, <1>2, NestedOn
<1>8. Gathered'
  BY <1>1, <1>2, <1>3, <1>5 DEF Gathered
<1> QED BY <1>6, <1>7, <1>8 DEF Calls

\* core_close, by itself and at the end of conn_failure
LEMMA Closes ==
  ASSUME Typed, Gathered, NEW j \in Live, CloseConn(j)
  PROVE  /\ UNCHANGED <<opt, table, current, last>> /\ Conn' = Conn /\ Addresses' = Addresses
         /\ conns' \in Seq(Conn) /\ DOMAIN conns' = DOMAIN conns
         /\ conns'[j].state = "FREE" /\ conns'[j].myport = conns[j].myport
         /\ conns'[j].myaddr = conns[j].myaddr
         /\ \A i \in DOMAIN conns : i # j => conns'[i] = conns[i]
         /\ Live' = Live \ {j} /\ fds' = fds \ {conns[j].sd} /\ pool' = ReturnPort(j)
         /\ pool' \in [Addresses -> Pool] /\ fds' \in SUBSET Nat /\ IsFiniteSet(fds')
<1> DEFINE c == [conns[j] EXCEPT !.state = "FREE", !.sd = None]
<1>1. UNCHANGED <<opt, table, current, last>> /\ fds' = fds \ {conns[j].sd} /\ pool' = ReturnPort(j)
  BY DEF CloseConn, names
<1>2. Conn' = Conn /\ Addresses' = Addresses
  BY <1>1, Settled
<1>3. j \in DOMAIN conns /\ conns[j] \in Conn
  BY DEF Live, Typed
<1>4. /\ c \in Conn /\ c.state = "FREE" /\ c.myport = conns[j].myport /\ c.myaddr = conns[j].myaddr
      /\ conns' = [conns EXCEPT ![j] = c]
  BY <1>3 DEF CloseConn, Conn
<1> HIDE DEF c
<1>5. /\ conns' \in Seq(Conn) /\ DOMAIN conns' = DOMAIN conns /\ conns'[j] = c /\ Live' = Live \ {j}
      /\ \A i \in DOMAIN conns : i # j => conns'[i] = conns[i]
  BY <1>3, <1>4, Changes
<1>6. pool' \in [Addresses -> Pool]
  BY <1>1, <1>3, PutKeeps
<1>7. fds' \in SUBSET Nat /\ IsFiniteSet(fds')
  BY <1>1, FS_Difference DEF Typed
<1> QED BY <1>1, <1>2, <1>4, <1>5, <1>6, <1>7

LEMMA CallsClose == Calls /\ core_close => Calls'
<1> SUFFICES ASSUME Calls, core_close PROVE Calls'
  OBVIOUS
<1>1. Typed /\ Nested /\ Gathered /\ stack = <<>> /\ stack' = stack
  BY DEF Calls, core_close
<1>2. PICK j \in Live : CloseConn(j)
  BY DEF core_close
<1>3. /\ UNCHANGED <<opt, table, current, last>> /\ Conn' = Conn /\ Addresses' = Addresses
      /\ conns' \in Seq(Conn) /\ DOMAIN conns' = DOMAIN conns
      /\ conns'[j].myport = conns[j].myport /\ conns'[j].myaddr = conns[j].myaddr
      /\ \A i \in DOMAIN conns : i # j => conns'[i] = conns[i]
      /\ Live' = Live \ {j}
      /\ pool' \in [Addresses -> Pool] /\ fds' \in SUBSET Nat /\ IsFiniteSet(fds')
  BY <1>1, <1>2, Closes
<1>4. Typed'
  BY <1>1, <1>3 DEF Typed
<1>5. \A i \in Live' : conns'[i].state = "CONNECTING"
  <2>1. \A i \in Live : conns[i].state = "CONNECTING" /\ i \in DOMAIN conns
    BY <1>1 DEF Nested, Live
  <2> QED BY <1>3, <2>1
<1>6. Nested'
  BY <1>1, <1>5 DEF Nested
<1>7. Gathered'
  BY <1>1, <1>3 DEF Gathered, At
<1> QED BY <1>4, <1>6, <1>7 DEF Calls

LEMMA CallsFailureCloses == Calls /\ conn_failure_closes => Calls'
<1> SUFFICES ASSUME Calls, conn_failure_closes PROVE Calls'
  OBVIOUS
<1>1. Typed /\ Nested /\ Gathered /\ stack # <<>> /\ stack' = Tail(stack) /\ k \in Live /\ CloseConn(k)
  <2>1. Typed /\ Nested /\ Gathered /\ stack # <<>>
    BY DEF Calls, conn_failure_closes, At
  <2>2. 1 \in DOMAIN stack
    BY <2>1 DEF Typed
  <2> QED BY <2>1, <2>2 DEF Nested, k, conn_failure_closes
<1>2. /\ UNCHANGED <<opt, table, current, last>> /\ Conn' = Conn /\ Addresses' = Addresses
      /\ conns' \in Seq(Conn) /\ DOMAIN conns' = DOMAIN conns /\ conns'[k].state = "FREE"
      /\ conns'[k].myport = conns[k].myport /\ conns'[k].myaddr = conns[k].myaddr
      /\ \A i \in DOMAIN conns : i # k => conns'[i] = conns[i]
      /\ pool' \in [Addresses -> Pool] /\ fds' \in SUBSET Nat /\ IsFiniteSet(fds')
  BY <1>1, Closes
<1>3. Nested' /\ ~At("socket")' /\ ~At("bind")' /\ ~At("connect")'
  BY <1>1, <1>2, NestedReturn
<1>4. stack' \in Seq(Frame)
  BY <1>1, Returns
<1>5. Typed'
  BY <1>1, <1>2, <1>4 DEF Typed
<1>6. Gathered'
  BY <1>1, <1>2, <1>3 DEF Gathered
<1> QED BY <1>3, <1>5, <1>6 DEF Calls

LEMMA CallsFailure == Calls /\ conn_failure => Calls'
<1> SUFFICES ASSUME Calls, conn_failure PROVE Calls'
  OBVIOUS
<1>1. Typed /\ Nested /\ Gathered /\ stack = <<>>
      /\ UNCHANGED <<opt, table, current, pool, last, conns, fds>>
  BY DEF Calls, conn_failure, names, kernel
<1>2. PICK j \in Live : stack' = <<<<j, "failed">>>>
  BY DEF conn_failure
<1>3. Conn' = Conn /\ Addresses' = Addresses /\ Live' = Live
  BY <1>1, Settled DEF Live
<1>4. j \in Nat \ {0}
  BY <1>1 DEF Typed, Live
<1>5. <<j, "failed">> \in Frame
  BY <1>4 DEF Frame
<1>6. stack' \in Seq(Frame) /\ DOMAIN stack' = {1} /\ stack'[1][1] = j /\ stack'[1][2] = "failed"
  BY <1>2, <1>5
<1>7. Typed'
  BY <1>1, <1>3, <1>6 DEF Typed
<1>8. \A i \in Live : conns[i].state = "CONNECTING"
  BY <1>1 DEF Nested
<1>9. Nested'
  BY <1>1, <1>3, <1>6, <1>8 DEF Nested
<1>10. Gathered'
  BY <1>1, <1>3, <1>6 DEF Gathered, At
<1> QED BY <1>7, <1>9, <1>10 DEF Calls

\* The call of conn_failure whose handler opens a connection waits, as those below it do.
LEMMA Waiting ==
  ASSUME Typed, Nested, At("failed"), NewConn(<<<<k, "closing">>>> \o Tail(stack))
  PROVE  \E below \in Seq(Frame) :
           /\ NewConn(below) /\ DOMAIN below = DOMAIN stack
           /\ \A i \in DOMAIN stack : below[i][1] = stack[i][1] /\ below[i][2] = "closing"
<1> DEFINE rest == Tail(stack)
<1> DEFINE top == <<k, "closing">>
<1> DEFINE below == <<top>> \o rest
<1>1. stack # <<>> /\ stack \in Seq(Frame)
  BY DEF Typed, At
<1>2. Len(stack) \in Nat \ {0} /\ stack[1] \in Frame
  BY <1>1
<1>3. top \in Frame /\ stack[1][1] = k /\ top[1] = k /\ top[2] = "closing"
  BY <1>2 DEF Frame, k
<1>4. rest \in Seq(Frame) /\ Len(rest) = Len(stack) - 1 /\ \A i \in 1..Len(rest) : rest[i] = stack[i + 1]
  BY <1>1, <1>2
<1> HIDE DEF top, rest
<1>5. below \in Seq(Frame) /\ Len(below) = Len(stack) /\ below[1] = top
      /\ \A i \in 2..Len(stack) : below[i] = stack[i]
  BY <1>2, <1>3, <1>4
<1> HIDE DEF below
<1>6. DOMAIN below = DOMAIN stack /\ \A i \in DOMAIN stack : i # 1 => below[i] = stack[i]
  BY <1>1, <1>2, <1>5
<1>7. \A i \in DOMAIN stack : below[i][1] = stack[i][1] /\ below[i][2] = "closing"
  BY <1>3, <1>5, <1>6 DEF Nested
<1>8. NewConn(below)
  BY DEF below, top, rest
<1> QED BY <1>5, <1>6, <1>7, <1>8

LEMMA CallsStep == Calls /\ [Next]_vars => Calls'
<1> SUFFICES ASSUME Calls, [Next]_vars PROVE Calls'
  OBVIOUS
<1>1. CASE UNCHANGED <<opt, names, pool, last, conns, stack, fds>>
  <2>1. Conn' = Conn /\ Addresses' = Addresses
    BY <1>1, Settled DEF names
  <2> QED BY <1>1, <2>1 DEF Calls, Typed, Nested, Gathered, Live, At, k, names
<1>2. CASE Connect
  <2>1. NewConn(stack) /\ stack = <<>> /\ stack \in Seq(Frame)
    BY <1>2 DEF Connect, Calls, Typed
  <2>2. \A i \in DOMAIN stack : stack[i][1] = stack[i][1] /\ stack[i][2] = "closing"
    BY <2>1
  <2> QED BY <2>1, <2>2, CallsOpen
<1>3. CASE Reconnect
  <2>1. PICK below \in Seq(Frame) : /\ NewConn(below) /\ DOMAIN below = DOMAIN stack
                                    /\ \A i \in DOMAIN stack : below[i][1] = stack[i][1] /\ below[i][2] = "closing"
    BY <1>3, Waiting DEF Calls, Reconnect
  <2> QED BY <2>1, CallsOpen
<1>4. CASE Idle \/ PortExpires \/ UNCHANGED vars
  BY <1>1, <1>4 DEF Idle, PortExpires, vars, names, kernel
<1>5. CASE socket_fails \/ socket \/ bind \/ connect \/ connect_fails
  BY <1>5, CallsSocketFails, CallsSocket, CallsBind, CallsConnect, CallsConnectFails
<1>6. CASE core_close \/ conn_failure \/ conn_failure_closes
  BY <1>6, CallsClose, CallsFailure, CallsFailureCloses
<1> QED BY <1>2, <1>3, <1>4, <1>5, <1>6 DEF Next

\* The calls of core_connect and conn_failure nest, and a connection is handed from one
\* step of core_connect to the next, in every reachable state.
THEOREM CallsInductive == Spec => []Calls
BY CallsInit, CallsStep, PTL DEF Spec

\* port_get reports that it is out of port numbers only when no more than a word of
\* them is free, those of the present word (core.c).
THEOREM PortsUsedUp == Spec => []OutOfPortsLate
<1>1. Init => OutOfPortsLate
  BY DEF Init, OutOfPortsLate
<1>2. Calls /\ [Next]_vars /\ OutOfPortsLate => OutOfPortsLate'
  <2> SUFFICES ASSUME Calls, [Next]_vars, OutOfPortsLate, error' = "out of ports"
               PROVE  Cardinality(pool'[conns'[k'].myaddr].free) <= Bits
    BY DEF OutOfPortsLate
  <2>1. CASE UNCHANGED vars
    BY <2>1 DEF OutOfPortsLate, vars, k
  <2>2. CASE Next
    <3>1. bind \/ UNCHANGED vars
      BY <2>2 DEF Next, Connect, Reconnect, NewConn, socket_fails, socket, connect, connect_fails, Fail,
                  core_close, conn_failure, conn_failure_closes, CloseConn, PortExpires, Idle
    <3>2. CASE bind
      <4> DEFINE addr == pool[conns[k].myaddr]
      <4>1. TakenWord(addr) = None /\ UNCHANGED <<pool, conns>> /\ Goto("failed")
        BY <3>2 DEF bind, Fail
      <4>2. Typed /\ stack # <<>> /\ At("bind")
        BY <3>2 DEF bind, At, Calls
      <4>3. addr \in Pool
        BY <4>2 DEF Calls, Typed, Gathered
      <4>4. k' = k
        BY <4>1, <4>2, GoesOn
      <4>5. Cardinality(addr.free) <= Bits
        BY <4>1, <4>3, NoWordLeft
      <4> QED BY <4>1, <4>4, <4>5
    <3> QED BY <3>1, <3>2, <2>1
  <2> QED BY <2>1, <2>2
<1> QED BY <1>1, <1>2, CallsInductive, PTL DEF Spec

-----------------------------------------------------------------------------
(* Descriptors *)

LEMMA InnermostLive == Calls /\ stack # <<>> => k \in Live /\ k \in DOMAIN conns /\ conns[k] \in Conn
<1> SUFFICES ASSUME Calls, stack # <<>> PROVE k \in Live /\ k \in DOMAIN conns /\ conns[k] \in Conn
  OBVIOUS
<1>1. 1 \in DOMAIN stack
  BY DEF Calls, Typed
<1> QED BY <1>1 DEF Calls, Nested, Typed, Live, k

\* No connection gets or loses a descriptor.
LEMMA FdsOn ==
  ASSUME Descriptors, fds' = fds,
         \A j \in Live' : conns'[j].sd # None => j \in Live /\ conns'[j].sd = conns[j].sd,
         \A j \in Live : conns[j].sd # None => j \in Live' /\ conns'[j].sd = conns[j].sd,
         None \notin fds
  PROVE  Descriptors'
<1>1. \A j \in Live' : conns'[j].sd # None => conns'[j].sd \in fds'
  BY DEF Descriptors
<1>2. \A d \in fds' : \E j \in Live' : conns'[j].sd = d
  BY DEF Descriptors
<1>3. \A i, j \in Live' : i # j /\ conns'[i].sd # None => conns'[i].sd # conns'[j].sd
  BY DEF Descriptors
<1> QED BY <1>1, <1>2, <1>3 DEF Descriptors

LEMMA FdsSocket == Calls /\ Descriptors /\ socket => Descriptors'
<1> SUFFICES ASSUME Calls, Descriptors, socket PROVE Descriptors'
  OBVIOUS
<1>1. /\ At("socket") /\ stack # <<>> /\ k \in Live /\ k \in DOMAIN conns /\ conns[k] \in Conn
      /\ conns[k].sd = None /\ conns[k].state = "INITIAL"
  BY InnermostLive DEF socket, At, Calls, Gathered
<1>2. NewFd \in Nat /\ NewFd \notin fds /\ None \notin Nat /\ fds' = fds \union {NewFd}
  <2>1. None \notin Nat
    BY DEF None
  <2>2. fds' = fds \union {NewFd}
    BY DEF socket
  <2> QED BY <2>1, <2>2, FreshFd DEF Calls
<1>3. \E c \in {[conns[k] EXCEPT !.sd = NewFd],
               [conns[k] EXCEPT !.sd = NewFd, !.sin = hash_lookup(conns[k].hostname), !.myaddr = last]} :
        conns' = [conns EXCEPT ![k] = c]
  BY DEF socket
<1>4. /\ DOMAIN conns' = DOMAIN conns /\ conns'[k].sd = NewFd /\ conns'[k].state = "INITIAL"
      /\ \A j \in DOMAIN conns : j # k => conns'[j] = conns[j]
  BY <1>1, <1>3 DEF Conn
<1>5. Live' = Live /\ Live \subseteq DOMAIN conns
  BY <1>1, <1>4 DEF Live
<1>6. \A j \in Live : j # k => conns'[j].sd = conns[j].sd
  BY <1>4, <1>5
<1>7. \A j \in Live' : conns'[j].sd # None => conns'[j].sd \in fds'
  BY <1>1, <1>2, <1>4, <1>5, <1>6 DEF Descriptors
<1>8. \A d \in fds : \E j \in Live : j # k /\ conns[j].sd = d
  BY <1>1, <1>2 DEF Descriptors, Calls, Typed
<1>9. \A d \in fds' : \E j \in Live' : conns'[j].sd = d
  BY <1>1, <1>2, <1>4, <1>5, <1>6, <1>8
<1>10. \A j \in Live : j # k => conns[j].sd # NewFd
  BY <1>2 DEF Descriptors
<1>11. \A i, j \in Live' : i # j /\ conns'[i].sd # None => conns'[i].sd # conns'[j].sd
  BY <1>4, <1>5, <1>6, <1>10 DEF Descriptors
<1> QED BY <1>7, <1>9, <1>11 DEF Descriptors

LEMMA FdsClose ==
  ASSUME Calls, Descriptors, NEW j \in Live, CloseConn(j)
  PROVE  Descriptors'
<1>1. /\ \A i \in DOMAIN conns : i # j => conns'[i] = conns[i]
      /\ Live' = Live \ {j} /\ fds' = fds \ {conns[j].sd} /\ Live \subseteq DOMAIN conns
  BY Closes DEF Calls, Live
<1>2. \A i \in Live' : i \in Live /\ i # j /\ conns'[i].sd = conns[i].sd
  BY <1>1
<1>3. \A i \in Live' : conns'[i].sd # None => conns'[i].sd \in fds'
  BY <1>1, <1>2 DEF Descriptors
<1>4. \A d \in fds' : \E i \in Live' : conns'[i].sd = d
  BY <1>1, <1>2 DEF Descriptors
<1>5. \A i, l \in Live' : i # l /\ conns'[i].sd # None => conns'[i].sd # conns'[l].sd
  BY <1>2 DEF Descriptors
<1> QED BY <1>3, <1>4, <1>5 DEF Descriptors

-----------------------------------------------------------------------------
(* Ports *)

\* A step leaves opt as it is: the ports are the same.
LEMMA SurePorts ==
  ASSUME opt' = opt
  PROVE  Sure' = Sure /\ Addresses' = Addresses /\ Sure \subseteq Ports /\ None \notin Sure
<1>1. None \notin Ports
  BY PoolAssumption DEF Ports, None
<1> QED BY <1>1 DEF Sure, Mistaken, Addresses

\* No connection gets or loses a port.
LEMMA PortsOn ==
  ASSUME PortsKept, UNCHANGED <<opt, pool, rejected>>,
         \A j \in Live' : conns'[j].myport # None => /\ j \in Live /\ conns'[j].myport = conns[j].myport
                                                     /\ conns'[j].myaddr = conns[j].myaddr,
         \A j \in Live : conns[j].myport # None => /\ j \in Live' /\ conns'[j].myport = conns[j].myport
                                                   /\ conns'[j].myaddr = conns[j].myaddr,
         \A j \in Live : conns[j].myport # None /\ Twice(j) => Twice(j)'
  PROVE  PortsKept'
<1>0. Addresses' = Addresses /\ Sure' = Sure /\ None \notin Sure
  BY SurePorts
<1>1. \A i, j \in Live' : i # j /\ conns'[i].myport # None /\ conns'[i].myport = conns'[j].myport
        => conns'[i].myaddr # conns'[j].myaddr
  BY DEF PortsKept, PortsHeld
<1>2. \A j \in Live' : conns'[j].myport \in Sure' =>
        \/ Twice(j)'
        \/ /\ <<conns'[j].myaddr, conns'[j].myport>> \notin rejected'
           /\ conns'[j].myport \notin pool'[conns'[j].myaddr].free
  <2> TAKE j \in Live'
  <2> HAVE conns'[j].myport \in Sure'
  <2>1. conns'[j].myport \in Sure /\ conns'[j].myport # None
    BY <1>0
  <2>2. j \in Live /\ conns'[j].myport = conns[j].myport /\ conns'[j].myaddr = conns[j].myaddr
    BY <2>1
  <2>3. \/ Twice(j)
        \/ /\ <<conns[j].myaddr, conns[j].myport>> \notin rejected
           /\ conns[j].myport \notin pool[conns[j].myaddr].free
    BY <2>1, <2>2 DEF PortsKept, PortsHeld
  <2> QED BY <2>1, <2>2, <2>3
<1>3. \A a \in Addresses' : \A p \in Sure' :
        /\ <<a, p>> \in rejected' => p \notin pool'[a].free
        /\ \/ p \in pool'[a].free \/ <<a, p>> \in rejected'
           \/ \E j \in Live' : conns'[j].myaddr = a /\ conns'[j].myport = p
  <2> TAKE a \in Addresses'
  <2> TAKE p \in Sure'
  <2>1. /\ <<a, p>> \in rejected => p \notin pool[a].free
        /\ \/ p \in pool[a].free \/ <<a, p>> \in rejected
           \/ \E j \in Live : conns[j].myaddr = a /\ conns[j].myport = p
    BY <1>0 DEF PortsKept, PortsSplit
  <2>2. \A j \in Live : conns[j].myaddr = a /\ conns[j].myport = p
          => j \in Live' /\ conns'[j].myaddr = a /\ conns'[j].myport = p
    BY <1>0
  <2> QED BY <2>1, <2>2
<1> QED BY <1>1, <1>2, <1>3 DEF PortsKept, PortsHeld, PortsSplit

\* The connection at hand goes on, so it is not the one that is closed twice; those that
\* are keep their state and their place on the stack.
LEMMA TwiceOn ==
  ASSUME Calls, stack # <<>>, NEW w \in {"bind", "connect", "failed"}, Goto(w), ~At("failed"), ~At("closing"),
         \A j \in DOMAIN conns : j # k => conns'[j] = conns[j]
  PROVE  /\ ~Twice(k)
         /\ \A j \in Live : Twice(j) => Twice(j)'
<1>1. /\ 1 \in DOMAIN stack /\ DOMAIN stack' = DOMAIN stack /\ stack[1][1] = k
      /\ \A i \in DOMAIN stack : i # 1 => stack'[i] = stack[i]
  BY GoesOn DEF Calls, k
<1>2. stack[1][2] \notin {"failed", "closing"}
  BY DEF At
<1>3. \A i \in DOMAIN stack : stack[i][1] = k => i = 1
  BY <1>1 DEF Calls, Nested
<1>4. ~Twice(k)
  BY <1>2, <1>3 DEF Twice
<1>5. ASSUME NEW j \in Live, Twice(j) PROVE Twice(j)'
  <2>1. PICK i \in DOMAIN stack : stack[i][1] = j /\ stack[i][2] \in {"failed", "closing"}
    BY <1>5 DEF Twice
  <2>2. i # 1 /\ j # k
    BY <1>1, <1>2, <1>4, <1>5, <2>1
  <2>3. conns'[j] = conns[j]
    BY <2>2 DEF Live
  <2> QED BY <1>1, <1>5, <2>1, <2>2, <2>3 DEF Twice
<1> QED BY <1>4, <1>5

\* The innermost call returns: what is below it stays.
LEMMA TwiceReturn ==
  ASSUME Calls, stack # <<>>, stack' = Tail(stack),
         \A j \in DOMAIN conns : j # k => conns'[j] = conns[j]
  PROVE  \A j \in Live : j # k /\ Twice(j) => Twice(j)'
<1>1. /\ stack[1][1] = k
      /\ \A i \in DOMAIN stack : i # 1 => i - 1 \in DOMAIN stack' /\ stack'[i - 1] = stack[i]
  BY Returns DEF Calls, k
<1>2. ASSUME NEW j \in Live, j # k, Twice(j) PROVE Twice(j)'
  <2>1. PICK i \in DOMAIN stack : stack[i][1] = j /\ stack[i][2] \in {"failed", "closing"}
    BY <1>2 DEF Twice
  <2>2. i # 1 /\ conns'[j] = conns[j]
    BY <1>1, <1>2, <2>1 DEF Live
  <2> QED BY <1>1, <1>2, <2>1, <2>2 DEF Twice
<1> QED BY <1>2

LEMMA PortsOpen ==
  ASSUME Calls, PortsKept, NEW below \in Seq(Frame), NewConn(below), DOMAIN below = DOMAIN stack,
         \A i \in DOMAIN stack : below[i][1] = stack[i][1] /\ below[i][2] = "closing"
  PROVE  PortsKept'
<1> DEFINE n == Len(conns) + 1
<1>1. Typed /\ Nested /\ UNCHANGED <<opt, pool, rejected>>
  BY DEF Calls, NewConn
<1>2. /\ n \notin DOMAIN conns /\ conns'[n].myport = None
      /\ \A j \in DOMAIN conns : conns'[j] = conns[j]
      /\ Live' = Live \union {n} /\ Live \subseteq DOMAIN conns
  BY <1>1, Opens DEF Live
<1>3. /\ \A i \in DOMAIN stack : i + 1 \in DOMAIN stack' /\ stack'[i + 1][1] = stack[i][1]
      /\ \A i \in DOMAIN stack' \ {1} : stack'[i][2] = "closing"
  BY <1>1, Opens
<1> HIDE DEF n
<1>4. ASSUME NEW j \in Live, Twice(j) PROVE Twice(j)'
  <2>1. PICK i \in DOMAIN stack : stack[i][1] = j
    BY <1>4 DEF Twice
  <2>2. i + 1 # 1
    BY <1>1 DEF Typed
  <2>3. stack'[i + 1][1] = j /\ stack'[i + 1][2] = "closing" /\ i + 1 \in DOMAIN stack'
    BY <1>3, <2>1, <2>2
  <2>4. conns'[j].state = "INITIAL"
    BY <1>2, <1>4 DEF Twice
  <2> QED BY <2>3, <2>4 DEF Twice
<1> QED BY <1>1, <1>2, <1>4, PortsOn

LEMMA PortsSocketFails == Calls /\ PortsKept /\ socket_fails => PortsKept'
<1> SUFFICES ASSUME Calls, PortsKept, socket_fails PROVE PortsKept'
  OBVIOUS
<1>1. /\ stack # <<>> /\ UNCHANGED <<opt, conns, pool, rejected>> /\ Goto("failed") /\ Live' = Live
      /\ ~At("failed") /\ ~At("closing")
  BY DEF socket_fails, At, Fail, Live
<1>2. \A j \in Live : Twice(j) => Twice(j)'
  BY <1>1, TwiceOn
<1> QED BY <1>1, <1>2, PortsOn

LEMMA PortsSocket == Calls /\ PortsKept /\ socket => PortsKept'
<1> SUFFICES ASSUME Calls, PortsKept, socket PROVE PortsKept'
  OBVIOUS
<1>1. /\ stack # <<>> /\ At("socket") /\ k \in Live /\ k \in DOMAIN conns /\ conns[k] \in Conn
      /\ conns[k].myport = None /\ ~At("failed") /\ ~At("closing") /\ Live \subseteq DOMAIN conns
  BY InnermostLive DEF socket, At, Calls, Gathered, Live
<1>2. /\ UNCHANGED <<opt, pool, rejected>>
      /\ \E w \in {"bind", "connect", "failed"} : Goto(w)
      /\ \E c \in {[conns[k] EXCEPT !.sd = NewFd],
                   [conns[k] EXCEPT !.sd = NewFd, !.sin = hash_lookup(conns[k].hostname), !.myaddr = last]} :
           conns' = [conns EXCEPT ![k] = c]
  BY DEF socket, Fail
<1>3. PICK c \in {[conns[k] EXCEPT !.sd = NewFd],
                  [conns[k] EXCEPT !.sd = NewFd, !.sin = hash_lookup(conns[k].hostname), !.myaddr = last]} :
        conns' = [conns EXCEPT ![k] = c]
  BY <1>2
<1>4. c.myport = None /\ c.state = conns[k].state
  BY <1>1 DEF Conn
<1>5. /\ DOMAIN conns' = DOMAIN conns /\ conns'[k] = c
      /\ \A j \in DOMAIN conns : j # k => conns'[j] = conns[j]
  BY <1>1, <1>3
<1>6. Live' = Live
  BY <1>1, <1>4, <1>5 DEF Live
<1>7. \A j \in Live : Twice(j) => Twice(j)'
  BY <1>1, <1>2, <1>5, TwiceOn
<1>8. \A j \in Live : /\ conns'[j].myport = conns[j].myport
                      /\ conns[j].myport # None => conns'[j].myaddr = conns[j].myaddr
  BY <1>1, <1>4, <1>5
<1> QED BY <1>1, <1>2, <1>6, <1>7, <1>8, PortsOn

LEMMA PortsConnect == Calls /\ PortsKept /\ connect => PortsKept'
<1> SUFFICES ASSUME Calls, PortsKept, connect PROVE PortsKept'
  OBVIOUS
<1>1. /\ At("connect") /\ stack # <<>> /\ k \in Live /\ k \in DOMAIN conns /\ conns[k] \in Conn
      /\ ~At("failed") /\ Live \subseteq DOMAIN conns
  BY InnermostLive DEF connect, At, Live
<1>2. /\ UNCHANGED <<opt, pool, rejected>> /\ stack' = Tail(stack)
      /\ conns' = [conns EXCEPT ![k].state = "CONNECTING"]
  BY DEF connect
<1>3. /\ DOMAIN conns' = DOMAIN conns /\ \A j \in DOMAIN conns : j # k => conns'[j] = conns[j]
      /\ conns'[k].myport = conns[k].myport /\ conns'[k].myaddr = conns[k].myaddr
      /\ conns'[k].state = "CONNECTING"
  BY <1>1, <1>2 DEF Conn
<1>4. Live' = Live
  BY <1>1, <1>3 DEF Live
<1>5. ~Twice(k)
  <2>1. 1 \in DOMAIN stack /\ stack[1][1] = k /\ stack[1][2] = "connect"
    BY <1>1 DEF At, k, Calls, Typed
  <2> QED BY <2>1 DEF Twice, Calls, Nested
<1>6. \A j \in Live : Twice(j) => Twice(j)'
  BY <1>1, <1>2, <1>3, <1>5, TwiceReturn
<1> QED BY <1>1, <1>2, <1>3, <1>4, <1>6, PortsOn

LEMMA PortsFailure == Calls /\ PortsKept /\ conn_failure => PortsKept'
<1> SUFFICES ASSUME Calls, PortsKept, conn_failure PROVE PortsKept'
  OBVIOUS
<1>1. stack = <<>> /\ UNCHANGED <<opt, pool, conns, rejected>> /\ Live' = Live
  BY DEF conn_failure, Live
<1>2. \A j : ~Twice(j)
  BY <1>1 DEF Twice
<1> QED BY <1>1, <1>2, PortsOn

\* connect_fails puts a port back that core_close will put back again.
LEMMA PortsConnectFails == Calls /\ PortsKept /\ connect_fails => PortsKept'
<1> SUFFICES ASSUME Calls, PortsKept, connect_fails PROVE PortsKept'
  OBVIOUS
<1> DEFINE b == conns[k].myaddr
<1> DEFINE q == conns[k].myport
<1>1. /\ At("connect") /\ stack # <<>> /\ k \in Live /\ k \in DOMAIN conns /\ conns[k] \in Conn
      /\ ~At("failed") /\ ~At("closing") /\ Live \subseteq DOMAIN conns /\ conns[k].state = "INITIAL"
  BY InnermostLive DEF connect_fails, At, Calls, Live, Gathered
<1>2. UNCHANGED <<opt, conns, rejected>> /\ Goto("failed") /\ Live' = Live /\ pool' = ReturnPort(k)
  BY DEF connect_fails, Fail, Live, ReturnPort
<1>3. Sure' = Sure /\ Addresses' = Addresses /\ Sure \subseteq Ports /\ None \notin Sure
  BY <1>2, SurePorts
<1>4. \A a \in Addresses : \A p \in Ports : p \in pool'[a].free <=> p \in pool[a].free \/ (b = a /\ q = p)
  BY <1>1, <1>2, PutKeeps DEF Calls
<1>5. ~Twice(k) /\ \A j \in Live : Twice(j) => Twice(j)'
  BY <1>1, <1>2, TwiceOn
<1>6. \A j \in Live : j = k => Twice(j)'
  <2> TAKE j \in Live
  <2> HAVE j = k
  <2>1. 1 \in DOMAIN stack' /\ stack'[1][1] = j /\ stack'[1][2] = "failed"
    BY <1>1, <1>2, GoesOn DEF Calls
  <2>2. conns'[j].state = "INITIAL"
    BY <1>1, <1>2
  <2> QED BY <2>1, <2>2 DEF Twice
<1>7. \A j \in Live : conns[j].myport # None => conns[j].myaddr \in Addresses
  BY <1>1 DEF Calls, Gathered
<1>8. \A i, j \in Live : i # j /\ conns[i].myport # None /\ conns[i].myport = conns[j].myport
        => conns[i].myaddr # conns[j].myaddr
  BY DEF PortsKept, PortsHeld
<1> HIDE DEF b, q
<1>9. \A j \in Live : conns[j].myport \in Sure =>
        \/ Twice(j)'
        \/ /\ <<conns[j].myaddr, conns[j].myport>> \notin rejected
           /\ conns[j].myport \notin pool'[conns[j].myaddr].free
  <2> TAKE j \in Live
  <2> HAVE conns[j].myport \in Sure
  <2>1. CASE j = k \/ Twice(j)
    BY <1>5, <1>6, <2>1
  <2>2. CASE j # k /\ ~Twice(j)
    <3>1. /\ <<conns[j].myaddr, conns[j].myport>> \notin rejected
          /\ conns[j].myport \notin pool[conns[j].myaddr].free
      BY <2>2 DEF PortsKept, PortsHeld
    <3>2. conns[j].myport \in Ports /\ conns[j].myport # None /\ conns[j].myaddr \in Addresses
      BY <1>3, <1>7
    <3>3. ~(b = conns[j].myaddr /\ q = conns[j].myport)
      BY <1>1, <1>8, <2>2, <3>2 DEF b, q
    <3> QED BY <1>4, <3>1, <3>2, <3>3
  <2> QED BY <2>1, <2>2
<1>10. \A a \in Addresses' : \A p \in Sure' :
        /\ <<a, p>> \in rejected' => p \notin pool'[a].free
        /\ \/ p \in pool'[a].free \/ <<a, p>> \in rejected'
           \/ \E j \in Live' : conns'[j].myaddr = a /\ conns'[j].myport = p
  <2> TAKE a \in Addresses'
  <2> TAKE p \in Sure'
  <2>0. a \in Addresses /\ p \in Sure /\ rejected' = rejected /\ conns' = conns /\ Live' = Live
    BY <1>2, <1>3
  <2>1. /\ <<a, p>> \in rejected => p \notin pool[a].free
        /\ \/ p \in pool[a].free \/ <<a, p>> \in rejected
           \/ \E j \in Live : conns[j].myaddr = a /\ conns[j].myport = p
    BY <2>0 DEF PortsKept, PortsSplit
  <2>2. b = a /\ q = p => <<a, p>> \notin rejected
    BY <1>1, <1>5, <2>0 DEF PortsKept, PortsHeld, b, q
  <2>3. p \in pool'[a].free <=> p \in pool[a].free \/ (b = a /\ q = p)
    BY <1>3, <1>4, <2>0
  <2>4. b = a /\ q = p => \E j \in Live : conns[j].myaddr = a /\ conns[j].myport = p
    BY <1>1 DEF b, q
  <2> QED BY <2>0, <2>1, <2>2, <2>3, <2>4
<1>11. PortsHeld'
  BY <1>2, <1>3, <1>8, <1>9 DEF PortsHeld
<1>12. PortsSplit'
  BY <1>10 DEF PortsSplit
<1> QED BY <1>11, <1>12 DEF PortsKept

\* core_close puts the port of its connection back.
LEMMA PortsClose ==
  ASSUME Calls, PortsKept, NEW j \in Live, CloseConn(j),
         \A i \in Live : i # j /\ Twice(i) => Twice(i)'
  PROVE  PortsKept'
<1> DEFINE b == conns[j].myaddr
<1> DEFINE q == conns[j].myport
<1>1. /\ UNCHANGED opt /\ rejected' = rejected \ {<<b, q>>}
      /\ \A i \in DOMAIN conns : i # j => conns'[i] = conns[i]
      /\ Live' = Live \ {j} /\ pool' = ReturnPort(j) /\ Live \subseteq DOMAIN conns
  BY Closes DEF Calls, Live, CloseConn
<1>2. \A i \in Live' : i \in Live /\ i # j /\ conns'[i] = conns[i]
  BY <1>1
<1>3. \A a \in Addresses : \A p \in Ports : p \in pool'[a].free <=> p \in pool[a].free \/ (b = a /\ q = p)
  BY <1>1, PutKeeps DEF Calls
<1>4. Sure' = Sure /\ Addresses' = Addresses /\ Sure \subseteq Ports /\ None \notin Sure
  BY <1>1, SurePorts
<1>5. \A i, l \in Live : i # l /\ conns[i].myport # None /\ conns[i].myport = conns[l].myport
        => conns[i].myaddr # conns[l].myaddr
  BY DEF PortsKept, PortsHeld
<1>6. \A i \in Live : conns[i].myport # None => conns[i].myaddr \in Addresses
  BY <1>1 DEF Calls, Gathered
<1> HIDE DEF b, q
<1>7. \A i \in Live' : conns'[i].myport \in Sure =>
        \/ Twice(i)'
        \/ /\ <<conns'[i].myaddr, conns'[i].myport>> \notin rejected'
           /\ conns'[i].myport \notin pool'[conns'[i].myaddr].free
  <2> TAKE i \in Live'
  <2> HAVE conns'[i].myport \in Sure
  <2>1. i \in Live /\ i # j /\ conns'[i] = conns[i] /\ conns[i].myport \in Sure
    BY <1>2
  <2>2. \/ Twice(i)
        \/ /\ <<conns[i].myaddr, conns[i].myport>> \notin rejected
           /\ conns[i].myport \notin pool[conns[i].myaddr].free
    BY <2>1 DEF PortsKept, PortsHeld
  <2>3. conns[i].myport \in Ports /\ conns[i].myport # None /\ conns[i].myaddr \in Addresses
    BY <1>4, <1>6, <2>1
  <2>4. ~(b = conns[i].myaddr /\ q = conns[i].myport)
    BY <1>5, <2>1, <2>3 DEF b, q
  <2> QED BY <1>1, <1>3, <2>1, <2>2, <2>3, <2>4
<1>8. \A a \in Addresses : \A p \in Sure :
        /\ <<a, p>> \in rejected' => p \notin pool'[a].free
        /\ \/ p \in pool'[a].free \/ <<a, p>> \in rejected'
           \/ \E i \in Live' : conns'[i].myaddr = a /\ conns'[i].myport = p
  <2> TAKE a \in Addresses
  <2> TAKE p \in Sure
  <2>1. /\ <<a, p>> \in rejected => p \notin pool[a].free
        /\ \/ p \in pool[a].free \/ <<a, p>> \in rejected
           \/ \E i \in Live : conns[i].myaddr = a /\ conns[i].myport = p
    BY DEF PortsKept, PortsSplit
  <2>2. p \in pool'[a].free <=> p \in pool[a].free \/ (b = a /\ q = p)
    BY <1>3, <1>4
  <2>3. <<a, p>> \in rejected' <=> <<a, p>> \in rejected /\ ~(b = a /\ q = p)
    BY <1>1
  <2>4. \A i \in Live : conns[i].myaddr = a /\ conns[i].myport = p =>
          \/ b = a /\ q = p
          \/ i \in Live' /\ conns'[i].myaddr = a /\ conns'[i].myport = p
    BY <1>1 DEF b, q
  <2> QED BY <2>1, <2>2, <2>3, <2>4
<1>9. PortsHeld'
  <2>1. \A i, l \in Live' : i # l /\ conns'[i].myport # None /\ conns'[i].myport = conns'[l].myport
          => conns'[i].myaddr # conns'[l].myaddr
    BY <1>2, <1>5
  <2> QED BY <1>4, <1>7, <2>1 DEF PortsHeld
<1>10. PortsSplit'
  BY <1>4, <1>8 DEF PortsSplit
<1> QED BY <1>9, <1>10 DEF PortsKept

LEMMA PortsFailureCloses == Calls /\ PortsKept /\ conn_failure_closes => PortsKept'
<1> SUFFICES ASSUME Calls, PortsKept, conn_failure_closes PROVE PortsKept'
  OBVIOUS
<1>1. stack # <<>> /\ stack' = Tail(stack) /\ CloseConn(k)
  BY DEF conn_failure_closes, At
<1>2. k \in Live
  BY <1>1, InnermostLive
<1>3. \A j \in DOMAIN conns : j # k => conns'[j] = conns[j]
  BY <1>1, <1>2, Closes DEF Calls
<1>4. \A j \in Live : j # k /\ Twice(j) => Twice(j)'
  BY <1>1, <1>3, TwiceReturn
<1> QED BY <1>1, <1>2, <1>4, PortsClose

LEMMA PortsCoreClose == Calls /\ PortsKept /\ core_close => PortsKept'
<1> SUFFICES ASSUME Calls, PortsKept, core_close PROVE PortsKept'
  OBVIOUS
<1>1. stack = <<>>
  BY DEF core_close
<1>2. PICK j \in Live : CloseConn(j)
  BY DEF core_close
<1>3. \A i : ~Twice(i)
  BY <1>1 DEF Twice
<1> QED BY <1>2, <1>3, PortsClose

\* bind, one turn of the loop: the port port_get has returned is bound, or refused.
LEMMA PortsBind == Calls /\ PortsKept /\ bind => PortsKept'
<1> SUFFICES ASSUME Calls, PortsKept, bind PROVE PortsKept'
  OBVIOUS
<1> DEFINE b == conns[k].myaddr
<1> DEFINE q == Got(pool[b])
<1>1. /\ At("bind") /\ stack # <<>> /\ k \in Live /\ k \in DOMAIN conns /\ conns[k] \in Conn
      /\ ~At("failed") /\ ~At("closing") /\ b \in Addresses /\ conns[k].myport = None
      /\ conns[k].state = "INITIAL"
  BY InnermostLive DEF bind, At, Calls, Gathered
<1>2. /\ pool[b] \in Pool /\ pool \in [Addresses -> Pool] /\ Live \subseteq DOMAIN conns
      /\ UNCHANGED opt /\ opt \in Options
  BY <1>1 DEF Calls, Typed, Live, bind
<1>3. Sure' = Sure /\ Addresses' = Addresses /\ Sure \subseteq Ports /\ None \notin Sure
  BY <1>2, SurePorts
<1>4. \A j \in Live : conns[j].myport # None => conns[j].myaddr \in Addresses
  BY <1>2 DEF Calls, Gathered
<1>5. \A i, j \in Live : i # j /\ conns[i].myport # None /\ conns[i].myport = conns[j].myport
        => conns[i].myaddr # conns[j].myaddr
  BY DEF PortsKept, PortsHeld
<1>6. \A w \in {"bind", "connect", "failed"} :
        Goto(w) /\ (\A j \in DOMAIN conns : j # k => conns'[j] = conns[j])
        => ~Twice(k) /\ \A j \in Live : Twice(j) => Twice(j)'
  BY <1>1, TwiceOn
<1>7. CASE TakenWord(pool[b]) = None
  <2>1. UNCHANGED <<pool, conns, rejected>> /\ Goto("failed") /\ Live' = Live
    BY <1>7 DEF bind, Fail, Live
  <2> QED BY <1>2, <1>6, <2>1, PortsOn
<1>8. CASE TakenWord(pool[b]) # None
  <2>1. /\ q \in Sure => q \in pool[b].free
        /\ \A p \in Sure : p \in port_get(pool[b]).free <=> p \in pool[b].free /\ p # q
    BY <1>2, <1>8, PortTaken
  <2>2. pool' = [pool EXCEPT ![b] = port_get(pool[b])]
    BY <1>8 DEF bind
  <2> HIDE DEF b, q
  <2>3. \A a \in Addresses : \A p \in Sure : p \in pool'[a].free <=> p \in pool[a].free /\ ~(a = b /\ p = q)
    BY <1>1, <1>2, <2>1, <2>2
  <2>4. \A a \in Addresses : \A p \in Sure :
          /\ <<a, p>> \in rejected => p \notin pool[a].free
          /\ \/ p \in pool[a].free \/ <<a, p>> \in rejected
             \/ \E j \in Live : conns[j].myaddr = a /\ conns[j].myport = p
    BY DEF PortsKept, PortsSplit
  <2>5. \A j \in Live : conns[j].myport \in Sure =>
          \/ Twice(j)
          \/ /\ <<conns[j].myaddr, conns[j].myport>> \notin rejected
             /\ conns[j].myport \notin pool[conns[j].myaddr].free
             /\ ~(conns[j].myaddr = b /\ conns[j].myport = q)
    <3> TAKE j \in Live
    <3> HAVE conns[j].myport \in Sure
    <3>1. \/ Twice(j)
          \/ /\ <<conns[j].myaddr, conns[j].myport>> \notin rejected
             /\ conns[j].myport \notin pool[conns[j].myaddr].free
      BY DEF PortsKept, PortsHeld
    <3> QED BY <2>1, <3>1
  <2>6. CASE UNCHANGED conns /\ rejected' = rejected \union {<<b, q>>} /\ (UNCHANGED stack \/ Goto("failed"))
    <3>1. Live' = Live
      BY <2>6 DEF Live
    <3>2. \A j \in Live : Twice(j) => Twice(j)'
      BY <1>6, <2>6 DEF Twice
    <3>3. \A j \in Live : conns[j].myport \in Sure =>
            \/ Twice(j)'
            \/ /\ <<conns[j].myaddr, conns[j].myport>> \notin rejected'
               /\ conns[j].myport \notin pool'[conns[j].myaddr].free
      BY <1>3, <1>4, <2>3, <2>5, <2>6, <3>2
    <3>4. \A a \in Addresses' : \A p \in Sure' :
            /\ <<a, p>> \in rejected' => p \notin pool'[a].free
            /\ \/ p \in pool'[a].free \/ <<a, p>> \in rejected'
               \/ \E j \in Live' : conns'[j].myaddr = a /\ conns'[j].myport = p
      <4> TAKE a \in Addresses'
      <4> TAKE p \in Sure'
      <4>0. a \in Addresses /\ p \in Sure /\ conns' = conns /\ Live' = Live
        BY <1>2, <1>3, <2>6, <3>1 DEF Addresses
      <4>1. <<a, p>> \in rejected' <=> <<a, p>> \in rejected \/ (a = b /\ p = q)
        BY <2>6
      <4>2. p \in pool'[a].free <=> p \in pool[a].free /\ ~(a = b /\ p = q)
        BY <2>3, <4>0
      <4>3. /\ <<a, p>> \in rejected => p \notin pool[a].free
            /\ \/ p \in pool[a].free \/ <<a, p>> \in rejected
               \/ \E j \in Live : conns[j].myaddr = a /\ conns[j].myport = p
        BY <2>4, <4>0
      <4> QED BY <4>0, <4>1, <4>2, <4>3
    <3>5. PortsHeld'
      BY <1>3, <1>5, <2>6, <3>1, <3>3 DEF PortsHeld
    <3>6. PortsSplit'
      BY <3>4 DEF PortsSplit
    <3> QED BY <3>5, <3>6 DEF PortsKept
  <2>7. CASE /\ UNCHANGED rejected /\ conns' = [conns EXCEPT ![k].myport = q] /\ Goto("connect")
             /\ ~InUse(b, q)
    <3>1. /\ DOMAIN conns' = DOMAIN conns
          /\ \A j \in DOMAIN conns : j # k => conns'[j] = conns[j]
          /\ conns'[k].myport = q /\ conns'[k].myaddr = b /\ conns'[k].state = conns[k].state
      BY <1>1, <2>7 DEF Conn, b
    <3>2. Live' = Live
      BY <3>1 DEF Live
    <3>3. \A j \in Live : j # k => conns'[j] = conns[j]
      BY <1>2, <3>1
    <3>4. \A j \in Live : ~(conns[j].myaddr = b /\ conns[j].myport = q)
      BY <2>7 DEF InUse
    <3>5. \A j \in Live : Twice(j) => Twice(j)'
      BY <1>6, <2>7, <3>1
    <3>6. \A i, j \in Live' : i # j /\ conns'[i].myport # None /\ conns'[i].myport = conns'[j].myport
            => conns'[i].myaddr # conns'[j].myaddr
      <4> TAKE i, j \in Live'
      <4>1. i \in Live /\ j \in Live
        BY <3>2
      <4> QED BY <1>5, <3>1, <3>3, <3>4, <4>1
    <3>7. \A j \in Live' : conns'[j].myport \in Sure =>
            \/ Twice(j)'
            \/ /\ <<conns'[j].myaddr, conns'[j].myport>> \notin rejected'
               /\ conns'[j].myport \notin pool'[conns'[j].myaddr].free
      <4> TAKE j \in Live'
      <4> HAVE conns'[j].myport \in Sure
      <4>1. CASE j = k
        <5>1. conns'[j].myaddr = b /\ conns'[j].myport = q /\ q \in Sure /\ b \in Addresses
          BY <1>1, <3>1, <4>1 DEF b
        <5>2. q \notin pool'[b].free /\ <<b, q>> \notin rejected
          BY <2>1, <2>3, <2>4, <5>1
        <5> QED BY <2>7, <5>1, <5>2
      <4>2. CASE j # k
        <5>1. j \in Live /\ conns'[j] = conns[j] /\ conns[j].myport \in Sure /\ conns[j].myaddr \in Addresses
          BY <1>3, <1>4, <3>2, <3>3, <4>2
        <5>2. \/ Twice(j)
              \/ /\ <<conns[j].myaddr, conns[j].myport>> \notin rejected
                 /\ conns[j].myport \notin pool[conns[j].myaddr].free
          BY <2>5, <5>1
        <5>3. conns[j].myport \notin pool[conns[j].myaddr].free
                => conns[j].myport \notin pool'[conns[j].myaddr].free
          BY <2>3, <5>1
        <5>4. Twice(j) => Twice(j)'
          BY <3>5, <5>1
        <5>5. CASE Twice(j)
          BY <5>4, <5>5
        <5>6. CASE ~Twice(j)
          <6>1. rejected' = rejected
            BY <2>7
          <6>2. <<conns[j].myaddr, conns[j].myport>> \notin rejected
            BY <5>2, <5>6
          <6>3. conns[j].myport \notin pool'[conns[j].myaddr].free
            BY <5>2, <5>3, <5>6
          <6> QED BY <5>1, <6>1, <6>2, <6>3
        <5> QED BY <5>5, <5>6
      <4> QED BY <4>1, <4>2
    <3>8. \A a \in Addresses : \A p \in Sure :
            /\ <<a, p>> \in rejected' => p \notin pool'[a].free
            /\ \/ p \in pool'[a].free \/ <<a, p>> \in rejected'
               \/ \E j \in Live' : conns'[j].myaddr = a /\ conns'[j].myport = p
      <4> TAKE a \in Addresses
      <4> TAKE p \in Sure
      <4>1. p \in pool'[a].free <=> p \in pool[a].free /\ ~(a = b /\ p = q)
        BY <2>3
      <4>2. a = b /\ p = q => k \in Live' /\ conns'[k].myaddr = a /\ conns'[k].myport = p
        BY <1>1, <3>1, <3>2
      <4>3. \A j \in Live : conns[j].myaddr = a /\ conns[j].myport = p
              => j \in Live' /\ conns'[j].myaddr = a /\ conns'[j].myport = p
        BY <1>1, <1>3, <3>2, <3>3
      <4> QED BY <2>4, <2>7, <4>1, <4>2, <4>3
    <3>9. PortsHeld'
      BY <1>3, <3>6, <3>7 DEF PortsHeld
    <3>10. PortsSplit'
      BY <1>3, <3>8 DEF PortsSplit
    <3> QED BY <3>9, <3>10 DEF PortsKept
  <2> QED BY <1>8, <2>6, <2>7 DEF bind, Fail, b, q
<1> QED BY <1>7, <1>8

-----------------------------------------------------------------------------
(* Every descriptor and every port has its place *)

LEMMA DescriptorsStep == Calls /\ Descriptors /\ Handled /\ [Next]_vars => Descriptors'
<1> SUFFICES ASSUME Calls, Descriptors, Handled, [Next]_vars PROVE Descriptors'
  OBVIOUS
<1>0. None \notin fds
  BY DEF Calls, Typed, None
<1>1. CASE UNCHANGED <<conns, fds>>
  BY <1>1 DEF Descriptors, Live
<1>2. CASE \E below : NewConn(below)
  <2> DEFINE new == [state |-> "INITIAL", hostname |-> opt.servers[current],
                     sin |-> "", sd |-> None, myaddr |-> 0, myport |-> None]
  <2>1. fds' = fds /\ conns' = Append(conns, new)
    BY <1>2 DEF NewConn, kernel
  <2>2. conns \in Seq(Conn) /\ new.sd = None
    BY DEF Calls, Typed
  <2> HIDE DEF new
  <2>3. /\ \A j \in DOMAIN conns : j \in DOMAIN conns' /\ conns'[j] = conns[j]
        /\ \A j \in DOMAIN conns' : j \in DOMAIN conns \/ conns'[j] = new
    BY <2>1, <2>2
  <2>4. \A j \in Live' : conns'[j].sd # None => j \in Live /\ conns'[j].sd = conns[j].sd
    BY <2>2, <2>3 DEF Live
  <2>5. \A j \in Live : conns[j].sd # None => j \in Live' /\ conns'[j].sd = conns[j].sd
    BY <2>3 DEF Live
  <2> QED BY <1>0, <2>1, <2>4, <2>5, FdsOn
<1>3. CASE socket_fails
  BY <1>1, <1>3 DEF socket_fails, Handled
<1>4. CASE connect
  <2>1. k \in Live /\ conns[k] \in Conn /\ fds' = fds /\ conns' = [conns EXCEPT ![k].state = "CONNECTING"]
    BY <1>4, InnermostLive DEF connect, At, kernel
  <2>2. DOMAIN conns' = DOMAIN conns /\ Live' = Live /\ \A j \in DOMAIN conns : conns'[j].sd = conns[j].sd
    BY <2>1 DEF Conn, Live
  <2>3. \A j \in Live : conns'[j].sd = conns[j].sd
    BY <2>2 DEF Live
  <2> QED BY <1>0, <2>1, <2>2, <2>3, FdsOn
<1>5. CASE bind
  <2>1. fds' = fds
    BY <1>5 DEF bind, kernel
  <2>2. CASE UNCHANGED conns
    BY <1>1, <2>1, <2>2
  <2>3. CASE \E p : conns' = [conns EXCEPT ![k].myport = p]
    <3>1. k \in Live /\ conns[k] \in Conn
      BY <1>5, InnermostLive DEF bind, At
    <3>2. DOMAIN conns' = DOMAIN conns /\ Live' = Live /\ \A j \in DOMAIN conns : conns'[j].sd = conns[j].sd
      <4>1. PICK p : conns' = [conns EXCEPT ![k].myport = p]
        BY <2>3
      <4> DEFINE c == [conns[k] EXCEPT !.myport = p]
      <4>2. c.sd = conns[k].sd /\ c.state = conns[k].state
        BY <3>1 DEF Conn
      <4>3. conns' = [conns EXCEPT ![k] = c] /\ k \in DOMAIN conns
        BY <3>1, <4>1 DEF Live
      <4> HIDE DEF c
      <4> QED BY <4>2, <4>3 DEF Live
    <3>3. \A j \in Live : conns'[j].sd = conns[j].sd
      BY <3>2 DEF Live
    <3> QED BY <1>0, <2>1, <3>2, <3>3, FdsOn
  <2> QED BY <1>5, <2>2, <2>3 DEF bind
<1>6. CASE socket
  BY <1>6, FdsSocket
<1>7. CASE core_close
  BY <1>7, FdsClose DEF core_close
<1>8. CASE conn_failure_closes
  BY <1>8, FdsClose, InnermostLive DEF conn_failure_closes, At
<1>9. CASE connect_fails \/ conn_failure \/ PortExpires \/ Idle \/ UNCHANGED vars
  BY <1>1, <1>9 DEF connect_fails, conn_failure, PortExpires, Idle, vars, kernel
<1> QED BY <1>2, <1>3, <1>4, <1>5, <1>6, <1>7, <1>8, <1>9 DEF Next, Connect, Reconnect

LEMMA PortsStep == Calls /\ PortsKept /\ [Next]_vars => PortsKept'
<1> SUFFICES ASSUME Calls, PortsKept, [Next]_vars PROVE PortsKept'
  OBVIOUS
<1>1. CASE UNCHANGED <<opt, pool, conns, stack, rejected>>
  <2>1. Live' = Live /\ \A j : conns'[j].myport = conns[j].myport /\ conns'[j].myaddr = conns[j].myaddr
    BY <1>1 DEF Live
  <2>2. \A j : Twice(j) => Twice(j)'
    BY <1>1 DEF Twice
  <2> QED BY <1>1, <2>1, <2>2, PortsOn
<1>2. CASE Connect
  <2>1. NewConn(stack) /\ stack = <<>> /\ stack \in Seq(Frame)
    BY <1>2 DEF Connect, Calls, Typed
  <2>2. \A i \in DOMAIN stack : stack[i][1] = stack[i][1] /\ stack[i][2] = "closing"
    BY <2>1
  <2> QED BY <2>1, <2>2, PortsOpen
<1>3. CASE Reconnect
  <2>1. PICK below \in Seq(Frame) : /\ NewConn(below) /\ DOMAIN below = DOMAIN stack
                                    /\ \A i \in DOMAIN stack : below[i][1] = stack[i][1] /\ below[i][2] = "closing"
    BY <1>3, Waiting DEF Calls, Reconnect
  <2> QED BY <2>1, PortsOpen
<1>4. CASE socket_fails \/ socket \/ bind \/ connect \/ connect_fails
  BY <1>4, PortsSocketFails, PortsSocket, PortsBind, PortsConnect, PortsConnectFails
<1>5. CASE core_close \/ conn_failure \/ conn_failure_closes
  BY <1>5, PortsCoreClose, PortsFailure, PortsFailureCloses
<1>6. CASE PortExpires \/ Idle \/ UNCHANGED vars
  BY <1>1, <1>6 DEF PortExpires, Idle, vars
<1> QED BY <1>2, <1>3, <1>4, <1>5, <1>6 DEF Next

LEMMA ResourcesStep == (Calls /\ (Handled => Resources)) /\ [Next]_vars => (Handled => Resources)'
<1> SUFFICES ASSUME Calls, Handled => Resources, [Next]_vars, Handled' PROVE Resources'
  OBVIOUS
<1>1. Handled
  BY Constancy DEF Handled
<1> QED BY <1>1, CallsStep, DescriptorsStep, PortsStep DEF Resources

LEMMA ResourcesInit == Init => Resources
<1> SUFFICES ASSUME Init PROVE Resources
  OBVIOUS
<1>1. Descriptors /\ PortsHeld
  BY DEF Init, Descriptors, PortsHeld, Live
<1>2. PortsSplit
  BY DEF Init, PortsSplit, core_add_address, Sure
<1> QED BY <1>1, <1>2, CallsInit DEF Resources, PortsKept

\* What has to be shown of the ports follows from the invariant.
LEMMA ResourcesAll == Resources => ResourcesExact
<1> SUFFICES ASSUME Resources PROVE ResourcesExact
  OBVIOUS
<1>1. /\ fds = {conns[j].sd : j \in Live} \ {None}
      /\ \A i, j \in Live : i # j /\ conns[i].sd # None => conns[i].sd # conns[j].sd
  <2>1. None \notin fds
    BY DEF Resources, Calls, Typed, None
  <2> QED BY <2>1 DEF Resources, Descriptors
<1>2. ASSUME NEW a \in Addresses
      PROVE  /\ \A port \in Ports \union {-1} : Cardinality(Holders(a, port)) <= 1
             /\ Handed(a) \intersect pool[a].free \subseteq PutBack(a) \union Mistaken
             /\ Handed(a) \intersect Rejected(a) \subseteq PutBack(a) \union Mistaken
             /\ Rejected(a) \intersect pool[a].free \subseteq Mistaken
             /\ Ports \ Mistaken \subseteq pool[a].free \union Handed(a) \union Rejected(a)
  <2>0. \A p \in Ports \union {-1} : p # None
    BY PoolAssumption DEF Ports, None
  <2>1. ASSUME NEW port \in Ports \union {-1} PROVE Cardinality(Holders(a, port)) <= 1
    <3>1. \A i, j \in Holders(a, port) : i = j
      BY <2>0 DEF Holders, Resources, PortsKept, PortsHeld
    <3>2. CASE Holders(a, port) = {}
      BY <3>2, FS_EmptySet
    <3>3. CASE Holders(a, port) # {}
      <4>1. PICK i : Holders(a, port) = {i}
        BY <3>1, <3>3
      <4>2. Cardinality({i}) = 1
        BY FS_Singleton
      <4> QED BY <4>1, <4>2
    <3> QED BY <3>2, <3>3
  <2>2. ASSUME NEW p \in Handed(a), p \notin PutBack(a) \union Mistaken
        PROVE  p \notin pool[a].free /\ p \notin Rejected(a)
    <3>1. PICK j \in Holders(a, p) : p \in Ports
      BY DEF Handed
    <3>2. j \in Live /\ conns[j].myaddr = a /\ conns[j].myport = p
      BY DEF Holders
    <3>3. ~Twice(j) /\ p \in Sure
      BY <2>2, <3>1 DEF PutBack, Sure
    <3> QED BY <3>2, <3>3 DEF Resources, PortsKept, PortsHeld, Rejected
  <2>3. \A p \in Sure : <<a, p>> \in rejected => p \notin pool[a].free
    BY DEF Resources, PortsKept, PortsSplit
  <2>4. \A p \in Sure : p \in pool[a].free \/ p \in Rejected(a) \/ p \in Handed(a)
    <3> TAKE p \in Sure
    <3>1. p \in Ports
      BY DEF Sure
    <3>2. \/ p \in pool[a].free \/ <<a, p>> \in rejected
          \/ \E j \in Live : conns[j].myaddr = a /\ conns[j].myport = p
      BY DEF Resources, PortsKept, PortsSplit
    <3> QED BY <3>1, <3>2 DEF Handed, Holders, Rejected
  <2>5. Rejected(a) \intersect pool[a].free \subseteq Mistaken
    BY <2>3 DEF Rejected, Sure
  <2>6. Ports \ Mistaken \subseteq pool[a].free \union Handed(a) \union Rejected(a)
    BY <2>4 DEF Sure
  <2> QED BY <2>1, <2>2, <2>5, <2>6
<1> QED BY <1>1, <1>2 DEF ResourcesExact

\* On every path through core_connect, port_get and core_close a local port belongs to one
\* connection at most, and is free, or belongs to a connection, or was refused by bind, but
\* for the last port of each word if ffs does not see all of it; and the open descriptors
\* are those of the connections.  core_connect loses a descriptor only where fcntl or
\* setsockopt fails, which is left aside.
THEOREM ResourcesKept == Spec => [](Handled => ResourcesExact)
<1>1. Init => (Handled => Resources)
  BY ResourcesInit
<1>2. Calls /\ (Handled => Resources) => (Handled => ResourcesExact)
  BY ResourcesAll
<1>3. (Calls /\ (Handled => Resources)) /\ [Next]_vars => (Handled => Resources)'
  BY ResourcesStep
<1> QED BY <1>1, <1>2, <1>3, CallsInductive, PTL DEF Spec

-----------------------------------------------------------------------------
(* The table of servers *)

\* From any place in the table the probes get to every slot.
LEMMA EverySlot ==
  ASSUME NEW h \in Nat, NEW j \in 0..(TableSize - 1)
  PROVE  \E d \in 0..(TableSize - 1) : (h + d) % TableSize = j
<1> DEFINE w == TableSize
<1>1. w \in Nat \ {0}
  BY TableAssumption
<1> HIDE DEF w
<1>2. PICK q \in Nat : \E r \in 0..(w - 1) : h = q * w + r
  <2>1. h = (h \div w) * w + (h % w) /\ h \div w \in Nat /\ h % w \in 0..(w - 1)
    BY <1>1, SMT
  <2> QED BY <2>1
<1>3. PICK r \in 0..(w - 1) : h = q * w + r
  BY <1>2
<1>4. j \in 0..(w - 1)
  BY DEF w
<1>5. \A e \in Int : (e * w + j) % w = j
  BY <1>1, <1>4, SMT
<1> DEFINE a == q * w
<1>6. a \in Int /\ h = a + r /\ (q + 1) * w = a + w
  BY <1>1, <1>3
<1>7. CASE r <= j
  <2>1. j - r \in 0..(w - 1) /\ h + (j - r) = a + j
    <3> HIDE DEF a
    <3> QED BY <1>1, <1>3, <1>4, <1>6, <1>7
  <2>2. (a + j) % w = j
    BY <1>5
  <2> QED BY <2>1, <2>2 DEF w
<1>8. CASE ~(r <= j)
  <2>1. j - r + w \in 0..(w - 1) /\ h + (j - r + w) = (a + w) + j
    <3> HIDE DEF a
    <3> QED BY <1>1, <1>3, <1>4, <1>6, <1>8
  <2>2. ((a + w) + j) % w = j
    <3>1. ((q + 1) * w + j) % w = j
      BY <1>5
    <3> QED BY <1>6, <3>1
  <2> QED BY <2>1, <2>2 DEF w
<1> QED BY <1>7, <1>8

\* The servers are entered one after another.
LEMMA EnteredStep ==
  ASSUME opt \in Options
  PROVE  /\ Entered[0] = [i \in 0..(TableSize - 1) |-> Empty]
         /\ \A n \in 1..Len(opt.servers) :
              Entered[n] = core_addr_intern(Entered[n - 1], opt.servers[n])
<1> DEFINE base == [i \in 0..(TableSize - 1) |-> Empty]
<1> DEFINE s == opt.servers
<1> DEFINE len == Len(s)
<1> DEFINE Next1(f, i) == IF i = 0 THEN base ELSE core_addr_intern(f[i - 1], s[i])
<1> DEFINE Good(n) == \E f : f = [i \in 0..n |-> Next1(f, i)]
<1> DEFINE Bad == {n \in 0..len : ~Good(n)}
<1>1. len \in Nat
  BY OptionsAssumption
<1>2. Entered = CHOOSE f : f = [i \in 0..len |-> Next1(f, i)]
  BY DEF Entered
<1> HIDE DEF base, s, len
<1>3. Good(0)
  <2>1. [i \in 0..0 |-> base] = [i \in 0..0 |-> Next1([l \in 0..0 |-> base], i)]
    BY SMT
  <2> QED BY <2>1
<1>4. ASSUME NEW n \in Nat, Good(n) PROVE Good(n + 1)
  <2>1. PICK g : g = [i \in 0..n |-> Next1(g, i)]
    BY <1>4
  <2> DEFINE f == [i \in 0..(n + 1) |-> IF i = n + 1 THEN core_addr_intern(g[n], s[n + 1]) ELSE g[i]]
  <2>2. \A i \in 0..(n + 1) : f[i] = Next1(f, i)
    <3> TAKE i \in 0..(n + 1)
    <3>1. CASE i = n + 1
      BY <3>1
    <3>2. CASE i # n + 1
      <4>1. i \in 0..n /\ (i # 0 => i - 1 \in 0..n)
        BY <3>2
      <4>2. f[i] = g[i] /\ (i # 0 => f[i - 1] = g[i - 1])
        BY <4>1
      <4>3. g[i] = Next1(g, i)
        BY <2>1, <4>1
      <4> QED BY <4>2, <4>3
    <3> QED BY <3>1, <3>2
  <2>3. f = [i \in 0..(n + 1) |-> Next1(f, i)]
    <3> HIDE DEF Next1
    <3> QED BY <2>2
  <2> QED BY <2>3
<1>5. Good(len)
  <2> HIDE DEF Good
  <2> SUFFICES ASSUME Bad # {} PROVE FALSE
    BY <1>1
  <2>1. Bad \subseteq Nat
    OBVIOUS
  <2>2. PICK n \in Bad : \A m \in Bad : n <= m
    BY <2>1, LeastNumber
  <2>3. n # 0 /\ n - 1 \in 0..len /\ n - 1 \notin Bad /\ n - 1 \in Nat
    BY <1>1, <1>3, <2>2
  <2>4. Good((n - 1) + 1)
    BY <1>4, <2>3
  <2>5. (n - 1) + 1 = n
    BY <2>2
  <2> QED BY <2>2, <2>4, <2>5
<1>6. Entered = [i \in 0..len |-> Next1(Entered, i)]
  BY <1>2, <1>5
<1>7. \A i \in 0..len : Entered[i] = Next1(Entered, i)
  <2> HIDE DEF Next1
  <2> QED BY <1>6
<1>8. Entered[0] = base /\ \A n \in 1..len : Entered[n] = core_addr_intern(Entered[n - 1], s[n])
  BY <1>1, <1>7
<1> QED BY <1>8 DEF base, s, len

Slots == 0..(TableSize - 1)
Text == STRING \union {""}

\* A table with the first n servers in it: no slot before the one of a name, in the order
\* it is looked for, is empty.
Filled(t, n) ==
  /\ t \in [Slots -> [hostname : Text, sin : Text]]
  /\ \A i \in Slots : \/ t[i] = Empty
                      \/ \E m \in 1..n : t[i] = [hostname |-> opt.servers[m], sin |-> opt.servers[m]]
  /\ Cardinality({i \in Slots : t[i] # Empty}) <= n
  /\ \A m \in 1..n : \E d \in Slots :
       /\ t[Probe(opt.servers[m], d)].hostname = opt.servers[m]
       /\ \A e \in 0..(d - 1) : t[Probe(opt.servers[m], e)] # Empty

LEMMA ServerNames ==
  ASSUME opt \in Options
  PROVE  /\ Len(opt.servers) \in Nat \ {0} /\ DOMAIN opt.servers = 1..Len(opt.servers)
         /\ \A m \in 1..Len(opt.servers) :
              opt.servers[m] \in STRING /\ opt.servers[m] # "" /\ Hash[opt.servers[m]] \in Nat
<1>1. opt.servers \in Seq(STRING) /\ opt.servers # <<>>
  BY OptionsAssumption
<1>2. Len(opt.servers) \in Nat \ {0} /\ DOMAIN opt.servers = 1..Len(opt.servers)
      /\ \A m \in 1..Len(opt.servers) : opt.servers[m] \in STRING
  BY <1>1
<1>3. \A m \in DOMAIN opt.servers : opt.servers[m] # "" /\ Hash[opt.servers[m]] \in Nat
  BY NamesAssumption
<1> QED BY <1>2, <1>3

\* The search from a name's place gets to a slot of a kind there is.
LEMMA FirstProbe ==
  ASSUME NEW name, Hash[name] \in Nat, NEW Good \in SUBSET Slots, Good # {}
  PROVE  /\ \A m \in Nat : Probe(name, m) \in Slots
         /\ \E n \in Slots : /\ Probe(name, n) \in Good
                             /\ \A m \in 0..(n - 1) : Probe(name, m) \notin Good
<1> DEFINE S == {n \in Slots : Probe(name, n) \in Good}
<1>1. TableSize \in Nat \ {0}
  BY TableAssumption
<1>2. S # {}
  <2>1. PICK j \in Slots : j \in Good
    OBVIOUS
  <2>2. PICK d \in Slots : (Hash[name] + d) % TableSize = j
    BY EverySlot, <2>1 DEF Slots
  <2> QED BY <2>1, <2>2 DEF Probe
<1>3. S \subseteq Nat
  BY <1>1 DEF Slots
<1> HIDE DEF S
<1>4. PICK n \in S : \A m \in S : n <= m
  BY <1>2, <1>3, LeastNumber
<1>5. n \in Slots /\ n \in Nat /\ Probe(name, n) \in Good
  BY <1>3, <1>4 DEF S
<1>6. \A m \in 0..(n - 1) : Probe(name, m) \notin Good
  <2> TAKE m \in 0..(n - 1)
  <2>1. m \in Slots /\ ~(n <= m)
    BY <1>1, <1>5 DEF Slots
  <2> QED BY <1>4, <2>1 DEF S
<1>7. \A m \in Nat : Probe(name, m) \in Slots
  <2> TAKE m \in Nat
  <2> DEFINE h == Hash[name] + m
  <2>1. h \in Nat
    OBVIOUS
  <2> HIDE DEF h
  <2>2. h % TableSize \in 0..(TableSize - 1)
    BY <1>1, <2>1, SMT
  <2> QED BY <2>2 DEF h, Probe, Slots
<1> QED BY <1>5, <1>6, <1>7

LEMMA SlotsFinite == IsFiniteSet(Slots) /\ Cardinality(Slots) = TableSize
<1>1. TableSize \in Nat \ {0}
  BY TableAssumption
<1>2. TableSize - 1 \in Int /\ 0 \in Int
  BY <1>1
<1>3. /\ IsFiniteSet(0..(TableSize - 1))
      /\ Cardinality(0..(TableSize - 1)) = IF 0 > TableSize - 1 THEN 0 ELSE (TableSize - 1) - 0 + 1
  BY <1>2, FS_Interval
<1> QED BY <1>1, <1>3 DEF Slots

LEMMA EnterFills ==
  ASSUME opt \in Options, NEW n \in Nat, NEW t, Filled(t, n), n + 1 \in 1..Len(opt.servers), n < TableSize
  PROVE  Filled(core_addr_intern(t, opt.servers[n + 1]), n + 1)
<1> DEFINE x == opt.servers[n + 1]
<1> DEFINE Good == {i \in Slots : t[i] = Empty}
<1> DEFINE Full == {i \in Slots : t[i] # Empty}
<1> DEFINE p == Probes(x, LAMBDA i : t[i] = Empty)
<1> DEFINE slot == Probe(x, p)
<1> DEFINE entry == [hostname |-> x, sin |-> x]
<1> DEFINE u == [t EXCEPT ![slot] = entry]
<1>1. TableSize \in Nat \ {0} /\ IsFiniteSet(Slots) /\ Cardinality(Slots) = TableSize
  BY TableAssumption, SlotsFinite
<1>2. x \in STRING /\ x # "" /\ Hash[x] \in Nat
  BY ServerNames
<1>3. Full \in SUBSET Slots /\ IsFiniteSet(Full) /\ Cardinality(Full) <= n /\ Cardinality(Full) \in Nat
  <2>1. Full \in SUBSET Slots
    OBVIOUS
  <2>2. Cardinality(Full) <= n
    BY DEF Filled
  <2> HIDE DEF Full
  <2> QED BY <1>1, <2>1, <2>2, FS_Subset, FS_CardinalityType
<1>4. Good # {}
  <2> SUFFICES ASSUME Good = {} PROVE FALSE
    OBVIOUS
  <2>1. Full = Slots
    OBVIOUS
  <2> HIDE DEF Full
  <2> QED BY <1>1, <1>3, <2>1
<1>5. /\ \A m \in Nat : Probe(x, m) \in Slots
      /\ p \in Slots /\ slot \in Slots /\ t[slot] = Empty
      /\ \A m \in 0..(p - 1) : t[Probe(x, m)] # Empty
  <2>1. Good \in SUBSET Slots
    OBVIOUS
  <2>2. /\ \A m \in Nat : Probe(x, m) \in Slots
        /\ \E l \in Slots : /\ Probe(x, l) \in Good
                            /\ \A m \in 0..(l - 1) : Probe(x, m) \notin Good
    <3> HIDE DEF Good, x
    <3> QED BY <1>2, <1>4, <2>1, FirstProbe
  <2> DEFINE First(l) == /\ l = TableSize \/ t[Probe(x, l)] = Empty
                         /\ \A m \in 0..(l - 1) : ~(t[Probe(x, m)] = Empty)
  <2>3. PICK l \in Slots : Probe(x, l) \in Good /\ \A m \in 0..(l - 1) : Probe(x, m) \notin Good
    BY <2>2
  <2>4. l \in Nat /\ l \in 0..TableSize /\ l < TableSize
    BY <1>1, <2>3 DEF Slots
  <2>5. t[Probe(x, l)] = Empty
    BY <2>3
  <2>6. \A m \in 0..(l - 1) : ~(t[Probe(x, m)] = Empty)
    BY <2>2, <2>3, <2>4
  <2>7. p = CHOOSE y \in 0..TableSize : First(y)
    BY Zenon DEF Probes
  <2>8. First(l)
    BY <2>5, <2>6
  <2>9. p \in 0..TableSize /\ First(p)
    <3> HIDE DEF First, p
    <3> QED BY <2>4, <2>7, <2>8
  <2> HIDE DEF p, x
  <2>10. p # TableSize
    BY <2>4, <2>5, <2>9
  <2>11. p \in Slots /\ p \in Nat
    BY <1>1, <2>9, <2>10 DEF Slots
  <2>12. t[Probe(x, p)] = Empty /\ \A m \in 0..(p - 1) : t[Probe(x, m)] # Empty
    BY <2>9, <2>10
  <2> QED BY <2>2, <2>11, <2>12
<1>6. core_addr_intern(t, x) = u
  BY DEF core_addr_intern, hash_enter
<1> HIDE DEF p, slot, x
<1>7. /\ t \in [Slots -> [hostname : Text, sin : Text]]
      /\ \A i \in Slots : \/ t[i] = Empty
                          \/ \E m \in 1..n : t[i] = [hostname |-> opt.servers[m], sin |-> opt.servers[m]]
      /\ \A m \in 1..n : \E d \in Slots :
           /\ t[Probe(opt.servers[m], d)].hostname = opt.servers[m]
           /\ \A e \in 0..(d - 1) : t[Probe(opt.servers[m], e)] # Empty
  BY DEF Filled
<1>8. entry # Empty /\ entry.hostname = x /\ entry \in [hostname : Text, sin : Text]
  BY <1>2 DEF Empty, Text
<1> HIDE DEF entry
<1>9. /\ u \in [Slots -> [hostname : Text, sin : Text]] /\ u[slot] = entry
      /\ \A i \in Slots : i # slot => u[i] = t[i]
  BY <1>5, <1>7, <1>8
<1> HIDE DEF u
<1>10. \A i \in Slots : \/ u[i] = Empty
                        \/ \E m \in 1..(n + 1) : u[i] = [hostname |-> opt.servers[m], sin |-> opt.servers[m]]
  <2> TAKE i \in Slots
  <2>1. CASE i = slot
    BY <1>9, <2>1 DEF entry, x
  <2>2. CASE i # slot
    BY <1>7, <1>9, <2>2
  <2> QED BY <2>1, <2>2
<1>11. Cardinality({i \in Slots : u[i] # Empty}) <= n + 1
  <2> DEFINE Fuller == {i \in Slots : u[i] # Empty}
  <2>1. Fuller = Full \union {slot}
    BY <1>5, <1>8, <1>9
  <2> HIDE DEF Full, Fuller
  <2>2. Cardinality(Fuller) = IF slot \in Full THEN Cardinality(Full) ELSE Cardinality(Full) + 1
    BY <1>3, <2>1, FS_AddElement
  <2>3. Cardinality(Fuller) <= n + 1
    BY <1>3, <2>2
  <2> QED BY <2>3 DEF Fuller
<1>12. \A m \in 1..(n + 1) : \E d \in Slots :
         /\ u[Probe(opt.servers[m], d)].hostname = opt.servers[m]
         /\ \A e \in 0..(d - 1) : u[Probe(opt.servers[m], e)] # Empty
  <2> TAKE m \in 1..(n + 1)
  <2>0. \A i \in Slots : t[i] # Empty => u[i] = t[i]
    BY <1>5, <1>9
  <2>1. CASE m = n + 1
    <3>1. \A e \in 0..(p - 1) : Probe(x, e) \in Slots
      BY <1>5
    <3>2. \A e \in 0..(p - 1) : u[Probe(x, e)] # Empty
      BY <1>5, <2>0, <3>1
    <3>3. u[Probe(x, p)].hostname = x
      BY <1>8, <1>9 DEF slot
    <3> QED BY <1>5, <2>1, <3>2, <3>3 DEF x
  <2>2. CASE m # n + 1
    <3> DEFINE y == opt.servers[m]
    <3>0. Len(opt.servers) \in Nat
      BY ServerNames
    <3>1. m \in 1..n /\ m \in 1..Len(opt.servers)
      BY <2>2, <3>0
    <3>2. PICK d \in Slots : /\ t[Probe(y, d)].hostname = y
                             /\ \A e \in 0..(d - 1) : t[Probe(y, e)] # Empty
      BY <1>7, <3>1
    <3>3. Hash[y] \in Nat /\ y # ""
      BY <3>1, ServerNames
    <3> HIDE DEF y
    <3>4. \A e \in Nat : Probe(y, e) \in Slots
      BY <1>4, <3>3, FirstProbe
    <3>5. d \in Nat
      BY <3>2, <1>1 DEF Slots
    <3>6. t[Probe(y, d)] # Empty
      <4>1. Empty.hostname = ""
        BY DEF Empty
      <4> QED BY <3>2, <3>3, <4>1
    <3>7. u[Probe(y, d)].hostname = y
      BY <2>0, <3>2, <3>4, <3>5, <3>6
    <3>8. \A e \in 0..(d - 1) : u[Probe(y, e)] # Empty
      <4> TAKE e \in 0..(d - 1)
      <4>1. Probe(y, e) \in Slots /\ t[Probe(y, e)] # Empty
        BY <3>2, <3>4, <3>5
      <4> QED BY <2>0, <4>1
    <3> QED BY <3>7, <3>8 DEF y
  <2> QED BY <2>1, <2>2
<1>13. Filled(u, n + 1)
  BY <1>9, <1>10, <1>11, <1>12 DEF Filled
<1> QED BY <1>6, <1>13 DEF x

LEMMA EmptyEntry == Empty \in [hostname : Text, sin : Text]
<1>1. "" \in Text
  BY DEF Text
<1>2. \A z \in Text : [hostname |-> z, sin |-> z] \in [hostname : Text, sin : Text]
  OBVIOUS
<1> QED BY <1>1, <1>2 DEF Empty

LEMMA EntryFields ==
  ASSUME NEW e, NEW z, e = [hostname |-> z, sin |-> z]
  PROVE  e.hostname = z /\ e.sin = z
OBVIOUS

LEMMA SlotNumber == \A i \in Slots : i \in Nat /\ i < TableSize /\ i \in 0..TableSize
BY TableAssumption DEF Slots

\* All the servers are in the table, if it has room for them.
LEMMA AllEntered ==
  ASSUME opt \in Options, Len(opt.servers) <= TableSize
  PROVE  Filled(conn_add_servers, Len(opt.servers))
<1> DEFINE len == Len(opt.servers)
<1> DEFINE Bad == {n \in 0..len : ~Filled(Entered[n], n)}
<1>1. len \in Nat \ {0} /\ TableSize \in Nat \ {0}
  BY ServerNames, TableAssumption
<1>2. Filled(Entered[0], 0)
  <2> DEFINE t == [i \in Slots |-> Empty]
  <2>1. Entered[0] = t
    BY EnteredStep DEF Slots
  <2>2. t \in [Slots -> [hostname : Text, sin : Text]] /\ \A i \in Slots : t[i] = Empty
    BY EmptyEntry
  <2>3. {i \in Slots : t[i] # Empty} = {}
    OBVIOUS
  <2>4. Cardinality({i \in Slots : t[i] # Empty}) <= 0
    <3>1. Cardinality({}) = 0
      BY FS_EmptySet
    <3> QED BY <2>3, <3>1
  <2>5. \A m \in 1..0 : FALSE
    OBVIOUS
  <2> HIDE DEF t
  <2> QED BY <2>1, <2>2, <2>4, <2>5 DEF Filled
<1>3. ASSUME NEW n \in Nat, n < len, Filled(Entered[n], n) PROVE Filled(Entered[n + 1], n + 1)
  <2>1. n + 1 \in 1..len /\ n < TableSize /\ (n + 1) - 1 = n
    BY <1>1, <1>3
  <2>2. Entered[n + 1] = core_addr_intern(Entered[n], opt.servers[n + 1])
    BY <2>1, EnteredStep
  <2>3. Filled(core_addr_intern(Entered[n], opt.servers[n + 1]), n + 1)
    BY <1>3, <2>1, EnterFills
  <2> QED BY <2>2, <2>3
<1>4. Bad = {}
  <2> SUFFICES ASSUME Bad # {} PROVE FALSE
    OBVIOUS
  <2>1. Bad \subseteq Nat
    OBVIOUS
  <2> DEFINE Good(n) == Filled(Entered[n], n)
  <2> HIDE DEF Good, len
  <2>2. PICK n \in Bad : \A m \in Bad : n <= m
    BY <2>1, LeastNumber
  <2>3. n # 0
    BY <1>2, <2>2
  <2>4. n - 1 \in Nat /\ n - 1 < len /\ n - 1 \in 0..len /\ n - 1 \notin Bad /\ (n - 1) + 1 = n
    BY <1>1, <2>2, <2>3
  <2>5. Filled(Entered[n], n)
    BY <1>3, <2>4
  <2> QED BY <2>2, <2>5
<1>5. len \in 0..len
  BY <1>1
<1> HIDE DEF len
<1>6. Filled(Entered[len], len)
  BY <1>4, <1>5
<1> QED BY <1>6 DEF conn_add_servers, len

\* hash_lookup finds a server's own address.
LEMMA LookupFinds ==
  ASSUME opt \in Options, Filled(table, Len(opt.servers)), NEW m \in 1..Len(opt.servers)
  PROVE  hash_lookup(opt.servers[m]) = opt.servers[m]
<1> DEFINE x == opt.servers[m]
<1> DEFINE p == Probes(x, LAMBDA i : table[i].hostname \in {x, ""})
<1>1. TableSize \in Nat \ {0} /\ x # "" /\ Hash[x] \in Nat
  BY TableAssumption, ServerNames
<1>2. PICK d \in Slots : /\ table[Probe(x, d)].hostname = x
                         /\ \A e \in 0..(d - 1) : table[Probe(x, e)] # Empty
  BY DEF Filled
<1>3. \A i \in Slots : table[i] # Empty =>
        table[i].hostname # "" /\ table[i].sin = table[i].hostname
  <2> TAKE i \in Slots
  <2> HAVE table[i] # Empty
  <2>1. PICK l \in 1..Len(opt.servers) : table[i] = [hostname |-> opt.servers[l], sin |-> opt.servers[l]]
    BY DEF Filled
  <2> DEFINE z == opt.servers[l]
  <2>2. z # "" /\ table[i] = [hostname |-> z, sin |-> z]
    BY <2>1, ServerNames
  <2> HIDE DEF z
  <2>3. table[i].hostname = z /\ table[i].sin = z
    BY <2>2, EntryFields, Zenon
  <2> QED BY <2>2, <2>3
<1> HIDE DEF x
<1>4. \A e \in Nat : Probe(x, e) \in Slots
  <2> DEFINE All == Slots
  <2>1. All \in SUBSET Slots /\ All # {}
    BY <1>1 DEF Slots
  <2> HIDE DEF All
  <2> QED BY <1>1, <2>1, FirstProbe
<1> DEFINE Good == {i \in Slots : table[i].hostname \in {x, ""}}
<1>5. d \in Nat /\ d < TableSize
  BY SlotNumber
<1>6. Probe(x, d) \in Good
  BY <1>2, <1>4, <1>5
<1>7. PICK l \in Slots : Probe(x, l) \in Good /\ \A e \in 0..(l - 1) : Probe(x, e) \notin Good
  <2>1. Good \in SUBSET Slots /\ Good # {}
    BY <1>6
  <2> HIDE DEF Good
  <2> QED BY <1>1, <2>1, FirstProbe
<1>8. l \in Nat /\ l \in 0..TableSize /\ l < TableSize
  BY SlotNumber, <1>7
<1> DEFINE First(n) == /\ n = TableSize \/ table[Probe(x, n)].hostname \in {x, ""}
                       /\ \A e \in 0..(n - 1) : ~(table[Probe(x, e)].hostname \in {x, ""})
<1>9. First(l)
  <2>1. \A e \in 0..(l - 1) : Probe(x, e) \in Slots
    BY <1>4, <1>8
  <2> QED BY <1>7, <2>1
<1>10. p = CHOOSE n \in 0..TableSize : First(n)
  BY Zenon DEF Probes
<1>11. p \in 0..TableSize /\ First(p)
  <2> HIDE DEF First, p
  <2> QED BY <1>8, <1>9, <1>10
<1>12. hash_lookup(x) = IF p = TableSize THEN "" ELSE table[Probe(x, p)].sin
  BY Zenon DEF hash_lookup
<1> HIDE DEF p
<1>13. p \in Nat /\ p <= TableSize
  <2>1. p \in 0..TableSize
    BY <1>11
  <2>2. \A n \in 0..TableSize : n \in Nat /\ n <= TableSize
    BY TableAssumption
  <2> QED BY <2>1, <2>2, Zenon
<1>17. ~(d < p)
  <2> SUFFICES ASSUME d < p PROVE FALSE
    OBVIOUS
  <2>1. table[Probe(x, d)].hostname \in {x, ""}
    BY <1>2
  <2>2. d \in 0..(p - 1)
    BY <1>5, <1>13
  <2> QED BY <1>11, <2>1, <2>2
<1>18. p # TableSize
  BY <1>1, <1>5, <1>13, <1>17
<1>14. Probe(x, p) \in Slots /\ table[Probe(x, p)].hostname \in {x, ""}
  BY <1>4, <1>11, <1>13, <1>18
<1>15. table[Probe(x, p)].hostname = x /\ table[Probe(x, p)] # Empty
  <2>1. Empty.hostname = ""
    BY DEF Empty
  <2>2. CASE p = d
    BY <1>1, <1>2, <2>1, <2>2
  <2>3. CASE p # d
    <3>1. p \in 0..(d - 1)
      BY <1>5, <1>13, <1>17, <2>3
    <3>2. table[Probe(x, p)] # Empty
      BY <1>2, <3>1
    <3> QED BY <1>3, <1>14, <3>2
  <2> QED BY <2>2, <2>3
<1>16. hash_lookup(x) = x
  BY <1>3, <1>12, <1>18, <1>14, <1>15
<1> QED BY <1>16 DEF x

-----------------------------------------------------------------------------
(* Servers and local addresses are taken in turn *)

Given(h) == {j \in DOMAIN conns : conns[j].hostname = h}
Using(a) == {j \in DOMAIN conns : conns[j].myaddr = a}

\* One more turn for those before the one that is next
Ahead(i, next) == IF i < next THEN 1 ELSE 0

\* The servers differ, and the table has room for them.
Roomy == /\ Len(opt.servers) <= TableSize
         /\ \A i, j \in DOMAIN opt.servers : opt.servers[i] = opt.servers[j] => i = j

InTurn ==
  /\ \E turns \in Nat : \A i \in 1..Len(opt.servers) :
       Cardinality(Given(opt.servers[i])) = turns + Ahead(i, current)
  /\ \E turns \in Nat : \A a \in Addresses : Cardinality(Using(a)) = turns + Ahead(a, last)

\* A connection without a descriptor has not come to the end of socket.
Looked ==
  /\ \A h \in Names : hash_lookup(h) = h
  /\ \A j \in DOMAIN conns :
       /\ conns[j].sd = None /\ conns[j].state = "INITIAL" => conns[j].myaddr = 0
       /\ conns[j].sd # None => conns[j].sin = conns[j].hostname

Spread == InTurn /\ Looked

\* The next one has its turn.
LEMMA TurnTaken ==
  ASSUME NEW n \in Nat \ {0}, NEW next \in 1..n, NEW f \in [1..n -> Nat], NEW g \in [1..n -> Nat],
         \E turns \in Nat : \A i \in 1..n : f[i] = turns + Ahead(i, next),
         g[next] = f[next] + 1, \A i \in 1..n : i # next => g[i] = f[i],
         NEW then, then = IF next = n THEN 1 ELSE next + 1
  PROVE  \E turns \in Nat : \A i \in 1..n : g[i] = turns + Ahead(i, then)
<1>1. PICK turns \in Nat : \A i \in 1..n : f[i] = turns + Ahead(i, next)
  OBVIOUS
<1>2. CASE next = n
  <2>1. \A i \in 1..n : g[i] = (turns + 1) + Ahead(i, then)
    <3> TAKE i \in 1..n
    <3>1. f[i] = turns + Ahead(i, next) /\ i \in Nat /\ then = 1 /\ Ahead(i, then) = 0
      BY <1>1, <1>2 DEF Ahead
    <3>2. CASE i = next
      <4>1. Ahead(i, next) = 0 /\ g[i] = f[i] + 1
        BY <3>2 DEF Ahead
      <4> QED BY <3>1, <4>1
    <3>3. CASE i # next
      <4>1. Ahead(i, next) = 1 /\ g[i] = f[i]
        BY <1>2, <3>3 DEF Ahead
      <4> QED BY <3>1, <4>1
    <3> QED BY <3>2, <3>3
  <2> QED BY <2>1
<1>3. CASE next # n
  <2>1. \A i \in 1..n : g[i] = turns + Ahead(i, then)
    <3> TAKE i \in 1..n
    <3>1. f[i] = turns + Ahead(i, next) /\ i \in Nat /\ then = next + 1 /\ next \in Nat
      BY <1>1, <1>3
    <3>2. CASE i = next
      <4>1. Ahead(i, next) = 0 /\ Ahead(i, then) = 1 /\ g[i] = f[i] + 1
        BY <3>1, <3>2 DEF Ahead
      <4> QED BY <3>1, <4>1
    <3>3. CASE i # next
      <4>1. Ahead(i, next) = Ahead(i, then) /\ g[i] = f[i]
        BY <3>1, <3>3 DEF Ahead
      <4> QED BY <3>1, <4>1
    <3> QED BY <3>2, <3>3
  <2> QED BY <2>1
<1> QED BY <1>2, <1>3

LEMMA CountsFinite ==
  ASSUME conns \in Seq(Conn)
  PROVE  /\ \A h : IsFiniteSet(Given(h)) /\ Cardinality(Given(h)) \in Nat
         /\ \A a : IsFiniteSet(Using(a)) /\ Cardinality(Using(a)) \in Nat
<1> DEFINE D == DOMAIN conns
<1>1. IsFiniteSet(D)
  <2>1. Len(conns) \in Nat /\ D = 1..Len(conns)
    OBVIOUS
  <2>2. IsFiniteSet(1..Len(conns))
    BY <2>1, FS_Interval
  <2> QED BY <2>1, <2>2
<1>2. \A h : Given(h) \in SUBSET D
  BY DEF Given
<1>3. \A a : Using(a) \in SUBSET D
  BY DEF Using
<1> HIDE DEF D
<1> QED BY <1>1, <1>2, <1>3, FS_Subset, FS_CardinalityType

\* Nobody's turn is over.
LEMMA SpreadOn ==
  ASSUME Spread, UNCHANGED <<opt, table, current, last>>, DOMAIN conns' = DOMAIN conns,
         \A j \in DOMAIN conns :
           /\ conns'[j].hostname = conns[j].hostname
           /\ conns'[j].sin = conns[j].sin
           /\ conns'[j].myaddr = conns[j].myaddr
           /\ conns'[j].state = "INITIAL" => conns[j].state = "INITIAL" /\ conns'[j].sd = conns[j].sd
           /\ conns'[j].sd \in {conns[j].sd, None}
  PROVE  Spread'
<1>1. /\ \A h : Given(h)' = {j \in DOMAIN conns' : conns'[j].hostname = h}
      /\ \A a : Using(a)' = {j \in DOMAIN conns' : conns'[j].myaddr = a}
  BY DEF Given, Using
<1>2. (\A h : Given(h)' = Given(h)) /\ \A a : Using(a)' = Using(a)
  BY <1>1 DEF Given, Using
<1>3. (\A h : hash_lookup(h)' = hash_lookup(h)) /\ Names' = Names /\ Addresses' = Addresses
  <2>1. \A h : hash_lookup(h)' = hash_lookup(h)
    BY DEF hash_lookup, Probes
  <2> QED BY <2>1 DEF Names, Addresses
<1>4. InTurn'
  BY <1>2, <1>3 DEF Spread, InTurn
<1>5. Looked'
  BY <1>3 DEF Spread, Looked
<1> QED BY <1>4, <1>5 DEF Spread

\* A connection is opened for the server whose turn it is.
LEMMA SpreadOpen ==
  ASSUME Calls, Calls', Roomy, Spread, NEW below, NewConn(below)
  PROVE  Spread'
<1> DEFINE n == Len(conns) + 1
<1> DEFINE N == Len(opt.servers)
<1> DEFINE new == [state |-> "INITIAL", hostname |-> opt.servers[current],
                   sin |-> "", sd |-> None, myaddr |-> 0, myport |-> None]
<1>1. /\ UNCHANGED <<opt, table, last>> /\ conns' = Append(conns, new)
      /\ current' = (current % N) + 1
  BY DEF NewConn
<1>2. /\ conns \in Seq(Conn) /\ current \in 1..N /\ N \in Nat \ {0} /\ opt.addresses \in Nat \ {0}
      /\ DOMAIN opt.servers = 1..N
  <2>1. opt \in Options /\ conns \in Seq(Conn) /\ current \in 1..N
    BY DEF Calls, Typed
  <2> QED BY <2>1, ServerNames, OptionsAssumption
<1>3. /\ new.state = "INITIAL" /\ new.sd = None /\ new.myaddr = 0
      /\ new.hostname = opt.servers[current]
  OBVIOUS
<1> HIDE DEF new
<1>4. /\ n \notin DOMAIN conns /\ DOMAIN conns' = DOMAIN conns \union {n}
      /\ conns'[n] = new /\ \A j \in DOMAIN conns : conns'[j] = conns[j]
  BY <1>1, <1>2
<1> HIDE DEF n
<1>5. /\ \A h : Given(h)' = {j \in DOMAIN conns' : conns'[j].hostname = h}
      /\ \A a : Using(a)' = {j \in DOMAIN conns' : conns'[j].myaddr = a}
  BY DEF Given, Using
<1>6. \A a \in Addresses : Using(a)' = Using(a)
  <2>1. 0 \notin Addresses
    BY <1>2 DEF Addresses
  <2> QED BY <1>3, <1>4, <1>5, <2>1 DEF Using
<1> DEFINE After(h) == {j \in DOMAIN conns' : conns'[j].hostname = h}
<1> DEFINE s == opt.servers
<1>7. /\ After(s[current]) = Given(s[current]) \union {n}
      /\ n \notin Given(s[current])
      /\ \A i \in 1..N : i # current => After(s[i]) = Given(s[i])
  <2>1. new.hostname = s[current] /\ \A i \in 1..N : i # current => s[i] # s[current]
    BY <1>2, <1>3 DEF Roomy
  <2> HIDE DEF s, N
  <2>2. After(s[current]) = Given(s[current]) \union {n} /\ n \notin Given(s[current])
    BY <1>4, <2>1 DEF Given
  <2>3. \A i \in 1..N : i # current => After(s[i]) = Given(s[i])
    BY <1>4, <2>1 DEF Given
  <2> QED BY <2>2, <2>3
<1> DEFINE f == [i \in 1..N |-> Cardinality(Given(s[i]))]
<1> DEFINE g == [i \in 1..N |-> Cardinality(After(s[i]))]
<1>8. \E turns \in Nat : \A i \in 1..N : Cardinality(After(s[i])) = turns + Ahead(i, current')
  <2>1. f \in [1..N -> Nat]
    BY <1>2, CountsFinite
  <2>2. Cardinality(After(s[current])) = Cardinality(Given(s[current])) + 1
    <3> DEFINE G == Given(s[current])
    <3>1. IsFiniteSet(G) /\ n \notin G
      BY <1>2, <1>7, CountsFinite
    <3> HIDE DEF G
    <3>2. Cardinality(G \union {n}) = Cardinality(G) + 1
      BY <3>1, FS_AddElement
    <3> QED BY <1>7, <3>2 DEF G
  <2>3. g[current] = f[current] + 1
    BY <1>2, <2>2
  <2>4. \A i \in 1..N : i # current => g[i] = f[i]
    BY <1>7
  <2>5. \A i \in 1..N : g[i] \in Nat
    <3> HIDE DEF f, g, N
    <3> QED BY <1>2, <2>1, <2>3, <2>4
  <2>6. g \in [1..N -> Nat]
    <3> HIDE DEF N, After
    <3> QED BY <2>5
  <2>7. current' = IF current = N THEN 1 ELSE current + 1
    <3> HIDE DEF N
    <3>1. current % N = IF current = N THEN 0 ELSE current
      BY <1>2, SMT
    <3> QED BY <1>1, <1>2, <3>1
  <2>8. \E turns \in Nat : \A i \in 1..N : f[i] = turns + Ahead(i, current)
    BY DEF Spread, InTurn
  <2>9. \A i \in 1..N : g[i] = Cardinality(After(s[i]))
    OBVIOUS
  <2> HIDE DEF f, g, N, s, After
  <2>10. \A then : then = (IF current = N THEN 1 ELSE current + 1)
            => \E turns \in Nat : \A i \in 1..N : g[i] = turns + Ahead(i, then)
    <3>1. N \in Nat \ {0} /\ current \in 1..N
      BY <1>2
    <3> QED BY <3>1, <2>1, <2>3, <2>4, <2>6, <2>8, TurnTaken
  <2>11. \E turns \in Nat : \A i \in 1..N : g[i] = turns + Ahead(i, current')
    BY <2>7, <2>10, Zenon
  <2> QED BY <2>9, <2>11
<1>9. InTurn'
  <2>1. \E turns \in Nat : \A i \in 1..Len(opt'.servers) :
          Cardinality({j \in DOMAIN conns' : conns'[j].hostname = opt'.servers[i]}) = turns + Ahead(i, current')
    BY <1>1, <1>8
  <2>2. Addresses' = Addresses
    BY <1>1 DEF Addresses
  <2>3. \E turns \in Nat : \A a \in Addresses' : Cardinality(Using(a)') = turns + Ahead(a, last')
    BY <1>1, <1>6, <2>2 DEF Spread, InTurn
  <2> QED BY <2>1, <2>3 DEF InTurn, Ahead, Given
<1>10. Looked'
  <2>1. \A h : hash_lookup(h)' = hash_lookup(h)
    BY <1>1 DEF hash_lookup, Probes
  <2>2. Names' = Names
    BY <1>1 DEF Names
  <2>3. \A j \in DOMAIN conns' :
          /\ conns'[j].sd = None /\ conns'[j].state = "INITIAL" => conns'[j].myaddr = 0
          /\ conns'[j].sd # None => conns'[j].sin = conns'[j].hostname
    BY <1>3, <1>4 DEF Spread, Looked
  <2>4. \A h \in Names' : hash_lookup(h)' = h
    BY <2>1, <2>2 DEF Spread, Looked
  <2> QED BY <2>3, <2>4 DEF Looked
<1> QED BY <1>9, <1>10 DEF Spread

\* A connection takes the local address whose turn it is.
LEMMA SpreadSocket ==
  ASSUME Calls, Spread, socket
  PROVE  Spread' /\ error' # "unknown server"
<1> DEFINE N == opt.addresses
<1> DEFINE h == conns[k].hostname
<1> DEFINE c == [conns[k] EXCEPT !.sd = NewFd, !.sin = h, !.myaddr = last]
<1>1. /\ Typed /\ Gathered /\ At("socket") /\ k \in DOMAIN conns /\ conns[k] \in Conn /\ conns \in Seq(Conn)
      /\ N \in Nat \ {0} /\ last \in 1..N /\ Addresses = 1..N
  <2>1. At("socket") /\ stack # <<>>
    BY DEF socket, At
  <2>2. Typed /\ Gathered /\ conns \in Seq(Conn) /\ opt \in Options /\ last \in Addresses
    BY DEF Calls, Typed
  <2> QED BY <2>1, <2>2, InnermostLive, OptionsAssumption DEF Addresses
<1>2. conns[k].state = "INITIAL" /\ conns[k].sd = None /\ conns[k].myaddr = 0
  <2>1. conns[k].state = "INITIAL" /\ conns[k].sd = None
    BY <1>1 DEF Gathered
  <2> QED BY <1>1, <2>1 DEF Spread, Looked
<1>3. hash_lookup(h) = h /\ h # ""
  <2>1. h \in Names
    BY <1>1 DEF Conn
  <2>2. PICK m \in 1..Len(opt.servers) : h = opt.servers[m]
    BY <1>1, <2>1, ServerNames DEF Names, Typed
  <2>3. opt.servers[m] # ""
    BY <1>1, ServerNames DEF Typed
  <2> QED BY <2>1, <2>2, <2>3 DEF Spread, Looked
<1>4. /\ UNCHANGED <<opt, table, current>> /\ error' = "none" /\ last' = NextAddress
      /\ conns' = [conns EXCEPT ![k] = c]
  BY <1>3 DEF socket, names
<1>5. /\ c.sd # None /\ c.sin = c.hostname /\ c.hostname = conns[k].hostname /\ c.myaddr = last
  <2>1. NewFd \in Nat
    BY <1>1, FreshFd DEF Typed
  <2>2. NewFd # None
    BY <2>1 DEF None
  <2> QED BY <1>1, <2>2 DEF Conn
<1> HIDE DEF c
<1>6. /\ DOMAIN conns' = DOMAIN conns /\ conns'[k] = c
      /\ \A i \in DOMAIN conns : i # k => conns'[i] = conns[i]
  BY <1>1, <1>4
<1> DEFINE After(a) == {j \in DOMAIN conns' : conns'[j].myaddr = a}
<1>7. /\ After(last) = Using(last) \union {k} /\ k \notin Using(last)
      /\ \A a \in 1..N : a # last => After(a) = Using(a)
  <2>1. 0 \notin 1..N
    OBVIOUS
  <2> QED BY <1>1, <1>2, <1>5, <1>6, <2>1 DEF Using
<1> DEFINE f == [a \in 1..N |-> Cardinality(Using(a))]
<1> DEFINE g == [a \in 1..N |-> Cardinality(After(a))]
<1>9. \E turns \in Nat : \A a \in 1..N : Cardinality(After(a)) = turns + Ahead(a, last')
  <2>1. f \in [1..N -> Nat]
    BY <1>1, CountsFinite
  <2>2. Cardinality(After(last)) = Cardinality(Using(last)) + 1
    <3> DEFINE U == Using(last)
    <3>1. IsFiniteSet(U) /\ k \notin U
      BY <1>1, <1>7, CountsFinite
    <3> HIDE DEF U
    <3>2. Cardinality(U \union {k}) = Cardinality(U) + 1
      BY <3>1, FS_AddElement
    <3> QED BY <1>7, <3>2 DEF U
  <2>3. g[last] = f[last] + 1
    BY <1>1, <2>2
  <2>4. \A a \in 1..N : a # last => g[a] = f[a]
    BY <1>7
  <2>5. \A a \in 1..N : g[a] \in Nat
    <3> HIDE DEF f, g, N
    <3> QED BY <1>1, <2>1, <2>3, <2>4
  <2>6. g \in [1..N -> Nat]
    <3> HIDE DEF N, After
    <3> QED BY <2>5
  <2>7. last' = IF last = N THEN 1 ELSE last + 1
    BY <1>4 DEF NextAddress
  <2>8. \E turns \in Nat : \A a \in 1..N : f[a] = turns + Ahead(a, last)
    BY <1>1 DEF Spread, InTurn
  <2>9. \A a \in 1..N : g[a] = Cardinality(After(a))
    OBVIOUS
  <2> HIDE DEF f, g, N, After
  <2>10. \A then : then = (IF last = N THEN 1 ELSE last + 1)
           => \E turns \in Nat : \A a \in 1..N : g[a] = turns + Ahead(a, then)
    <3>1. N \in Nat \ {0} /\ last \in 1..N
      BY <1>1
    <3> QED BY <3>1, <2>1, <2>3, <2>4, <2>6, <2>8, TurnTaken
  <2>11. \E turns \in Nat : \A a \in 1..N : g[a] = turns + Ahead(a, last')
    BY <2>7, <2>10, Zenon
  <2> QED BY <2>9, <2>11
<1>10. InTurn'
  <2>1. Addresses' = 1..N
    BY <1>1, <1>4 DEF Addresses
  <2>2. \E turns \in Nat : \A a \in Addresses' :
          Cardinality({j \in DOMAIN conns' : conns'[j].myaddr = a}) = turns + Ahead(a, last')
    BY <1>9, <2>1
  <2>3. \E turns \in Nat : \A i \in 1..Len(opt'.servers) :
          Cardinality(Given(opt'.servers[i])) = turns + Ahead(i, current')
    BY <1>4 DEF Spread, InTurn
  <2>4. \E turns \in Nat : \A i \in 1..Len(opt'.servers) :
          Cardinality({j \in DOMAIN conns' : conns'[j].hostname = opt'.servers[i]}) = turns + Ahead(i, current')
    <3>1. \A s : {j \in DOMAIN conns' : conns'[j].hostname = s} = Given(s)
      BY <1>5, <1>6 DEF Given
    <3> QED BY <2>3, <3>1
  <2> QED BY <2>2, <2>4 DEF InTurn, Ahead, Given, Using
<1>11. Looked'
  <2>1. \A s : hash_lookup(s)' = hash_lookup(s)
    BY <1>4 DEF hash_lookup, Probes
  <2>2. Names' = Names
    BY <1>4 DEF Names
  <2>3. \A j \in DOMAIN conns' :
          /\ conns'[j].sd = None /\ conns'[j].state = "INITIAL" => conns'[j].myaddr = 0
          /\ conns'[j].sd # None => conns'[j].sin = conns'[j].hostname
    BY <1>5, <1>6 DEF Spread, Looked
  <2>4. \A s \in Names' : hash_lookup(s)' = s
    BY <2>1, <2>2 DEF Spread, Looked
  <2> QED BY <2>3, <2>4 DEF Looked
<1> QED BY <1>4, <1>10, <1>11 DEF Spread

Known == error # "unknown server"

\* The record of a connection changes, but not what it was assigned.
LEMMA SpreadOne ==
  ASSUME Spread, conns \in Seq(Conn), UNCHANGED <<opt, table, current, last>>,
         NEW j \in DOMAIN conns, NEW c, conns' = [conns EXCEPT ![j] = c],
         c.hostname = conns[j].hostname, c.sin = conns[j].sin, c.myaddr = conns[j].myaddr,
         c.state = "INITIAL" => conns[j].state = "INITIAL" /\ c.sd = conns[j].sd,
         c.sd \in {conns[j].sd, None}
  PROVE  Spread'
<1>1. DOMAIN conns' = DOMAIN conns /\ conns'[j] = c /\ \A i \in DOMAIN conns : i # j => conns'[i] = conns[i]
  OBVIOUS
<1>2. \A i \in DOMAIN conns :
        /\ conns'[i].hostname = conns[i].hostname
        /\ conns'[i].sin = conns[i].sin
        /\ conns'[i].myaddr = conns[i].myaddr
        /\ conns'[i].state = "INITIAL" => conns[i].state = "INITIAL" /\ conns'[i].sd = conns[i].sd
        /\ conns'[i].sd \in {conns[i].sd, None}
  <2> TAKE i \in DOMAIN conns
  <2>1. CASE i = j
    BY <1>1, <2>1
  <2>2. CASE i # j
    BY <1>1, <2>2
  <2> QED BY <2>1, <2>2
<1> QED BY <1>1, <1>2, SpreadOn

LEMMA SpreadStep == Calls /\ Calls' /\ Roomy /\ Spread /\ Known /\ [Next]_vars => Spread' /\ Known'
<1> SUFFICES ASSUME Calls, Calls', Roomy, Spread, Known, [Next]_vars PROVE Spread' /\ Known'
  OBVIOUS
<1>0. Typed /\ Gathered /\ conns \in Seq(Conn)
  BY DEF Calls, Typed
<1>1. CASE UNCHANGED <<opt, table, current, last, conns>> /\ Known'
  BY <1>1, SpreadOn
<1>2. CASE Connect \/ Reconnect
  <2>1. PICK below : NewConn(below)
    BY <1>2 DEF Connect, Reconnect
  <2> QED BY <2>1, SpreadOpen DEF NewConn, Known
<1>3. CASE socket
  BY <1>3, SpreadSocket DEF Known
<1>4. CASE socket_fails
  <2>1. UNCHANGED <<opt, table, current, last, conns>>
    BY <1>4 DEF socket_fails, names
  <2>2. \E e \in {"EMFILE", "ENOBUFS"} : error' = e
    BY <1>4 DEF socket_fails, Fail
  <2> QED BY <1>1, <2>1, <2>2 DEF Known
<1>5. CASE bind \/ connect
  <2>1. stack # <<>> /\ UNCHANGED <<opt, table, current, last>> /\ Known'
    BY <1>5 DEF bind, connect, At, names, Fail, Known
  <2>2. k \in DOMAIN conns /\ conns[k] \in Conn
    BY <2>1, InnermostLive
  <2>3. CASE conns' = conns
    BY <2>1, <2>3, SpreadOn
  <2>4. CASE conns' = [conns EXCEPT ![k].myport = Got(pool[conns[k].myaddr])]
    <3> DEFINE c == [conns[k] EXCEPT !.myport = Got(pool[conns[k].myaddr])]
    <3>1. /\ c.hostname = conns[k].hostname /\ c.sin = conns[k].sin /\ c.myaddr = conns[k].myaddr
          /\ c.state = conns[k].state /\ c.sd = conns[k].sd /\ conns' = [conns EXCEPT ![k] = c]
      BY <2>2, <2>4 DEF Conn
    <3> HIDE DEF c
    <3> QED BY <1>0, <2>1, <2>2, <3>1, SpreadOne
  <2>5. CASE conns' = [conns EXCEPT ![k].state = "CONNECTING"]
    <3> DEFINE c == [conns[k] EXCEPT !.state = "CONNECTING"]
    <3>1. /\ c.hostname = conns[k].hostname /\ c.sin = conns[k].sin /\ c.myaddr = conns[k].myaddr
          /\ c.state # "INITIAL" /\ c.sd = conns[k].sd /\ conns' = [conns EXCEPT ![k] = c]
      BY <2>2, <2>5 DEF Conn
    <3> HIDE DEF c
    <3> QED BY <1>0, <2>1, <2>2, <3>1, SpreadOne
  <2> QED BY <1>5, <2>1, <2>3, <2>4, <2>5 DEF bind, connect
<1>6. CASE connect_fails \/ conn_failure \/ PortExpires
  BY <1>1, <1>6 DEF connect_fails, conn_failure, PortExpires, Fail, names, Known
<1>7. CASE core_close \/ conn_failure_closes
  <2>1. PICK i \in Live : CloseConn(i)
    <3>1. conn_failure_closes => k \in Live
      BY InnermostLive DEF conn_failure_closes, At
    <3> QED BY <1>7, <3>1 DEF core_close, conn_failure_closes
  <2>2. /\ UNCHANGED <<opt, table, current, last>> /\ Known'
        /\ conns' = [conns EXCEPT ![i].state = "FREE", ![i].sd = None]
    BY <2>1 DEF CloseConn, names, Known
  <2>3. i \in DOMAIN conns /\ conns[i] \in Conn
    BY <1>0 DEF Live
  <2> DEFINE c == [conns[i] EXCEPT !.state = "FREE", !.sd = None]
  <2>4. /\ c.hostname = conns[i].hostname /\ c.sin = conns[i].sin /\ c.myaddr = conns[i].myaddr
        /\ c.state # "INITIAL" /\ c.sd = None /\ conns' = [conns EXCEPT ![i] = c]
    BY <2>2, <2>3 DEF Conn
  <2> HIDE DEF c
  <2> QED BY <1>0, <2>2, <2>3, <2>4, SpreadOne
<1>8. CASE Idle \/ UNCHANGED vars
  BY <1>1, <1>8 DEF Idle, vars, names, Known
<1> QED BY <1>2, <1>3, <1>4, <1>5, <1>6, <1>7, <1>8 DEF Next

LEMMA SpreadInit == Init /\ Roomy => Spread /\ Known
<1> SUFFICES ASSUME Init, Roomy PROVE Spread /\ Known
  OBVIOUS
<1>1. opt \in Options /\ table = conn_add_servers /\ current = 1 /\ last = 1 /\ conns = <<>> /\ Known
  BY DEF Init, Known
<1>2. \A h \in Names : hash_lookup(h) = h
  <2>1. Filled(table, Len(opt.servers))
    BY <1>1, AllEntered DEF Roomy
  <2>2. \A m \in 1..Len(opt.servers) : hash_lookup(opt.servers[m]) = opt.servers[m]
    BY <1>1, <2>1, LookupFinds
  <2> QED BY <1>1, <2>2, ServerNames DEF Names
<1>3. InTurn
  <2>1. \A x : Given(x) = {} /\ Using(x) = {}
    BY <1>1 DEF Given, Using
  <2>2. \A i \in Nat \ {0} : Ahead(i, 1) = 0
    BY DEF Ahead
  <2>3. \A x : Cardinality(Given(x)) = 0 /\ Cardinality(Using(x)) = 0
    BY <2>1, FS_EmptySet
  <2>4. /\ \A i \in 1..Len(opt.servers) : Cardinality(Given(opt.servers[i])) = 0 + Ahead(i, current)
        /\ \A a \in Addresses : Cardinality(Using(a)) = 0 + Ahead(a, last)
    <3>0. \A m \in Nat : \A i \in 1..m : i \in Nat \ {0}
      OBVIOUS
    <3>1. Len(opt.servers) \in Nat /\ opt.addresses \in Nat
      BY <1>1, ServerNames, OptionsAssumption
    <3>2. /\ \A i \in 1..Len(opt.servers) : Ahead(i, 1) = 0
          /\ \A a \in 1..opt.addresses : Ahead(a, 1) = 0
      BY <2>2, <3>0, <3>1
    <3> QED BY <1>1, <2>3, <3>2 DEF Addresses
  <2> QED BY <2>4 DEF InTurn
<1>4. Looked
  BY <1>1, <1>2 DEF Looked
<1> QED BY <1>1, <1>3, <1>4 DEF Spread

LEMMA SpreadAll == Calls /\ Spread /\ Known => LoadIsSpread
<1> SUFFICES ASSUME Calls, Spread, Known PROVE LoadIsSpread
  OBVIOUS
<1>1. \A i, l : Ahead(i, l) \in {0, 1}
  BY DEF Ahead
<1>2. (\A h : Cardinality(Given(h)) \in Nat) /\ \A a : Cardinality(Using(a)) \in Nat
  BY CountsFinite DEF Calls, Typed
<1>3. \A h, g \in ToSet(opt.servers) : Cardinality(Given(h)) <= 1 + Cardinality(Given(g))
  <2> TAKE h, g \in ToSet(opt.servers)
  <2>1. PICK i \in 1..Len(opt.servers) : h = opt.servers[i]
    BY ServerNames DEF ToSet, Calls, Typed
  <2>2. PICK l \in 1..Len(opt.servers) : g = opt.servers[l]
    BY ServerNames DEF ToSet, Calls, Typed
  <2>3. PICK turns \in Nat : \A m \in 1..Len(opt.servers) :
          Cardinality(Given(opt.servers[m])) = turns + Ahead(m, current)
    BY DEF Spread, InTurn
  <2>4. Cardinality(Given(h)) = turns + Ahead(i, current) /\ Cardinality(Given(g)) = turns + Ahead(l, current)
    BY <2>1, <2>2, <2>3
  <2> QED BY <1>1, <2>4
<1>4. \A a, b \in Addresses : Cardinality(Using(a)) <= 1 + Cardinality(Using(b))
  <2> TAKE a, b \in Addresses
  <2>1. PICK turns \in Nat : \A m \in Addresses : Cardinality(Using(m)) = turns + Ahead(m, last)
    BY DEF Spread, InTurn
  <2>2. Cardinality(Using(a)) = turns + Ahead(a, last) /\ Cardinality(Using(b)) = turns + Ahead(b, last)
    BY <2>1
  <2> QED BY <1>1, <2>2
<1>5. \A j \in DOMAIN conns : conns[j].sd # None => conns[j].sin = conns[j].hostname
  BY DEF Spread, Looked
<1> QED BY <1>3, <1>4, <1>5 DEF LoadIsSpread, Assigned, Given, Using, Known

\* Each connection goes to the address of its server, and servers and local addresses
\* get connections in turn (conn_init, core_get_next_myaddr), if the servers differ and
\* the table has room for them.
THEOREM LoadSpread == Spec => [](Roomy => LoadIsSpread)
<1>1. Init => (Roomy => Spread /\ Known)
  BY SpreadInit
<1>2. Calls /\ Calls' /\ (Roomy => Spread /\ Known) /\ [Next]_vars => (Roomy => Spread /\ Known)'
  <2>1. [Next]_vars => (Roomy' <=> Roomy)
    BY Constancy DEF Roomy
  <2> QED BY <2>1, SpreadStep
<1>3. Calls /\ (Roomy => Spread /\ Known) => (Roomy => LoadIsSpread)
  BY SpreadAll
<1> QED BY <1>1, <1>2, <1>3, CallsInductive, PTL DEF Spec
=============================================================================
