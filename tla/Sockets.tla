------------------------------ MODULE Sockets ------------------------------
(***************************************************************************)
(* What a connection needs before it can talk (core.c, conn.c): a server's *)
(* name, taken in turn (conn_init) and found in the hash table; a socket;  *)
(* a local address, taken in turn (--myaddr); and with --hog a local port  *)
(* from the pool of that address, a bitmap searched word by word.          *)
(*                                                                         *)
(* core_connect is cut at its system calls.  The calls of core_connect and *)
(* conn_failure that have not returned are on a stack: a handler of        *)
(* EV_CONN_FAILED may open a connection before the one that failed is      *)
(* closed.  Ports are numbered from 0, MIN_IP_PORT: port -1 is the one     *)
(* below it, which is reserved.                                            *)
(***************************************************************************)
EXTENDS Integers, FiniteSets, Sequences, SequencesExt

CONSTANTS Options,     \* the command lines, the builds and what the system may refuse
          Bits,        \* BITSPERLONG
          Words,       \* NELEMS (port_free_map)
          TableSize,   \* HASH_TABLE_SIZE
          Hash         \* hash_code of the servers' names

ASSUME PoolAssumption == Bits \in Nat \ {0} /\ Words \in Nat \ {0}
ASSUME TableAssumption == TableSize \in Nat \ {0}
\* There is a server and a local address.  int_bits: how many bits of a long ffs sees.
\* shifted: the bits of 1UL << -1, which C leaves undefined; the processors take the
\* distance modulo Bits, or shift everything out.
ASSUME OptionsAssumption ==
  \A o \in Options : /\ o.addresses \in Nat \ {0} /\ o.servers \in Seq(STRING) \ {<<>>}
                     /\ o.int_bits \in 1..Bits /\ o.shifted \subseteq {Bits - 1}
\* A server has a name ("" is the mark of an empty slot); what hash_code returns is
\* not negative.
ASSUME NamesAssumption ==
  \A o \in Options : \A i \in DOMAIN o.servers :
    o.servers[i] # "" /\ Hash[o.servers[i]] \in Nat

VARIABLES opt,       \* fixed for a run
          table,     \* hash_table
          current,   \* srvcurrent, an index into the list of servers
          pool,      \* myaddrs.addresses
          last,      \* myaddrs.last
          conns,     \* the connections in the order they were created
          stack,     \* <<connection, where>>, innermost first
          error,     \* why core_connect has failed in the last step, or "none"
          fds,       \* the descriptors that are open
          busy,      \* <<address, port>> that are bound elsewhere or in TIME_WAIT
          rejected   \* history: <<address, port>> whose bind has failed, not put back since

names == <<table, current>>
kernel == <<fds, busy>>
vars == <<opt, names, pool, last, conns, stack, error, kernel, rejected>>

Ports == 0..(Words * Bits - 1)
Addresses == 1..opt.addresses
None == -2

-----------------------------------------------------------------------------
(* The table of servers: open addressing, an entry is a name and its address*)

Empty == [hostname |-> "", sin |-> ""]
Probe(name, n) == (Hash[name] + n) % TableSize

\* The number of probes before the first slot that passes, TableSize if none does.
Probes(name, Passes(_)) ==
  CHOOSE n \in 0..TableSize :
    /\ n = TableSize \/ Passes(Probe(name, n))
    /\ \A m \in 0..(n - 1) : ~Passes(Probe(name, m))

\* Mutant of hash_enter: does not probe.
hash_overwrite(t, name, sin) == [t EXCEPT ![Probe(name, 0)] = [hostname |-> name, sin |-> sin]]

\* hash_enter searches for ever in a table that is full.
hash_enter(t, name, sin) ==
  LET n == Probes(name, LAMBDA i : t[i] = Empty)
  IN  [t EXCEPT ![Probe(name, n)] = [hostname |-> name, sin |-> sin]]

hash_lookup(name) ==
  LET n == Probes(name, LAMBDA i : table[i].hostname \in {name, ""})
  IN  IF n = TableSize THEN "" ELSE table[Probe(name, n)].sin

\* core_addr_intern, with gethostbyname: the address of a name is the name itself.
core_addr_intern(t, name) == hash_enter(t, name, name)

\* The table after the first n servers
Entered[n \in 0..Len(opt.servers)] ==
  IF n = 0 THEN [i \in 0..(TableSize - 1) |-> Empty]
  ELSE core_addr_intern(Entered[n - 1], opt.servers[n])

conn_add_servers == Entered[Len(opt.servers)]

-----------------------------------------------------------------------------
(* The pool of ports of a local address.  mask: the bits of the word        *)
(* `previous' that are still to be tried.                                  *)

AllBits == 0..(Bits - 1)
Word(addr, i) == {b \in AllBits : i * Bits + b \in addr.free}

core_add_address == [free |-> Ports, mask |-> AllBits, previous |-> 0]

\* Port -1 sets a bit in front of the map, in the padding behind the address.
port_put(addr, port) == [addr EXCEPT !.free = @ \union ({port} \intersect Ports)]

\* Mutant of NextWords: the search ends with the last word of the map.
WordsBehind(i) == (i + 1)..(Words - 1)

\* The words port_get tries when the present one has nothing left under its mask,
\* as distances from it.
NextWords(i) == {(i + n) % Words : n \in 1..(Words - 1)}

Distance(i, j) == (j - i) % Words

\* The word port_get takes a port from; None: out of port numbers.
TakenWord(addr) ==
  LET i == addr.previous
      filled == {j \in NextWords(i) : Word(addr, j) # {}}
  IN  IF Word(addr, i) \intersect addr.mask # {} THEN i
      ELSE IF filled = {} THEN None
      ELSE CHOOSE j \in filled : \A k \in filled : Distance(i, j) <= Distance(i, k)

\* The lowest bit, counted from 1; 0 if there is none.  ffs takes an int: of a long it
\* sees the low half, and the code for the other half is compiled only if SIZEOF_LONG
\* is defined, which nothing does.  (ffsl on FreeBSD, and an int as wide as a long,
\* miss nothing: int_bits = Bits.)
lffs(bits) ==
  LET seen == {b \in bits : b < opt.int_bits}
  IN  IF seen = {} THEN 0 ELSE 1 + CHOOSE b \in seen : \A c \in seen : b <= c

\* port_get goes on with bit -1 if lffs has missed the bits that are left: it returns the
\* last port of the word before, and clears what the shift gives.
TakenBit(addr) ==
  LET i == TakenWord(addr)
  IN  lffs(IF i = addr.previous THEN Word(addr, i) \intersect addr.mask ELSE Word(addr, i)) - 1

Got(addr) == TakenWord(addr) * Bits + TakenBit(addr)
Cleared(addr) == IF TakenBit(addr) < 0 THEN opt.shifted ELSE {TakenBit(addr)}

\* The bits above the one taken are left to try; bit -1 is compared with a size_t, as
\* if it were beyond the word.
port_get(addr) ==
  [addr EXCEPT !.free = @ \ {TakenWord(addr) * Bits + b : b \in Cleared(addr)},
               !.previous = TakenWord(addr),
               !.mask = IF TakenBit(addr) < 0 THEN {} ELSE {b \in AllBits : b > TakenBit(addr)}]

-----------------------------------------------------------------------------
Init ==
  /\ opt \in Options
  /\ table = conn_add_servers
  /\ current = 1
  /\ pool = [a \in Addresses |-> core_add_address]
  /\ last = 1
  /\ conns = <<>>
  /\ stack = <<>>
  /\ error = "none"
  /\ fds = {}
  /\ busy = opt.busy
  /\ rejected = {}

Allowed(e) == e \in opt.errors

At(where) == stack # <<>> /\ stack[1][2] = where
k == stack[1][1]      \* the connection core_connect is working on
Goto(where) == stack' = <<<<k, where>>>> \o Tail(stack)
Fail(e) == Goto("failed") /\ error' = e

Live == {j \in DOMAIN conns : conns[j].state # "FREE"}

\* conn_new and conn_init, and the call of core_connect from the calls below it
NewConn(below) ==
  /\ Len(conns) < opt.num_conns
  /\ Cardinality(Live) < opt.open
  /\ conns' = Append(conns, [state |-> "INITIAL", hostname |-> opt.servers[current],
                             sin |-> "", sd |-> None, myaddr |-> 0, myport |-> None])
  /\ current' = (current % Len(opt.servers)) + 1
  /\ stack' = <<<<Len(conns) + 1, "socket">>>> \o below
  /\ error' = "none"
  /\ UNCHANGED <<opt, table, pool, last, kernel, rejected>>

\* The load generator opens a connection ...
Connect == stack = <<>> /\ NewConn(stack)
\* ... and the session manager another one for the connection that fails.
Reconnect == /\ opt.reconnects /\ At("failed")
             /\ NewConn(<<<<k, "closing">>>> \o Tail(stack))

\* The lowest descriptor that is free
NewFd == CHOOSE d \in 0..Cardinality(fds) : d \notin fds /\ \A f \in 0..(d - 1) : f \in fds

\* No descriptor, or fcntl or setsockopt fails before the connection knows its own.
socket_fails ==
  /\ At("socket")
  /\ \E e \in opt.errors \intersect {"EMFILE", "ENOBUFS"} :
       /\ fds' = IF e = "EMFILE" THEN fds ELSE fds \union {NewFd}
       /\ Fail(e)
  /\ UNCHANGED <<opt, names, pool, last, conns, busy, rejected>>

\* core_get_next_myaddr
NextAddress == IF last = opt.addresses THEN 1 ELSE last + 1

socket ==
  /\ At("socket")
  /\ fds' = fds \union {NewFd}
  /\ LET sin == hash_lookup(conns[k].hostname)
     IN IF sin = ""
        THEN /\ conns' = [conns EXCEPT ![k].sd = NewFd]
             /\ Fail("unknown server")
             /\ UNCHANGED last
        ELSE /\ conns' = [conns EXCEPT ![k].sd = NewFd, ![k].sin = sin, ![k].myaddr = last]
             /\ last' = NextAddress
             /\ Goto(IF opt.hog THEN "bind" ELSE "connect")
             /\ error' = "none"
  /\ UNCHANGED <<opt, names, pool, busy, rejected>>

\* One turn of the loop that looks for a port that can be bound: only
\* EADDRNOTAVAIL ends it.  The port that was refused is not put back.
\* A reserved port is refused (EACCES) unless the program is privileged.
InUse(a, port) == \/ <<a, port>> \in busy
                  \/ \E j \in Live : conns[j].myaddr = a /\ conns[j].myport = port
Reserved(port) == port < 0

bind ==
  /\ At("bind")
  /\ LET a == conns[k].myaddr  addr == pool[a]
     IN IF TakenWord(addr) = None
        THEN Fail("out of ports") /\ UNCHANGED <<pool, conns, rejected>>
        ELSE /\ pool' = [pool EXCEPT ![a] = port_get(addr)]
             /\ \/ /\ ~InUse(a, Got(addr))
                   /\ conns' = [conns EXCEPT ![k].myport = Got(addr)]
                   /\ Goto("connect") /\ error' = "none"
                   /\ UNCHANGED rejected
                \/ /\ InUse(a, Got(addr)) \/ Reserved(Got(addr))
                   /\ error' = "none"
                   /\ rejected' = rejected \union {<<a, Got(addr)>>}
                   /\ UNCHANGED <<conns, stack>>
                \/ /\ Allowed("EADDRNOTAVAIL")
                   /\ Fail("EADDRNOTAVAIL")
                   /\ rejected' = rejected \union {<<a, Got(addr)>>}
                   /\ UNCHANGED conns
  /\ UNCHANGED <<opt, names, last, kernel>>

\* connect is in progress, or has succeeded
connect ==
  /\ At("connect")
  /\ conns' = [conns EXCEPT ![k].state = "CONNECTING"]
  /\ stack' = Tail(stack)
  /\ error' = "none"
  /\ UNCHANGED <<opt, names, pool, last, kernel, rejected>>

\* It fails at once: the port goes back, and core_close will put it back again.
connect_fails ==
  /\ At("connect") /\ Allowed("ECONNREFUSED")
  /\ pool' = IF conns[k].myport = None THEN pool
             ELSE [pool EXCEPT ![conns[k].myaddr] = port_put(@, conns[k].myport)]
  /\ Fail("ECONNREFUSED")
  /\ UNCHANGED <<opt, names, last, conns, kernel, rejected>>

\* Mutant of ReturnPort: the port goes to the pool of the address that is next.
ReturnPortElsewhere(j) ==
  IF conns[j].myport = None THEN pool ELSE [pool EXCEPT ![last] = port_put(@, conns[j].myport)]

ReturnPort(j) ==
  IF conns[j].myport = None THEN pool
  ELSE [pool EXCEPT ![conns[j].myaddr] = port_put(@, conns[j].myport)]

\* core_close; the port of a connection that was established may stay in TIME_WAIT.
CloseConn(j) ==
  /\ conns' = [conns EXCEPT ![j].state = "FREE", ![j].sd = None]
  /\ fds' = fds \ {conns[j].sd}
  /\ pool' = ReturnPort(j)
  /\ rejected' = rejected \ {<<conns[j].myaddr, conns[j].myport>>}
  /\ \E wait \in BOOLEAN :
       /\ wait => conns[j].state = "CONNECTING" /\ conns[j].myport # None
       /\ busy' = IF wait THEN busy \union {<<conns[j].myaddr, conns[j].myport>>} ELSE busy
  /\ error' = "none"
  /\ UNCHANGED <<opt, names, last>>

\* A connection is done with.
core_close ==
  /\ stack = <<>>
  /\ \E j \in Live : CloseConn(j)
  /\ UNCHANGED stack

\* The end of conn_failure, after its handlers
conn_failure_closes ==
  /\ At("failed") \/ At("closing")
  /\ CloseConn(k)
  /\ stack' = Tail(stack)

\* A connection fails or times out.
conn_failure ==
  /\ stack = <<>>
  /\ \E j \in Live : stack' = <<<<j, "failed">>>>
  /\ error' = "none"
  /\ UNCHANGED <<opt, names, pool, last, conns, kernel, rejected>>

\* TIME_WAIT ends, or another program closes its socket.
PortExpires ==
  /\ \E p \in busy : busy' = busy \ {p}
  /\ error' = "none"
  /\ UNCHANGED <<opt, names, pool, last, conns, stack, fds, rejected>>

\* All connections have been opened and closed.
Idle == stack = <<>> /\ Live = {} /\ UNCHANGED vars

Next == \/ Connect \/ Reconnect \/ socket_fails \/ socket
        \/ bind \/ connect \/ connect_fails
        \/ core_close \/ conn_failure \/ conn_failure_closes \/ PortExpires \/ Idle

Spec == Init /\ [][Next]_vars

\* The loop that looks for a port runs in the only thread, TIME_WAIT ends, and other
\* programs close their sockets.
FairSpec == Spec /\ WF_vars(bind) /\ WF_vars(PortExpires)

-----------------------------------------------------------------------------
(* Properties *)

Holders(a, port) == {j \in Live : conns[j].myaddr = a /\ conns[j].myport = port}
Handed(a) == {port \in Ports : Holders(a, port) # {}}
Rejected(a) == {port \in Ports : <<a, port>> \in rejected}

\* A connection that core_close has still to be called for, though connect_fails has put
\* back its port.
Twice(j) == /\ conns[j].state = "INITIAL"
            /\ \E i \in DOMAIN stack : stack[i][1] = j /\ stack[i][2] \in {"failed", "closing"}
PutBack(a) == {port \in Ports : \E j \in Holders(a, port) : Twice(j)}

\* The ports port_get takes for others, or clears by mistake, where ffs does not see a
\* whole word: the last one of each word.
Mistaken == {p \in {i * Bits + Bits - 1 : i \in 0..(Words - 1)} : opt.int_bits < Bits}

\* core_connect, port_get and core_close, on every path: a port belongs to one connection
\* at most; it is free, belongs to a connection, or was refused by bind, and only one of
\* these, but for those port_get mistakes; and the descriptors that are open are those
\* of the connections.
ResourcesExact ==
  /\ \A a \in Addresses :
       /\ \A port \in Ports \union {-1} : Cardinality(Holders(a, port)) <= 1
       /\ Handed(a) \intersect pool[a].free \subseteq PutBack(a) \union Mistaken
       /\ Handed(a) \intersect Rejected(a) \subseteq PutBack(a) \union Mistaken
       /\ Rejected(a) \intersect pool[a].free \subseteq Mistaken
       /\ Ports \ Mistaken \subseteq pool[a].free \union Handed(a) \union Rejected(a)
  /\ fds = {conns[j].sd : j \in Live} \ {None}
  /\ \A i, j \in Live : i # j /\ conns[i].sd # None => conns[i].sd # conns[j].sd

\* port_get: when it reports that it is out of port numbers, no more than a word
\* of them is free, those of the present word: what its mask hides is not
\* looked at again.
OutOfPortsLate ==
  error = "out of ports" => Cardinality(pool[conns[k].myaddr].free) <= Bits

\* --hog, by its description: as many ports are used up as necessary.  While one is free,
\* a connection that looks for a port gets one, or port_get reports that it is out of
\* them: the loop in core_connect comes to an end.
SearchEnds == At("bind") ~> ~At("bind")

\* The same: port_get is out of ports only while a port is marked free or somebody has
\* one; not when every port is unused and none is known to be.
OutOfPortsInUse ==
  error = "out of ports" =>
    \E port \in Ports : port \in pool[conns[k].myaddr].free \/ InUse(conns[k].myaddr, port)

Assigned(Test(_)) == Cardinality({j \in DOMAIN conns : Test(conns[j])})

\* conn_init, hash_lookup and core_get_next_myaddr: each connection goes to the
\* address its server was entered with, and no server and no local address gets more
\* than one connection ahead of another.
LoadIsSpread ==
  /\ error # "unknown server"
  /\ \A j \in DOMAIN conns : conns[j].sd # None => conns[j].sin = conns[j].hostname
  /\ \A h, g \in ToSet(opt.servers) :
       Assigned(LAMBDA c : c.hostname = h) <= 1 + Assigned(LAMBDA c : c.hostname = g)
  /\ \A a, b \in Addresses :
       Assigned(LAMBDA c : c.myaddr = a) <= 1 + Assigned(LAMBDA c : c.myaddr = b)
=============================================================================
