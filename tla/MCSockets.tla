----------------------------- MODULE MCSockets -----------------------------
(* Command lines and systems for TLC. *)
EXTENDS Sockets, TLC

Plain == [servers |-> <<"s1">>, addresses |-> 1, hog |-> TRUE, num_conns |-> 6, open |-> 4,
          reconnects |-> TRUE, errors |-> {}, busy |-> {<<1, 1>>},
          int_bits |-> Bits, shifted |-> {}]

\* Four hosts fill the table; two of them collide with a third and wrap around.
Hosts == [Plain EXCEPT !.servers = <<"s1", "s2", "s3", "s4">>, !.busy = {}]
MCHash == "s1" :> 3 @@ "s2" :> 3 @@ "s3" :> 0 @@ "s4" :> 3

\* A long of two ints, as on 64 bits: the upper part of a word is not seen.
Wide == [Plain EXCEPT !.int_bits = 1, !.shifted = {Bits - 1}, !.busy = {}, !.num_conns = 5]

AllOptions ==
  { Plain,
    Wide, [Wide EXCEPT !.shifted = {}, !.busy = {<<1, 1>>}],
    [Wide EXCEPT !.open = 3, !.errors = {"ECONNREFUSED"}],
    [Plain EXCEPT !.open = 3, !.num_conns = 5,
                  !.errors = {"ECONNREFUSED", "EMFILE", "EADDRNOTAVAIL"}],
    [Hosts EXCEPT !.addresses = 2, !.open = 3, !.num_conns = 5],
    [Hosts EXCEPT !.addresses = 3, !.hog = FALSE, !.open = 3,
                  !.errors = {"ECONNREFUSED", "EMFILE"}] }

WideOptions == {[Wide EXCEPT !.reconnects = FALSE, !.num_conns = 4]}

\* One connection at a time, whose port may stay in TIME_WAIT.
WaitOptions == {[Plain EXCEPT !.reconnects = FALSE, !.open = 1, !.busy = {}]}
=============================================================================
