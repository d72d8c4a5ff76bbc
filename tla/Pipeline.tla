------------------------------ MODULE Pipeline ------------------------------
(***************************************************************************)
(* What a connection promises about its calls: they are issued in order    *)
(* while it is open, their requests are sent in that order, their replies  *)
(* complete in that order, and a call ends once, completed or lost when    *)
(* the connection closes, after which nothing happens any more.            *)
(***************************************************************************)
EXTENDS Integers

CONSTANT Calls      \* the calls, numbered 1..n in the order they are issued

VARIABLES phase,    \* what became of each call
          open      \* the connection is not closed

vars == <<phase, open>>

Phases == {"new", "queued", "sent", "completed", "lost"}

TypeOK == phase \in [Calls -> Phases] /\ open \in BOOLEAN

Init == /\ phase = [c \in Calls |-> "new"]
        /\ open = TRUE

In(c, phases) == phase[c] \in phases
AllBefore(c, phases) == \A b \in Calls : b < c => In(b, phases)

Move(C, to) == [c \in Calls |-> IF c \in C THEN to ELSE phase[c]]

\* A burst: calls that are next in order.
Issue(C) == /\ open
            /\ C # {}
            /\ \A c \in C : /\ In(c, {"new"})
                            /\ \A b \in Calls : b < c => b \in C \/ ~In(b, {"new"})
            /\ phase' = Move(C, "queued")
            /\ UNCHANGED open

Send(c) == /\ open
           /\ In(c, {"queued"})
           /\ AllBefore(c, {"sent", "completed"})
           /\ phase' = Move({c}, "sent")
           /\ UNCHANGED open

Complete(c) == /\ open
               /\ In(c, {"sent"})
               /\ AllBefore(c, {"completed"})
               /\ phase' = Move({c}, "completed")
               /\ UNCHANGED open

Close == /\ open
         /\ open' = FALSE
         /\ phase' = [c \in Calls |-> IF In(c, {"queued", "sent"}) THEN "lost" ELSE phase[c]]

Next == \/ Close
        \/ \E c \in Calls : Send(c) \/ Complete(c)
        \/ \E C \in SUBSET Calls : Issue(C)

Spec == Init /\ [][Next]_vars
=============================================================================
