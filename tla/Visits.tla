------------------------------- MODULE Visits -------------------------------
(***************************************************************************)
(* What a session-oriented workload of httperf promises (man page,         *)
(* --wsess and --wsesslog): a session is a sequence of bursts of calls.    *)
(* The first call of a burst goes out alone, after the whole previous      *)
(* burst has been answered; the rest of the burst follows its reply.  A    *)
(* session completes when its last call is answered, or fails, once.       *)
(* A session without a plan (--wsesspage, whose pages decide what is       *)
(* fetched) only has to be answered what it asked.                         *)
(***************************************************************************)
EXTENDS Integers, Sequences

CONSTANT Sessions

VARIABLES plan,      \* lengths of the bursts of each session
          phase,
          issued,    \* calls issued so far
          answered   \* calls answered so far

vars == <<plan, phase, issued, answered>>

Init ==
  /\ plan \in [Sessions -> Seq(Nat)]
  /\ phase = [s \in Sessions |-> "new"]
  /\ issued = [s \in Sessions |-> 0]
  /\ answered = [s \in Sessions |-> 0]

\* The calls of the first k bursts of p.
SumTo(p) == LET sum[k \in 0..Len(p)] == IF k = 0 THEN 0 ELSE sum[k - 1] + p[k]
            IN  sum

\* With a answers, the plan p lets call number n go out.
MayIssue(p, n, a) ==
  \E k \in 1..Len(p) :
    /\ SumTo(p)[k - 1] < n /\ n <= SumTo(p)[k]
    /\ a >= SumTo(p)[k - 1] + (IF n = SumTo(p)[k - 1] + 1 THEN 0 ELSE 1)

Begin(s) ==
  /\ phase[s] = "new"
  /\ phase' = [phase EXCEPT ![s] = "open"]
  /\ UNCHANGED <<plan, issued, answered>>

Issue(s) ==
  /\ phase[s] = "open"
  /\ plan[s] # <<>> => MayIssue(plan[s], issued[s] + 1, answered[s])
  /\ issued' = [issued EXCEPT ![s] = @ + 1]
  /\ UNCHANGED <<plan, phase, answered>>

Answer(s) ==
  /\ phase[s] = "open"
  /\ answered[s] < issued[s]
  /\ answered' = [answered EXCEPT ![s] = @ + 1]
  /\ UNCHANGED <<plan, phase, issued>>

Complete(s) ==
  /\ phase[s] = "open"
  /\ answered[s] = issued[s]
  /\ plan[s] # <<>> => issued[s] = SumTo(plan[s])[Len(plan[s])]
  /\ phase' = [phase EXCEPT ![s] = "completed"]
  /\ UNCHANGED <<plan, issued, answered>>

Fail(s) ==
  /\ phase[s] = "open"
  /\ phase' = [phase EXCEPT ![s] = "failed"]
  /\ UNCHANGED <<plan, issued, answered>>

Next == \E s \in Sessions : Begin(s) \/ Issue(s) \/ Answer(s) \/ Complete(s) \/ Fail(s)

Spec == Init /\ [][Next]_vars
=============================================================================
