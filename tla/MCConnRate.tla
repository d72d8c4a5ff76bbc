----------------------------- MODULE MCConnRate -----------------------------
(* Command lines of ConnRate for TLC. *)
EXTENDS ConnRate

Line(num, max, timed, fails) == [num |-> num, max |-> max, timed |-> timed, fails |-> fails]

\* One after the other; at a rate, with and without a limit and failing connects.
AllLines ==
  {Line(6, 0, FALSE, TRUE), Line(6, 2, TRUE, TRUE), Line(4, 0, TRUE, FALSE),
   Line(4, 0, TRUE, TRUE), Line(4, 1, FALSE, TRUE)}

\* A rate and a limit of one connection
OneAtATime == {Line(3, 1, TRUE, FALSE)}
=============================================================================
