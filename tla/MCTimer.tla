------------------------------ MODULE MCTimer ------------------------------
(***************************************************************************)
(* Instances of Timer for TLC.                                             *)
(***************************************************************************)
EXTENDS Timer

\* A late timer (negative delay), one due at the next instant and a later one.
MCDelays == {-1, 0, 1}
=============================================================================
