------------------------------ MODULE MCAccess ------------------------------
(* Model-checking instance of Access.                                      *)
EXTENDS Access

CONSTANT a1

OneAddr == {a1}

\* Bound: a node that has a login starts with the funnel of an earlier run.
\* A restart may drop it, so that the other case comes up with one event less.
MCInit == Init /\ (LoggedIn => serve # NoServe)
MCSpec == MCInit /\ [][Next]_vars
=============================================================================
