---------------------------- MODULE MCSessionPump ----------------------------
(* Model-checking instances of SessionPump.                                *)
EXTENDS SessionPump

CONSTANTS c1, c2, u1

OneCall  == {c1}
TwoCalls == {c1, c2}
OneBlind == {c1}
NoBlind  == {}
OneSub   == {u1}
=============================================================================
