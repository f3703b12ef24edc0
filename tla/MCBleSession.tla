----------------------------- MODULE MCBleSession -----------------------------
(* Model-checking instances of BleSession.                                 *)
EXTENDS BleSession, TLC

CONSTANTS o1, o2, t1, t2

TwoOpens  == {o1, o2}
OneToken  == {t1}
TwoTokens == {t1, t2}

\* Requests are interchangeable, and so are tokens: sound for invariants only.
Symmetry == Permutations(Opens) \cup Permutations(Tokens)
=============================================================================
