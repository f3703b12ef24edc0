----------------------------- MODULE MCLockWatch -----------------------------
(* Model-checking instances of LockWatch.                                  *)
EXTENDS LockWatch

CONSTANTS r1, e1

NoReporter    == {}
OneReporter   == {r1}
OneEnforcer   == {e1}
=============================================================================
