--------------------------- MODULE LockWatchProofs ---------------------------
(***************************************************************************)
(* Proofs about LockWatch for any number of reporters and of SetEnforcer   *)
(* calls, any lease and any clock bound: type correctness, agreement of    *)
(* the actuator with the recorded verdict, and failing open.               *)
(***************************************************************************)
EXTENDS LockWatch, TLAPS

(* Why the actuator's last order is lastWanted.                            *)

\* applyMu is held exactly by the settle that is inside an enforcer call.
LockHeld == \A p \in Settlers : stage[p] = "enforcing" <=> applyMu = p

\* The call in progress is for the recorded verdict and, unless an enforcer
\* was installed since, for the installed enforcer.
OrderIsVerdict ==
    applyMu # NoOne =>
        /\ order.want = lastWanted
        /\ order.fn \in Installers
        /\ (\A i \in Installers : pc[i] # "clear") => order.fn = enforcer

\* lastWanted is unset only while some SetEnforcer has yet to settle.
InstallerSettles ==
    lastWanted = "nil" /\ enforcer # NoOne =>
        \E i \in Installers : pc[i] = "clear" \/ stage[i] = "deciding"

\* A verdict on record has reached the installed enforcer and the radio.
LastOrderStands ==
    /\ applyMu = NoOne /\ enforcer # NoOne /\ lastWanted # "nil"
    /\ \A i \in Installers : pc[i] # "clear"
    => told[enforcer] = lastWanted /\ radio = lastWanted

OrderInv ==
    LockHeld /\ OrderIsVerdict /\ InstallerSettles /\ LastOrderStands

(* Why a detached watcher holds nothing down.                              *)

Unheard == \A r \in Reporters : pc[r] = "new"

\* attachAndPump has returned, or never ran.
Detached == pc[Supervisor] \in {"new", "sleep", "loop", "attach", "exited"}

QuietInv ==
    /\ Unheard /\ Detached =>
         /\ gate = EmptyGate
         /\ stage[Supervisor] # "deciding" => lastWanted # "down"
    /\ pc[Supervisor] = "exited" => stage[Supervisor] = "none"
    /\ once # "start" => pc[Supervisor] = "new"
    /\ stopCall # "no" => once # "free"
    /\ stopCall = "returned" /\ once = "start" => pc[Supervisor] = "exited"

-----------------------------------------------------------------------------
USE LeaseAssumption, LockWatchAssumption
USE DEF settleVars, linkVars, lifeVars, vars, Settlers

(* The gate's operators stay within their types and their lease.           *)
LEMMA EmptyGateType == EmptyGate \in GateState /\ EmptyGate.activityUntil = 0
BY DEF EmptyGate, GateState

LEMMA SignalType == Signals \subseteq LockSignal
<1>1. ASSUME NEW f \in Frame PROVE DecodeLockSignal(f) \in LockSignal
  BY DEF LockSignal, DecodeLockSignal, Signal
<1>. QED
  BY <1>1 DEF Signals

LEMMA ReportType ==
    ASSUME NEW lk \in BOOLEAN, NEW pr \in BOOLEAN
    PROVE  [kind |-> "status", locked |-> lk, present |-> pr] \in LockSignal
BY DEF LockSignal

LEMMA ApplyType ==
    ASSUME NEW g \in GateState, NEW sig \in LockSignal,
           NEW now \in 0 .. MaxClock,
           g.activityUntil <= MaxClock + ActivityLease
    PROVE  /\ Apply(g, sig, now) \in GateState
           /\ Apply(g, sig, now).activityUntil <= MaxClock + ActivityLease
<1>. /\ now + ActivityLease \in Nat
     /\ now + ActivityLease <= MaxClock + ActivityLease
  OBVIOUS
<1>1. CASE sig.kind = "status"
  BY <1>1 DEF Apply, GateState, LockSignal
<1>2. CASE sig.kind = "activity"
  <2>1. Apply(g, sig, now) = [g EXCEPT !.activityUntil = now + ActivityLease]
    BY <1>2 DEF Apply
  <2>. QED
    BY <2>1 DEF GateState
<1>3. CASE sig.kind = "none"
  <2>1. Apply(g, sig, now) = g
    BY <1>3 DEF Apply
  <2>. QED
    BY <2>1
<1>. QED
  BY <1>1, <1>2, <1>3 DEF LockSignal

(* Fail open: the zero gate wants the access point up at any time.         *)
LEMMA EmptyGateUp == \A now : APShouldBeUp(EmptyGate, now)
BY DEF APShouldBeUp, EmptyGate

-----------------------------------------------------------------------------
(* Every step keeps every variable in its type. *)
LEMMA TypeStep ==
    ASSUME TypeOK, [Next]_vars
    PROVE  TypeOK'
<1>. USE DEF TypeOK, Verdict, NoOrder, PC
<1>0. CASE UNCHANGED vars
  BY <1>0
<1>1. ASSUME NEW p \in Settlers, Decide(p) PROVE TypeOK'
  BY <1>1 DEF Decide, Wanted
<1>2. ASSUME NEW p \in Settlers, Enforce(p) PROVE TypeOK'
  BY <1>2 DEF Enforce
<1>3. ASSUME NEW i \in Installers, InstallEnforcer(i) PROVE TypeOK'
  BY <1>3 DEF InstallEnforcer, Goto, NoSettle
<1>4. ASSUME NEW i \in Installers, ForgetLastWanted(i) PROVE TypeOK'
  BY <1>4 DEF ForgetLastWanted, Goto, StartSettle
<1>5. ASSUME NEW r \in Reporters, NEW lk \in BOOLEAN, NEW pr \in BOOLEAN,
             ReportExternal(r, lk, pr)
      PROVE  TypeOK'
  BY <1>5, ApplyType, ReportType DEF ReportExternal, Goto, StartSettle
<1>6. ASSUME SupLoops PROVE TypeOK'
  BY <1>6 DEF SupLoops, SupGoes, Goto, NoSettle
<1>7. ASSUME SupLooksForSession PROVE TypeOK'
  BY <1>7 DEF SupLooksForSession, SupGoes, Goto, NoSettle
<1>8. ASSUME SupSubscribes PROVE TypeOK'
  BY <1>8 DEF SupSubscribes, SupGoes, Goto, NoSettle
<1>9. ASSUME SupDetaches PROVE TypeOK'
  <2>1. /\ pc' = [pc EXCEPT ![Supervisor] = "lost"]
        /\ channelUp' = FALSE
        /\ UNCHANGED <<clock, enforcer, settleVars, sessionUp, lifeVars, stage, at,
                       gate>>
    BY <1>9 DEF SupDetaches, SupGoes, Goto, NoSettle
  <2>2. pc' \in [Settlers -> PC]
    BY <2>1
  <2>3. {sessionUp, channelUp, stop}' \subseteq BOOLEAN
    BY <2>1 DEF lifeVars
  <2>. QED
    BY <2>1, <2>2, <2>3 DEF settleVars, lifeVars
<1>10. ASSUME NoteSessionLost PROVE TypeOK'
  BY <1>10, EmptyGateType DEF NoteSessionLost, SupGoes, Goto, StartSettle
<1>11. ASSUME SupWakes PROVE TypeOK'
  BY <1>11 DEF SupWakes, SupGoes, Goto, NoSettle
<1>12. ASSUME NEW sig \in Signals, SupIngests(sig) PROVE TypeOK'
  <2>1. sig \in LockSignal
    BY SignalType
  <2>2. /\ gate' \in GateState
        /\ gate'.activityUntil <= MaxClock + ActivityLease
    BY <1>12, <2>1, ApplyType DEF SupIngests
  <2>3. stage' \in [Settlers -> {"none", "deciding", "enforcing"}]
    BY <1>12 DEF SupIngests, StartSettle, NoSettle
  <2>4. at' \in [Settlers -> 0 .. MaxClock]
    BY <1>12 DEF SupIngests, StartSettle, NoSettle
  <2>. QED
    BY <1>12, <2>2, <2>3, <2>4 DEF SupIngests, SupGoes, Goto
<1>13. ASSUME Tick PROVE TypeOK'
  BY <1>13 DEF Tick, TickerGoes, Goto, StartSettle
<1>14. ASSUME TickerExits PROVE TypeOK'
  BY <1>14 DEF TickerExits, TickerGoes, Goto, NoSettle
<1>15. ASSUME Start PROVE TypeOK'
  BY <1>15 DEF Start, NoSettle
<1>16. ASSUME StopCalled PROVE TypeOK'
  BY <1>16 DEF StopCalled, NoSettle
<1>17. ASSUME StopReturns PROVE TypeOK'
  BY <1>17 DEF StopReturns, NoSettle
<1>18. ASSUME ClockTicks PROVE TypeOK'
  BY <1>18 DEF ClockTicks
<1>19. ASSUME SessionOpens PROVE TypeOK'
  BY <1>19 DEF SessionOpens
<1>20. ASSUME SessionEnds PROVE TypeOK'
  <2>1. {sessionUp, channelUp, stop}' \subseteq BOOLEAN
    BY <1>20 DEF SessionEnds, lifeVars
  <2>. QED
    BY <1>20, <2>1 DEF SessionEnds
<1>. QED
  BY <1>0, <1>1, <1>2, <1>3, <1>4, <1>5, <1>6, <1>7, <1>8, <1>9, <1>10, <1>11,
     <1>12, <1>13, <1>14, <1>15, <1>16, <1>17, <1>18, <1>19, <1>20
  DEF Next, SupRuns

(* Type correctness; in particular a lease never outlives the clock by    *)
(* more than ActivityLease.                                               *)
THEOREM TypeCorrect == Spec => []TypeOK
<1>1. ASSUME Init PROVE TypeOK
  <2>1. /\ pc \in [Settlers -> PC]
        /\ stage \in [Settlers -> {"none", "deciding", "enforcing"}]
    BY <1>1 DEF Init, PC
  <2>2. at \in [Settlers -> 0 .. MaxClock]
    BY <1>1 DEF Init
  <2>3. /\ told \in [Installers -> Verdict \cup {"nil"}]
        /\ order \in [want : Verdict, fn : Installers \cup {NoOne}]
    BY <1>1 DEF Init, Verdict, NoOrder
  <2>4. gate \in GateState /\ gate.activityUntil <= MaxClock + ActivityLease
    BY <1>1, EmptyGateType DEF Init
  <2>. QED
    BY <1>1, <2>1, <2>2, <2>3, <2>4 DEF Init, TypeOK, Verdict
<1>2. TypeOK /\ [Next]_vars => TypeOK'
  BY TypeStep
<1>. QED
  BY <1>1, <1>2, PTL DEF Spec

-----------------------------------------------------------------------------
(* lastWanted and the orders change only while applyMu is free, and it is *)
(* kept across the call; a SetEnforcer in its first half excuses the rest.*)
LEMMA OrderStep ==
    ASSUME TypeOK, TypeOK', OrderInv, [Next]_vars
    PROVE  OrderInv'
<1>. USE DEF TypeOK, Verdict, OrderInv, LockHeld, OrderIsVerdict,
             InstallerSettles, LastOrderStands
<1>0. CASE UNCHANGED vars
  BY <1>0
<1>1. ASSUME NEW p \in Settlers, Decide(p) PROVE OrderInv'
  <2>1. LockHeld'
    BY <1>1 DEF Decide, Wanted
  <2>2. OrderIsVerdict'
    BY <1>1 DEF Decide, Wanted
  <2>3. InstallerSettles'
    BY <1>1 DEF Decide, Wanted
  <2>4. LastOrderStands'
    BY <1>1 DEF Decide, Wanted
  <2>. QED
    BY <2>1, <2>2, <2>3, <2>4
<1>2. ASSUME NEW p \in Settlers, Enforce(p) PROVE OrderInv'
  <2>1. LockHeld'
    BY <1>2 DEF Enforce
  <2>2. OrderIsVerdict'
    BY <1>2 DEF Enforce
  <2>3. InstallerSettles'
    BY <1>2 DEF Enforce
  <2>4. LastOrderStands'
    BY <1>2 DEF Enforce
  <2>. QED
    BY <2>1, <2>2, <2>3, <2>4
<1>3. ASSUME NEW i \in Installers, InstallEnforcer(i) PROVE OrderInv'
  <2>1. LockHeld'
    BY <1>3 DEF InstallEnforcer, Goto, NoSettle
  <2>2. OrderIsVerdict'
    BY <1>3 DEF InstallEnforcer, Goto, NoSettle
  <2>3. InstallerSettles'
    BY <1>3 DEF InstallEnforcer, Goto, NoSettle
  <2>4. LastOrderStands'
    BY <1>3 DEF InstallEnforcer, Goto, NoSettle
  <2>. QED
    BY <2>1, <2>2, <2>3, <2>4
<1>4. ASSUME NEW i \in Installers, ForgetLastWanted(i) PROVE OrderInv'
  <2>1. LockHeld'
    BY <1>4 DEF ForgetLastWanted, Goto, StartSettle
  <2>2. OrderIsVerdict'
    BY <1>4 DEF ForgetLastWanted, Goto, StartSettle
  <2>3. InstallerSettles'
    BY <1>4 DEF ForgetLastWanted, Goto, StartSettle
  <2>4. LastOrderStands'
    BY <1>4 DEF ForgetLastWanted, Goto, StartSettle
  <2>. QED
    BY <2>1, <2>2, <2>3, <2>4
<1>5. ASSUME NEW r \in Reporters, NEW lk \in BOOLEAN, NEW pr \in BOOLEAN,
             ReportExternal(r, lk, pr)
      PROVE  OrderInv'
  BY <1>5 DEF ReportExternal, Goto, StartSettle
<1>6. ASSUME SupLoops PROVE OrderInv'
  BY <1>6 DEF SupLoops, SupGoes, Goto, NoSettle
<1>7. ASSUME SupLooksForSession PROVE OrderInv'
  BY <1>7 DEF SupLooksForSession, SupGoes, Goto, NoSettle
<1>8. ASSUME SupSubscribes PROVE OrderInv'
  BY <1>8 DEF SupSubscribes, SupGoes, Goto, NoSettle
<1>9. ASSUME SupDetaches PROVE OrderInv'
  <2>1. /\ pc' = [pc EXCEPT ![Supervisor] = "lost"]
        /\ channelUp' = FALSE
        /\ UNCHANGED <<clock, enforcer, settleVars, sessionUp, lifeVars, stage, at,
                       gate>>
    BY <1>9 DEF SupDetaches, SupGoes, Goto, NoSettle
  <2>2. pc' \in [Settlers -> PC]
    BY <2>1
  <2>3. {sessionUp, channelUp, stop}' \subseteq BOOLEAN
    BY <2>1 DEF lifeVars
  <2>. QED
    BY <2>1, <2>2, <2>3 DEF settleVars, lifeVars
<1>10. ASSUME NoteSessionLost PROVE OrderInv'
  BY <1>10 DEF NoteSessionLost, SupGoes, Goto, StartSettle
<1>11. ASSUME SupWakes PROVE OrderInv'
  BY <1>11 DEF SupWakes, SupGoes, Goto, NoSettle
<1>12. ASSUME NEW sig \in Signals, SupIngests(sig) PROVE OrderInv'
  BY <1>12 DEF SupIngests, SupGoes, Goto, NoSettle, StartSettle
<1>13. ASSUME Tick PROVE OrderInv'
  BY <1>13 DEF Tick, TickerGoes, Goto, StartSettle
<1>14. ASSUME TickerExits PROVE OrderInv'
  BY <1>14 DEF TickerExits, TickerGoes, Goto, NoSettle
<1>15. ASSUME Start PROVE OrderInv'
  BY <1>15 DEF Start, NoSettle
<1>16. ASSUME StopCalled PROVE OrderInv'
  BY <1>16 DEF StopCalled, NoSettle
<1>17. ASSUME StopReturns PROVE OrderInv'
  BY <1>17 DEF StopReturns, NoSettle
<1>18. ASSUME ClockTicks PROVE OrderInv'
  BY <1>18 DEF ClockTicks
<1>19. ASSUME SessionOpens PROVE OrderInv'
  BY <1>19 DEF SessionOpens
<1>20. ASSUME SessionEnds PROVE OrderInv'
  BY <1>20 DEF SessionEnds
<1>. QED
  BY <1>0, <1>1, <1>2, <1>3, <1>4, <1>5, <1>6, <1>7, <1>8, <1>9, <1>10, <1>11,
     <1>12, <1>13, <1>14, <1>15, <1>16, <1>17, <1>18, <1>19, <1>20
  DEF Next, SupRuns

LEMMA OrderInvariant == Spec => []OrderInv
<1>1. Init => OrderInv
  BY DEF Init, OrderInv, LockHeld, OrderIsVerdict, InstallerSettles,
         LastOrderStands
<1>2. TypeOK /\ TypeOK' /\ OrderInv /\ [Next]_vars => OrderInv'
  BY OrderStep
<1>. QED
  BY <1>1, <1>2, TypeCorrect, PTL DEF Spec

(* However settles and SetEnforcers interleave, whenever applyMu is free  *)
(* and no SetEnforcer is under way, the installed enforcer and the radio  *)
(* have been told exactly lastWanted.                                     *)
THEOREM ActuatorAgrees == Spec => []OrdersObeyed
<1>1. TypeOK /\ OrderInv => OrdersObeyed
  BY DEF TypeOK, OrderInv, LockHeld, InstallerSettles, LastOrderStands,
         OrdersObeyed, Installed
<1>. QED
  BY <1>1, TypeCorrect, OrderInvariant, PTL

-----------------------------------------------------------------------------
(* Every way out of attachAndPump empties the gate and settles, and until *)
(* the next attachment only a report could change the gate.               *)
LEMMA QuietStep ==
    ASSUME TypeOK, TypeOK', OrderInv, QuietInv, [Next]_vars
    PROVE  QuietInv'
<1>. USE DEF TypeOK, Verdict, QuietInv, Unheard, Detached, OrderInv, LockHeld
<1>0. CASE UNCHANGED vars
  BY <1>0
<1>1. ASSUME NEW p \in Settlers, Decide(p) PROVE QuietInv'
  BY <1>1, EmptyGateUp DEF Decide, Wanted
<1>2. ASSUME NEW p \in Settlers, Enforce(p) PROVE QuietInv'
  BY <1>2 DEF Enforce
<1>3. ASSUME NEW i \in Installers, InstallEnforcer(i) PROVE QuietInv'
  BY <1>3 DEF InstallEnforcer, Goto, NoSettle
<1>4. ASSUME NEW i \in Installers, ForgetLastWanted(i) PROVE QuietInv'
  BY <1>4 DEF ForgetLastWanted, Goto, StartSettle
<1>5. ASSUME NEW r \in Reporters, NEW lk \in BOOLEAN, NEW pr \in BOOLEAN,
             ReportExternal(r, lk, pr)
      PROVE  QuietInv'
  BY <1>5 DEF ReportExternal, Goto, StartSettle
<1>6. ASSUME SupLoops PROVE QuietInv'
  BY <1>6 DEF SupLoops, SupGoes, Goto, NoSettle
<1>7. ASSUME SupLooksForSession PROVE QuietInv'
  BY <1>7 DEF SupLooksForSession, SupGoes, Goto, NoSettle
<1>8. ASSUME SupSubscribes PROVE QuietInv'
  BY <1>8 DEF SupSubscribes, SupGoes, Goto, NoSettle
<1>9. ASSUME SupDetaches PROVE QuietInv'
  BY <1>9 DEF SupDetaches, SupGoes, Goto, NoSettle
<1>10. ASSUME NoteSessionLost PROVE QuietInv'
  BY <1>10 DEF NoteSessionLost, SupGoes, Goto, StartSettle
<1>11. ASSUME SupWakes PROVE QuietInv'
  BY <1>11 DEF SupWakes, SupGoes, Goto, NoSettle
<1>12. ASSUME NEW sig \in Signals, SupIngests(sig) PROVE QuietInv'
  BY <1>12 DEF SupIngests, SupGoes, Goto, NoSettle, StartSettle
<1>13. ASSUME Tick PROVE QuietInv'
  BY <1>13 DEF Tick, TickerGoes, Goto, StartSettle
<1>14. ASSUME TickerExits PROVE QuietInv'
  BY <1>14 DEF TickerExits, TickerGoes, Goto, NoSettle
<1>15. ASSUME Start PROVE QuietInv'
  BY <1>15 DEF Start, NoSettle
<1>16. ASSUME StopCalled PROVE QuietInv'
  BY <1>16 DEF StopCalled, NoSettle
<1>17. ASSUME StopReturns PROVE QuietInv'
  BY <1>17 DEF StopReturns, NoSettle
<1>18. ASSUME ClockTicks PROVE QuietInv'
  BY <1>18 DEF ClockTicks
<1>19. ASSUME SessionOpens PROVE QuietInv'
  BY <1>19 DEF SessionOpens
<1>20. ASSUME SessionEnds PROVE QuietInv'
  BY <1>20 DEF SessionEnds
<1>. QED
  BY <1>0, <1>1, <1>2, <1>3, <1>4, <1>5, <1>6, <1>7, <1>8, <1>9, <1>10, <1>11,
     <1>12, <1>13, <1>14, <1>15, <1>16, <1>17, <1>18, <1>19, <1>20
  DEF Next, SupRuns

LEMMA QuietInvariant == Spec => []QuietInv
<1>1. Init => QuietInv
  BY DEF Init, QuietInv, Unheard, Detached
<1>2. /\ TypeOK /\ TypeOK' /\ OrderInv /\ QuietInv
      /\ [Next]_vars
      => QuietInv'
  BY QuietStep
<1>. QED
  BY <1>1, <1>2, TypeCorrect, OrderInvariant, PTL DEF Spec

(* A watcher that is not attached to a session, and was told nothing by a *)
(* phone, does not hold the access point down.                            *)
THEOREM FailsOpen == Spec => []NoSessionNoHold
<1>1. TypeOK /\ OrderInv /\ QuietInv => NoSessionNoHold
  <2>1. TypeOK /\ OrderInv => OrdersObeyed
    BY DEF TypeOK, OrderInv, LockHeld, InstallerSettles, LastOrderStands,
           OrdersObeyed, Installed
  <2>. QED
    BY <2>1 DEF TypeOK, Verdict, QuietInv, Unheard, Detached,
                OrdersObeyed, NoSessionNoHold
<1>. QED
  BY <1>1, TypeCorrect, OrderInvariant, QuietInvariant, PTL

(* When Stop has returned, no verdict read off the link survives it.      *)
THEOREM StopFailsOpen == Spec => []StopRaisesRadio
<1>1. QuietInv /\ NoSessionNoHold => StopRaisesRadio
  BY DEF QuietInv, NoSessionNoHold, StopRaisesRadio, Stopped, Installed
<1>. QED
  BY <1>1, QuietInvariant, FailsOpen, PTL
=============================================================================
