------------------------------ MODULE LockWatch ------------------------------
(***************************************************************************)
(* internal/services/lockwatch.go: the goroutines that fold the car's      *)
(* frames into a verdict on the access point and tell an enforcer.         *)
(*                                                                         *)
(*   Supervisor - supervise / attachAndPump: attaches to whatever session  *)
(*                is live and Ingests its frames;                          *)
(*   Ticker     - resettleLoop;                                            *)
(*   Reporters  - ReportExternal calls, each on a goroutine of its own;    *)
(*   Installers - SetEnforcer calls, each installing the enforcer it names.*)
(*                                                                         *)
(* Each of them ends an operation with settle(now).  settle is two steps:  *)
(* the decision under applyMu, and the enforcer call, which runs with      *)
(* applyMu still held.  now is read when the operation starts, so it may be*)
(* old by the time the verdict is decided.                                 *)
(***************************************************************************)
EXTENDS LockGate

CONSTANTS Reporters, Installers, Supervisor, Ticker,
          NoOne,      \* applyMu is free; no enforcer is installed
          MaxClock,   \* bound on the clock
          MayStop     \* whether the process is asked to stop

Settlers == Reporters \cup Installers \cup {Supervisor, Ticker}

ASSUME LockWatchAssumption ==
    /\ Reporters \cap Installers = {}
    /\ Supervisor # Ticker /\ NoOne \notin Settlers
    /\ {Supervisor, Ticker} \cap (Reporters \cup Installers) = {}
    /\ MaxClock \in Nat /\ MayStop \in BOOLEAN

VARIABLES
    clock,
    gate,        \* s.gate, guarded by mu
    enforcer,    \* s.enforcer, guarded by mu
    lastWanted,  \* s.lastWanted, guarded by applyMu ("nil": unset)
    applyMu,     \* who holds applyMu across an enforcer call
    pc,          \* where each goroutine resumes once it has settled
    stage,       \* how far its settle is
    at,          \* settle's argument now
    order,       \* the enforcer call its settle decided on
    radio,       \* what the access point was last told
    told,        \* what each enforcer was last told
    sessionUp,   \* BLESessionService has a live session
    channelUp,   \* the channel the supervisor is subscribed to is open
    once,        \* startOnce: "free", or who claimed it
    stop,        \* the stop channel is closed
    stopCall     \* where the call of Stop is

settleVars == <<lastWanted, applyMu, order, radio, told>>
linkVars   == <<sessionUp, channelUp>>
lifeVars   == <<once, stop, stopCall>>
vars == <<clock, gate, enforcer, settleVars, pc, stage, at, linkVars,
          lifeVars>>

Verdict == {"up", "down"}
NoOrder == [want |-> "up", fn |-> NoOne]
PC == {"new", "clear", "done", "loop", "attach", "subscribe", "pumping",
       "lost", "sleep", "ticking", "exited"}

TypeOK ==
    /\ clock \in 0 .. MaxClock
    /\ gate \in GateState /\ gate.activityUntil <= MaxClock + ActivityLease
    /\ enforcer \in Installers \cup {NoOne}
    /\ lastWanted \in Verdict \cup {"nil"}
    /\ applyMu \in Settlers \cup {NoOne}
    /\ pc \in [Settlers -> PC]
    /\ stage \in [Settlers -> {"none", "deciding", "enforcing"}]
    /\ at \in [Settlers -> 0 .. MaxClock]
    /\ order \in [want : Verdict, fn : Installers \cup {NoOne}]
    /\ radio \in Verdict
    /\ told \in [Installers -> Verdict \cup {"nil"}]
    /\ {sessionUp, channelUp, stop} \subseteq BOOLEAN
    /\ once \in {"free", "start", "stop"}
    /\ stopCall \in {"no", "waiting", "returned"}

\* An earlier run of the process may have left the radio either way.
Init ==
    /\ clock = 0
    /\ gate = EmptyGate
    /\ enforcer = NoOne
    /\ lastWanted = "nil" /\ applyMu = NoOne /\ order = NoOrder
    /\ radio \in Verdict
    /\ told = [i \in Installers |-> "nil"]
    /\ pc = [p \in Settlers |-> "new"]
    /\ stage = [p \in Settlers |-> "none"]
    /\ at = [p \in Settlers |-> 0]
    /\ sessionUp \in BOOLEAN /\ channelUp = FALSE
    /\ once = "free" /\ stop = FALSE /\ stopCall = "no"

-----------------------------------------------------------------------------
(* settle.                                                                 *)

Goto(p, from, to) ==
    /\ pc[p] = from /\ stage[p] = "none"
    /\ pc' = [pc EXCEPT ![p] = to]

StartSettle(p) ==
    /\ stage' = [stage EXCEPT ![p] = "deciding"]
    /\ at' = [at EXCEPT ![p] = clock]

NoSettle == UNCHANGED <<stage, at>>

Wanted(now) == IF APShouldBeUp(gate, now) THEN "up" ELSE "down"

\* Under applyMu: resolve the verdict; if it is news, record it and, if an
\* enforcer is installed, keep applyMu for the call.  now has then been used.
Decide(p) ==
    /\ stage[p] = "deciding" /\ applyMu = NoOne
    /\ lastWanted' = Wanted(at[p])
    /\ IF lastWanted' # lastWanted /\ enforcer # NoOne
         THEN /\ applyMu' = p
              /\ stage' = [stage EXCEPT ![p] = "enforcing"]
              /\ order' = [want |-> lastWanted', fn |-> enforcer]
         ELSE /\ stage' = [stage EXCEPT ![p] = "none"]
              /\ UNCHANGED <<applyMu, order>>
    /\ at' = [at EXCEPT ![p] = 0]
    /\ UNCHANGED <<clock, gate, enforcer, pc, radio, told, linkVars, lifeVars>>

\* fn(want), then applyMu.Unlock.
Enforce(p) ==
    /\ stage[p] = "enforcing"
    /\ radio' = order.want
    /\ told' = [told EXCEPT ![order.fn] = order.want]
    /\ stage' = [stage EXCEPT ![p] = "none"]
    /\ applyMu' = NoOne
    /\ order' = NoOrder
    /\ UNCHANGED <<clock, gate, enforcer, lastWanted, pc, at, linkVars,
                   lifeVars>>

-----------------------------------------------------------------------------
(* SetEnforcer: install under mu, forget lastWanted under applyMu, settle. *)

InstallEnforcer(i) ==
    /\ Goto(i, "new", "clear")
    /\ enforcer' = i
    /\ NoSettle
    /\ UNCHANGED <<clock, gate, settleVars, linkVars, lifeVars>>

ForgetLastWanted_skipped(i) ==
    /\ applyMu = NoOne
    /\ Goto(i, "clear", "done")
    /\ StartSettle(i)
    /\ UNCHANGED <<clock, gate, enforcer, settleVars, linkVars, lifeVars>>

ForgetLastWanted(i) ==
    /\ applyMu = NoOne
    /\ Goto(i, "clear", "done")
    /\ lastWanted' = "nil"
    /\ StartSettle(i)
    /\ UNCHANGED <<clock, gate, enforcer, applyMu, order, radio, told,
                   linkVars, lifeVars>>

-----------------------------------------------------------------------------
(* ReportExternal: the phone tells what it polled.                         *)

ReportExternal(r, locked, present) ==
    /\ Goto(r, "new", "done")
    /\ gate' = Apply(gate, [kind |-> "status", locked |-> locked,
                            present |-> present], clock)
    /\ StartSettle(r)
    /\ UNCHANGED <<clock, enforcer, settleVars, linkVars, lifeVars>>

-----------------------------------------------------------------------------
(* supervise and attachAndPump.                                            *)

SupGoes(from, to) ==
    /\ Goto(Supervisor, from, to)
    /\ UNCHANGED <<clock, enforcer, settleVars, sessionUp, lifeVars>>

\* The stop check at the top of the loop.
SupLoops ==
    /\ SupGoes("loop", IF stop THEN "exited" ELSE "attach")
    /\ NoSettle /\ UNCHANGED <<gate, channelUp>>

\* CurrentSession.
SupLooksForSession ==
    /\ SupGoes("attach", IF sessionUp THEN "subscribe" ELSE "lost")
    /\ NoSettle /\ UNCHANGED <<gate, channelUp>>

\* Subscribe: an error if the session ended since, else a channel (already
\* closed if the session's pump is shutting down).
SupSubscribes ==
    /\ \/ ~sessionUp /\ SupGoes("subscribe", "lost") /\ UNCHANGED channelUp
       \/ SupGoes("subscribe", "pumping") /\ channelUp' = sessionUp
    /\ NoSettle /\ UNCHANGED gate

\* A frame: Ingest, which leaves everything alone unless it is a signal.
SupIngests(sig) ==
    /\ channelUp
    /\ SupGoes("pumping", "pumping")
    /\ IF sig.kind = "none"
         THEN NoSettle /\ UNCHANGED gate
         ELSE StartSettle(Supervisor) /\ gate' = Apply(gate, sig, clock)
    /\ UNCHANGED channelUp

SupDetaches_noDefer ==
    /\ stop \/ ~channelUp
    /\ SupGoes("pumping", "sleep")
    /\ channelUp' = FALSE
    /\ NoSettle /\ UNCHANGED gate

SupDetaches ==
    /\ stop \/ ~channelUp
    /\ SupGoes("pumping", "lost")
    /\ channelUp' = FALSE
    /\ NoSettle /\ UNCHANGED gate

NoteSessionLost_keepsGate ==
    /\ SupGoes("lost", "sleep")
    /\ StartSettle(Supervisor)
    /\ UNCHANGED <<gate, channelUp>>

\* The deferred noteSessionLost.
NoteSessionLost ==
    /\ SupGoes("lost", "sleep")
    /\ gate' = EmptyGate
    /\ StartSettle(Supervisor)
    /\ UNCHANGED channelUp

\* The retry delay, which Stop cuts short.
SupWakes ==
    /\ \/ stop /\ SupGoes("sleep", "exited")
       \/ SupGoes("sleep", "loop")
    /\ NoSettle /\ UNCHANGED <<gate, channelUp>>

-----------------------------------------------------------------------------
(* resettleLoop.                                                           *)

TickerGoes(to) ==
    /\ Goto(Ticker, "ticking", to)
    /\ UNCHANGED <<clock, gate, enforcer, settleVars, linkVars, lifeVars>>

Tick_noSettle == TickerGoes("ticking") /\ NoSettle

Tick == TickerGoes("ticking") /\ StartSettle(Ticker)

TickerExits == stop /\ TickerGoes("exited") /\ NoSettle

-----------------------------------------------------------------------------
(* Start and Stop.                                                         *)

Start ==
    /\ once = "free"
    /\ once' = "start"
    /\ pc' = [pc EXCEPT ![Supervisor] = "loop", ![Ticker] = "ticking"]
    /\ NoSettle
    /\ UNCHANGED <<clock, gate, enforcer, settleVars, linkVars, stop,
                   stopCall>>

StopCalled ==
    /\ MayStop /\ stopCall = "no"
    /\ stop' = TRUE
    /\ stopCall' = "waiting"
    /\ once' = IF once = "free" THEN "stop" ELSE once
    /\ NoSettle
    /\ UNCHANGED <<clock, gate, enforcer, settleVars, pc, linkVars>>

\* <-s.done: both goroutines have returned, or were never started.
StopReturns ==
    /\ stopCall = "waiting"
    /\ once = "stop" \/ \A p \in {Supervisor, Ticker} : pc[p] = "exited"
    /\ stopCall' = "returned"
    /\ NoSettle
    /\ UNCHANGED <<clock, gate, enforcer, settleVars, pc, linkVars, once, stop>>

-----------------------------------------------------------------------------
(* The world: time, and the phone's session coming and going.              *)

ClockTicks ==
    /\ clock < MaxClock
    /\ clock' = clock + 1
    /\ UNCHANGED <<gate, enforcer, settleVars, pc, stage, at, linkVars,
                   lifeVars>>

SessionOpens ==
    /\ ~sessionUp
    /\ sessionUp' = TRUE
    /\ UNCHANGED <<clock, gate, enforcer, settleVars, pc, stage, at, channelUp,
                   lifeVars>>

SessionEnds ==
    /\ sessionUp
    /\ sessionUp' = FALSE /\ channelUp' = FALSE
    /\ UNCHANGED <<clock, gate, enforcer, settleVars, pc, stage, at, lifeVars>>

-----------------------------------------------------------------------------
Signals == {DecodeLockSignal(f) : f \in Frame}

SupRuns ==
    \/ SupLoops \/ SupLooksForSession \/ SupSubscribes \/ SupDetaches
    \/ NoteSessionLost \/ SupWakes

Next ==
    \/ \E p \in Settlers : Decide(p) \/ Enforce(p)
    \/ \E i \in Installers : InstallEnforcer(i) \/ ForgetLastWanted(i)
    \/ \E r \in Reporters, locked, present \in BOOLEAN :
         ReportExternal(r, locked, present)
    \/ SupRuns
    \/ \E sig \in Signals : SupIngests(sig)
    \/ Tick \/ TickerExits
    \/ Start \/ StopCalled \/ StopReturns
    \/ ClockTicks \/ SessionOpens \/ SessionEnds

Spec == Init /\ [][Next]_vars

(* Goroutines run, sync.Mutex does not starve a waiter, the ticker fires.  *)
(* The car, the phone, the operator and the clock owe us nothing.          *)
FairSpec ==
    /\ Spec
    /\ \A p \in Settlers : SF_vars(Decide(p)) /\ WF_vars(Enforce(p))
    /\ \A i \in Installers : SF_vars(ForgetLastWanted(i))
    /\ WF_vars(SupRuns)
    /\ WF_vars(Tick) /\ WF_vars(TickerExits)
    /\ WF_vars(StopReturns)

-----------------------------------------------------------------------------
\* No SetEnforcer is between its first step and the end of its settle.
Installed ==
    /\ enforcer # NoOne
    /\ \A i \in Installers : pc[i] # "clear" /\ stage[i] = "none"

(* lastWanted "can never disagree with the last call the actuator got":    *)
(* whenever applyMu is free, the installed enforcer has been told exactly  *)
(* the recorded verdict, and it was the last one to move the radio, however*)
(* settles and SetEnforcers interleave.                                    *)
OrdersObeyed ==
    Installed /\ applyMu = NoOne =>
        /\ lastWanted # "nil"
        /\ told[enforcer] = lastWanted
        /\ radio = lastWanted

(* Fail open: a watcher with no session to listen to holds nothing down.   *)
(* Once attachAndPump has returned, only a phone's report can have the     *)
(* access point down (noteSessionLost's comment).                          *)
NoSessionNoHold ==
    Installed /\ applyMu = NoOne /\ pc[Supervisor] \in {"sleep", "loop", "exited"}
        /\ stage[Supervisor] = "none" /\ (\A r \in Reporters : pc[r] = "new")
            => radio = "up"

\* Stop has returned to its caller and the actuator is at rest.
Stopped ==
    stopCall = "returned" /\ once = "start" /\ Installed /\ applyMu = NoOne

(* When Stop has returned, no verdict read off the link survives: however  *)
(* far attachAndPump was when Stop was called, its deferred settle has     *)
(* raised the access point again.                                          *)
StopRaisesRadio ==
    Stopped /\ (\A r \in Reporters : pc[r] = "new") => radio = "up"

(* A verdict that stays is enforced: neither a frame that arrives during   *)
(* an enforcer call, nor an old timestamp, nor a lease that runs out in    *)
(* silence leaves the radio on the wrong side for ever.                    *)
Converges ==
    \A v \in Verdict :
        <>[](Wanted(clock) = v /\ enforcer # NoOne /\ once = "start" /\ ~stop)
            => <>[](radio = v)
=============================================================================
