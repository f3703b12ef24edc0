------------------------------ MODULE BleSession ------------------------------
(***************************************************************************)
(* The single BLE adapter of the Pi and everyone who competes for it:      *)
(*                                                                         *)
(*   - BLESessionService (internal/services/tesla_session.go): Open, Close,*)
(*     CloseForToken, the idle reaper, the openSeq take-over protocol;     *)
(*   - bleLock, AcquireBLEForVIN and sendUnauthenticated                   *)
(*     (internal/services/tesla.go);                                       *)
(*   - the handlers that call them, with the bearer check done once at the *)
(*     start of a request (internal/handlers/tesla_session.go,             *)
(*     tesla_tokens.go, middleware.go).                                    *)
(*                                                                         *)
(* An action is one critical section of s.mu, one operation on the bleLock *)
(* channel, or one call into the radio library: between two of them any    *)
(* other goroutine may run.  A member of Opens is one POST /sessions       *)
(* request; the session it registers carries a fresh random id, so the     *)
(* request itself names its session.                                       *)
(***************************************************************************)
EXTENDS Naturals, FiniteSets

CONSTANTS Opens,    \* the POST /sessions requests, each runs Open once
          Tokens,   \* bearer token row ids (AUTOINCREMENT: never reissued)
          NoOne,    \* "no such request"
          Pairing,  \* the pairing request's connection to the car
          MayPair   \* whether anyone asks to pair a key in this instance

ASSUME ConstantsAssumption ==
    /\ NoOne \notin Opens
    /\ NoOne \notin Tokens
    /\ Opens \cap Tokens = {}
    /\ Pairing \notin Opens
    /\ MayPair \in BOOLEAN

VARIABLES
    pc,        \* where each Open request is
    owner,     \* the bearer token each Open was authorised with
    seq,       \* the number beginOpen handed to each Open (0: none yet)
    ctxDone,   \* Opens whose context has ended (30 s, client gone, cancelled)
    openSeq,   \* s.openSeq
    pending,   \* whose cancel s.pendingCancel is (s.pendingOwner = its owner)
    sess,      \* life of the session each Open registers
    gone,      \* sessions whose client will never call again
    links,     \* who has a BLE connection to the car open
    locked,    \* bleMu.slot is full
    panicked,  \* bleLock.Unlock found the slot empty
    pair,      \* where the pairing request is
    pairCtx,   \* the pairing request's context ended before it got the lock
    removal,   \* where the removal of each token is
    todo,      \* ids an Open or a removal has snapshotted and must still Close
    victim,    \* the session an Open or a removal is inside Close for
    doomed     \* history: Opens that had begun when their token was swept

openVars    == <<pc, owner, seq, ctxDone>>
svcVars     == <<openSeq, pending>>
sessVars    == <<sess, gone>>
radioVars   == <<links, locked, panicked>>
pairVars    == <<pair, pairCtx>>
closeVars   == <<todo, victim>>
removalVars == <<removal, doomed>>
vars == <<openVars, svcVars, sessVars, radioVars, pairVars, closeVars,
          removalVars>>

Closers == Opens \cup Tokens       \* the goroutines that wait for a Close

OpenPC == {"idle", "authorized", "begun", "closing", "acquire", "lockwait",
           "scan", "connected", "backout", "unlock", "ending", "done"}

(* "live" and "idle" sessions are in the map s.sessions; "idle" means that *)
(* time.Since(lastUsed) >= bleSessionTTL.  The next three are the steps of *)
(* a teardown: deleted from the map, stopPump called, conn closed.         *)
SessionState == {"none", "live", "idle", "removed", "stopped",
                 "disconnected", "released"}

PairPC == {"none", "acquire", "lockwait", "scan", "connected", "unlock"}

RemovalPC == {"valid", "deleted", "sweeping", "returned"}

TypeOK ==
    /\ pc \in [Opens -> OpenPC]
    /\ owner \in [Opens -> Tokens \cup {NoOne}]
    /\ seq \in [Opens -> Nat]
    /\ ctxDone \subseteq Opens
    /\ openSeq \in Nat
    /\ pending \in Opens \cup {NoOne}
    /\ sess \in [Opens -> SessionState]
    /\ gone \subseteq Opens
    /\ links \subseteq Opens \cup {Pairing}
    /\ locked \in BOOLEAN
    /\ panicked \in BOOLEAN
    /\ pair \in PairPC
    /\ pairCtx \in BOOLEAN
    /\ removal \in [Tokens -> RemovalPC]
    /\ todo \in [Closers -> SUBSET Opens]
    /\ victim \in [Closers -> Opens \cup {NoOne}]
    /\ doomed \subseteq Opens

Init ==
    /\ pc = [o \in Opens |-> "idle"]
    /\ owner = [o \in Opens |-> NoOne]
    /\ seq = [o \in Opens |-> 0]
    /\ ctxDone = {}
    /\ openSeq = 0
    /\ pending = NoOne
    /\ sess = [o \in Opens |-> "none"]
    /\ gone = {}
    /\ links = {}
    /\ locked = FALSE
    /\ panicked = FALSE
    /\ pair = "none"
    /\ pairCtx = FALSE
    /\ removal = [t \in Tokens |-> "valid"]
    /\ todo = [p \in Closers |-> {}]
    /\ victim = [p \in Closers |-> NoOne]
    /\ doomed = {}

-----------------------------------------------------------------------------
(* State predicates the actions share.                                     *)

InMap(s) == sess[s] \in {"live", "idle"}

sessions == {s \in Opens : InMap(s)}

Goto(o, from, to) ==
    /\ pc[o] = from
    /\ pc' = [pc EXCEPT ![o] = to]
    /\ UNCHANGED <<owner, gone, pairVars, removalVars, victim>>

-----------------------------------------------------------------------------
(* bleLock: a channel of capacity 1.  Unlock of an empty slot panics.      *)

LockBleMu ==
    /\ ~locked
    /\ locked' = TRUE
    /\ UNCHANGED panicked

UnlockBleMu ==
    /\ locked' = FALSE
    /\ panicked' = (panicked \/ ~locked)

-----------------------------------------------------------------------------
(* The request: bearer check, then Open.                                   *)

\* BLEBearerRequired validates the token once; OpenBLESession takes its id.
Authorize(o, t) ==
    /\ removal[t] = "valid"
    /\ pc[o] = "idle"
    /\ pc' = [pc EXCEPT ![o] = "authorized"]
    /\ owner' = [owner EXCEPT ![o] = t]
    /\ UNCHANGED <<seq, ctxDone, svcVars, sessVars, radioVars, pairVars,
                   closeVars, removalVars>>

\* The body names no VIN and none is configured: Open returns at once.
OpenWithoutVIN(o) ==
    /\ Goto(o, "authorized", "done")
    /\ UNCHANGED <<seq, ctxDone, svcVars, sess, radioVars, todo>>

\* pendingCancel(): the context of the Open it belongs to ends.
CancelPending_noNilCheck == ctxDone' = ctxDone \cup {pending}

CancelPending == ctxDone' = ctxDone \cup ({pending} \ {NoOne})

BeginOpen(o) ==
    /\ Goto(o, "authorized", "begun")
    /\ CancelPending
    /\ openSeq' = openSeq + 1
    /\ seq' = [seq EXCEPT ![o] = openSeq + 1]
    /\ pending' = o
    /\ UNCHANGED <<sess, radioVars, todo>>

PreemptSnapshot_empty(o) ==
    /\ Goto(o, "begun", "closing")
    /\ UNCHANGED <<seq, ctxDone, svcVars, sess, radioVars, todo>>

\* preemptExisting, first half: snapshot the ids under s.mu.
PreemptSnapshot(o) ==
    /\ Goto(o, "begun", "closing")
    /\ todo' = [todo EXCEPT ![o] = sessions]
    /\ UNCHANGED <<seq, ctxDone, svcVars, sess, radioVars>>

\* Every snapshotted id has been Closed: go on to AcquireBLEForVIN.
PreemptDone(o) ==
    /\ todo[o] = {} /\ victim[o] = NoOne
    /\ Goto(o, "closing", "acquire")
    /\ UNCHANGED <<seq, ctxDone, svcVars, sess, radioVars, todo>>

\* AcquireBLEForVIN up to Lock's own ctx.Err check: initAdapter may fail, and
\* a context that has already ended never queues for the adapter.
Acquire(o) ==
    /\ \/ o \notin ctxDone /\ Goto(o, "acquire", "lockwait")
       \/ Goto(o, "acquire", "ending")
    /\ UNCHANGED <<seq, ctxDone, svcVars, sess, radioVars, todo>>

\* Lock's select, slot side: also possible when ctx is done as well.
TakeLock(o) ==
    /\ Goto(o, "lockwait", "scan")
    /\ LockBleMu
    /\ UNCHANGED <<seq, ctxDone, svcVars, sess, links, todo>>

LockGivesUp_deferredUnlock(o) ==
    /\ o \in ctxDone
    /\ Goto(o, "lockwait", "ending")
    /\ UnlockBleMu
    /\ UNCHANGED <<seq, ctxDone, svcVars, sess, links, todo>>

\* Lock's select, ctx.Done side.
LockGivesUp(o) ==
    /\ o \in ctxDone
    /\ Goto(o, "lockwait", "ending")
    /\ UNCHANGED <<seq, ctxDone, svcVars, sess, radioVars, todo>>

\* ScanVehicleBeacon and NewConnectionFromScanResult: a connection, or an
\* error on which AcquireBLEForVIN unlocks and returns.
ScanAndConnect(o) ==
    /\ \/ Goto(o, "scan", "connected") /\ links' = links \cup {o}
       \/ Goto(o, "scan", "unlock") /\ UNCHANGED links
    /\ UNCHANGED <<seq, ctxDone, svcVars, sess, locked, panicked, todo>>

\* rand.Read fails: the connection is released and Open returns its error.
NoSessionId(o) ==
    /\ Goto(o, "connected", "backout")
    /\ UNCHANGED <<seq, ctxDone, svcVars, sess, radioVars, todo>>

StillNewest_unchecked(o) == TRUE

\* The test an Open that has the radio makes before it registers.
StillNewest(o) == openSeq = seq[o]

Register(o) ==
    /\ \/ /\ StillNewest(o)
          /\ Goto(o, "connected", "ending")
          /\ sess' = [sess EXCEPT ![o] = "live"]
       \/ /\ ~StillNewest(o)
          /\ Goto(o, "connected", "backout")
          /\ UNCHANGED sess
    /\ UNCHANGED <<seq, ctxDone, svcVars, radioVars, todo>>

BackoutDisconnect_leak(o) ==
    /\ Goto(o, "backout", "unlock")
    /\ UNCHANGED <<seq, ctxDone, svcVars, sess, radioVars, todo>>

\* release() of an Open that backs out, first half: conn.Close.
BackoutDisconnect(o) ==
    /\ Goto(o, "backout", "unlock")
    /\ links' = links \ {o}
    /\ UNCHANGED <<seq, ctxDone, svcVars, sess, locked, panicked, todo>>

\* Its second half, and AcquireBLEForVIN's error paths: bleMu.Unlock.
OpenUnlock(o) ==
    /\ Goto(o, "unlock", "ending")
    /\ UnlockBleMu
    /\ UNCHANGED <<seq, ctxDone, svcVars, sess, links, todo>>

EndOpen_unconditional(o) ==
    /\ Goto(o, "ending", "done")
    /\ pending' = NoOne
    /\ UNCHANGED <<seq, ctxDone, openSeq, sess, radioVars, todo>>

\* The deferred endOpen(seq): it forgets the pending Open only if it is its own.
EndOpen(o) ==
    /\ Goto(o, "ending", "done")
    /\ pending' = IF openSeq = seq[o] THEN NoOne ELSE pending
    /\ UNCHANGED <<seq, ctxDone, openSeq, sess, radioVars, todo>>

\* The handler's 30 s deadline passes, or its client disconnects.  Once Open
\* has the lock that can only show as a failing scan, which may fail anyway.
ContextEnds(o) ==
    /\ pc[o] \in {"authorized", "begun", "closing", "acquire", "lockwait"}
    /\ ctxDone' = ctxDone \cup {o}
    /\ UNCHANGED <<pc, owner, seq, svcVars, sessVars, radioVars, pairVars,
                   closeVars, removalVars>>

-----------------------------------------------------------------------------
(* Close: whoever deletes the id from the map tears the session down.      *)

\* Close(s) as called by p from its snapshot: an id somebody else has already
\* deleted is ErrBLESessionNotFound, and p does not wait for that teardown.
CloseOne(p, s) ==
    /\ victim[p] = NoOne
    /\ s \in todo[p]
    /\ todo' = [todo EXCEPT ![p] = @ \ {s}]
    /\ IF InMap(s)
         THEN /\ sess' = [sess EXCEPT ![s] = "removed"]
              /\ victim' = [victim EXCEPT ![p] = s]
         ELSE UNCHANGED <<sess, victim>>
    /\ UNCHANGED <<openVars, svcVars, gone, radioVars, pairVars, removalVars>>

CloseReturns(p) ==
    /\ victim[p] # NoOne
    /\ sess[victim[p]] = "released"
    /\ victim' = [victim EXCEPT ![p] = NoOne]
    /\ UNCHANGED <<openVars, svcVars, sessVars, radioVars, pairVars, todo,
                   removalVars>>

SessionStep(s, from, to) ==
    /\ sess[s] \in from
    /\ sess' = [sess EXCEPT ![s] = to]
    /\ UNCHANGED <<openVars, svcVars, gone, pairVars, closeVars, removalVars>>

\* CloseBLESession: any client that was told the id may close it.
ClientClose(s) ==
    /\ pc[s] = "done"
    /\ SessionStep(s, {"live", "idle"}, "removed")
    /\ UNCHANGED radioVars

StopPump(s) == SessionStep(s, {"removed"}, "stopped") /\ UNCHANGED radioVars

\* The session's release closure: conn.Close, then bleMu.Unlock.
ReleaseConn(s) ==
    /\ SessionStep(s, {"stopped"}, "disconnected")
    /\ links' = links \ {s}
    /\ UNCHANGED <<locked, panicked>>

ReleaseLock(s) ==
    /\ SessionStep(s, {"disconnected"}, "released")
    /\ UnlockBleMu
    /\ UNCHANGED links

-----------------------------------------------------------------------------
(* The idle reaper, and the only thing that keeps it off: touch.           *)

TTLPasses(s) == SessionStep(s, {"live"}, "idle") /\ UNCHANGED radioVars

Touch_byObserver(s) ==
    /\ SessionStep(s, {"idle"}, "live")
    /\ UNCHANGED radioVars

\* An Exchange that got its answer.
Touch(s) ==
    /\ pc[s] = "done" /\ s \notin gone
    /\ SessionStep(s, {"idle"}, "live")
    /\ UNCHANGED radioVars

Reap(s) == SessionStep(s, {"idle"}, "removed") /\ UNCHANGED radioVars

\* The client is killed or loses the session id; it never calls again.
ClientGone(s) ==
    /\ InMap(s) /\ s \notin gone
    /\ gone' = gone \cup {s}
    /\ UNCHANGED <<openVars, svcVars, sess, radioVars, pairVars, closeVars,
                   removalVars>>

-----------------------------------------------------------------------------
(* Removing a token: delete (or revoke) the row, then CloseForToken.       *)

DeleteToken(t) ==
    /\ removal[t] = "valid"
    /\ removal' = [removal EXCEPT ![t] = "deleted"]
    /\ UNCHANGED <<openVars, svcVars, sessVars, radioVars, pairVars,
                   closeVars, doomed>>

\* CloseForToken's critical section: cancel and supersede the token's Open in
\* flight, and snapshot the ids of its sessions.
Sweep(t) ==
    /\ removal[t] = "deleted"
    /\ removal' = [removal EXCEPT ![t] = "sweeping"]
    /\ IF pending # NoOne /\ owner[pending] = t
         THEN /\ CancelPending
              /\ pending' = NoOne
              /\ openSeq' = openSeq + 1
         ELSE UNCHANGED <<ctxDone, svcVars>>
    /\ todo' = [todo EXCEPT ![t] = {s \in sessions : owner[s] = t}]
    /\ doomed' = doomed \cup {o \in Opens : owner[o] = t
                                /\ pc[o] \notin {"idle", "authorized"}}
    /\ UNCHANGED <<pc, owner, seq, sessVars, radioVars, pairVars, victim>>

RemovalReturns(t) ==
    /\ removal[t] = "sweeping"
    /\ todo[t] = {} /\ victim[t] = NoOne
    /\ removal' = [removal EXCEPT ![t] = "returned"]
    /\ UNCHANGED <<openVars, svcVars, sessVars, radioVars, pairVars,
                   closeVars, doomed>>

-----------------------------------------------------------------------------
(* Pairing (sendUnauthenticated) takes bleMu for one short exchange.       *)

PairStep(from, to) ==
    /\ pair = from
    /\ pair' = to
    /\ UNCHANGED <<openVars, svcVars, sessVars, closeVars, removalVars>>

PairRequest ==
    /\ MayPair
    /\ PairStep("none", "acquire")
    /\ UNCHANGED <<pairCtx, radioVars>>

PairAcquire ==
    /\ \/ ~pairCtx /\ PairStep("acquire", "lockwait")
       \/ PairStep("acquire", "none")
    /\ pairCtx' = FALSE
    /\ UNCHANGED radioVars

PairTakeLock ==
    /\ PairStep("lockwait", "scan")
    /\ LockBleMu
    /\ pairCtx' = FALSE
    /\ UNCHANGED links

PairLockGivesUp ==
    /\ pairCtx
    /\ PairStep("lockwait", "none")
    /\ pairCtx' = FALSE
    /\ UNCHANGED radioVars

PairScanAndConnect ==
    /\ \/ PairStep("scan", "connected") /\ links' = links \cup {Pairing}
       \/ PairStep("scan", "unlock") /\ UNCHANGED links
    /\ UNCHANGED <<pairCtx, locked, panicked>>

\* The key is sent (or fails); the deferred conn.Close runs before Unlock.
PairDisconnect ==
    /\ PairStep("connected", "unlock")
    /\ links' = links \ {Pairing}
    /\ UNCHANGED <<pairCtx, locked, panicked>>

PairUnlock ==
    /\ PairStep("unlock", "none")
    /\ UnlockBleMu
    /\ UNCHANGED <<pairCtx, links>>

PairContextEnds ==
    /\ pair \in {"acquire", "lockwait"}
    /\ pairCtx' = TRUE
    /\ UNCHANGED <<openVars, svcVars, sessVars, radioVars, pair, closeVars,
                   removalVars>>

-----------------------------------------------------------------------------
OpenSteps(o) ==
    \/ BeginOpen(o) \/ PreemptSnapshot(o) \/ PreemptDone(o) \/ Acquire(o)
    \/ LockGivesUp(o) \/ ScanAndConnect(o) \/ Register(o)
    \/ BackoutDisconnect(o) \/ OpenUnlock(o) \/ EndOpen(o)

OpenNext(o) ==
    \/ \E t \in Tokens : Authorize(o, t)
    \/ OpenWithoutVIN(o)
    \/ OpenSteps(o)
    \/ TakeLock(o)
    \/ NoSessionId(o)
    \/ ContextEnds(o)

CloserNext(p) ==
    \/ \E s \in Opens : CloseOne(p, s)
    \/ CloseReturns(p)

TeardownNext(s) == StopPump(s) \/ ReleaseConn(s) \/ ReleaseLock(s)

SessionNext(s) ==
    \/ ClientClose(s) \/ TeardownNext(s)
    \/ TTLPasses(s) \/ Touch(s) \/ Reap(s) \/ ClientGone(s)

RemovalNext(t) == DeleteToken(t) \/ Sweep(t) \/ RemovalReturns(t)

PairHolding == PairScanAndConnect \/ PairDisconnect \/ PairUnlock

PairNext ==
    \/ PairRequest \/ PairAcquire \/ PairTakeLock \/ PairLockGivesUp
    \/ PairHolding \/ PairContextEnds

Next ==
    \/ \E o \in Opens : OpenNext(o)
    \/ \E p \in Closers : CloserNext(p)
    \/ \E s \in Opens : SessionNext(s)
    \/ \E t \in Tokens : RemovalNext(t)
    \/ PairNext

Spec == Init /\ [][Next]_vars

(* What every schedule of the goroutines gives: a goroutine that can run   *)
(* runs, a started removal goes on, the radio calls are bounded by their   *)
(* contexts.  bleMu's waiters queue in FIFO order on the channel, hence    *)
(* the strong fairness of taking it.  No client is ever obliged to act.    *)
GoroutinesRun ==
    /\ \A o \in Opens : WF_vars(OpenSteps(o)) /\ SF_vars(TakeLock(o))
    /\ \A p \in Closers : WF_vars(CloserNext(p))
    /\ \A s \in Opens : WF_vars(TeardownNext(s))
    /\ \A t \in Tokens : WF_vars(Sweep(t)) /\ WF_vars(RemovalReturns(t))
    /\ WF_vars(PairHolding) /\ WF_vars(PairAcquire)

(* The clocks: the idle TTL elapses and the reaper wakes up.               *)
ReaperRuns ==
    \A s \in Opens : WF_vars(TTLPasses(s)) /\ WF_vars(Reap(s))

FairSpec == Spec /\ GoroutinesRun

-----------------------------------------------------------------------------
(* Who believes it owns bleMu.                                             *)

OpenHolds(o) ==
    \/ pc[o] \in {"scan", "connected", "backout", "unlock"}
    \/ sess[o] \in {"live", "idle", "removed", "stopped", "disconnected"}

PairHolds == pair \in {"scan", "connected", "unlock"}

(* bleMu accounting.  The slot is full exactly when one Open, one session  *)
(* (registered or being torn down) or the pairing request is going to      *)
(* release it: it is never leaked, never shared, and so Unlock never finds *)
(* it empty (tesla.go, bleLock.Unlock panics; AcquireBLEForVIN, "the caller*)
(* MUST eventually invoke it").                                            *)
RadioAccounted ==
    /\ ~panicked
    /\ locked <=> (PairHolds \/ \E o \in Opens : OpenHolds(o))
    /\ \A o \in Opens :
         OpenHolds(o) => ~PairHolds /\ \A q \in Opens : OpenHolds(q) => q = o

(* At most one BLE connection to the car exists, and only under bleMu      *)
(* (tesla_session.go: "exactly ONE BLE session is alive at any moment"):   *)
(* every path that gives the adapter up closes its connection first.       *)
OneLink ==
    /\ \A a, b \in links : a = b
    /\ links # {} => locked

(* The map s.sessions has 0 or 1 entries, which CurrentSession and         *)
(* lockwatch rely on to speak of "the" session.                            *)
AtMostOneSession == \A a, b \in sessions : a = b

(* Preemption suffices: an Open that has preempted and is still the newest *)
(* finds no registered session, so it never queues behind one that only    *)
(* the 5-minute reaper would end (Open: "Preempt BEFORE acquiring").       *)
NewestFindsNoSession ==
    \A o \in Opens :
        pc[o] \in {"acquire", "lockwait", "scan", "connected"} /\ seq[o] = openSeq
            => sessions = {}

(* Once the removal of a token has returned, no Open of that token which   *)
(* had begun when CloseForToken ran has a session, then or later.          *)
SweptOpensStayOut ==
    \A o \in doomed : removal[owner[o]] = "returned" => ~InMap(o)

(* Every Open that has passed its bearer check returns to its client, and  *)
(* no timer is needed for it: under FairSpec neither the handler's 30 s    *)
(* deadline nor the reaper ever has to fire.                               *)
OpenReturns == \A o \in Opens : pc[o] = "authorized" ~> pc[o] = "done"

(* A client that disappears does not pin the adapter: its session is       *)
(* closed and bleMu released (reaper: "a stuck client never livelocks the  *)
(* BLE adapter").  Here, and only here, the clocks have to run.            *)
StuckClientFreesRadio ==
    ReaperRuns => \A s \in Opens : s \in gone ~> sess[s] = "released"

(* "Newest client wins: close the stale one": an Open only preempts a      *)
(* session that an older Open registered.                                  *)
NewestWins ==
    \A o, s \in Opens : victim[o] = s => seq[s] < seq[o]

(* A removed token "loses relay access immediately, including any session  *)
(* it has open": once the removal has returned it owns no session.         *)
RemovedTokenHasNoSession ==
    \A s \in sessions : removal[owner[s]] # "returned"
=============================================================================
