------------------------------- MODULE Access -------------------------------
(***************************************************************************)
(* Who may do what: the bearers of /api/ble (tesla_token.go), the admin's  *)
(* login, its throttle and its sessions (auth.go), the enrolment page that *)
(* hands out codes (spoof.go), and the mapping that publishes them         *)
(* (Remote).                                                               *)
(*                                                                         *)
(* A request is a goroutine of its own; it takes one step per SQL          *)
(* statement and per critical section of loginMu, and anything may happen  *)
(* in between.  Time is a small number; bcrypt's answer is a choice.       *)
(***************************************************************************)
EXTENDS Remote

CONSTANTS
    Addrs,             \* addresses that log in
    enrolTokenTTL,     \* the claim window
    sessionTTL,        \* 24 h
    loginMaxFailures, loginWindow, loginLockout,
    Width,             \* bound on logins of one address under way
    NoRow,
    MaxTokens,         \* bound on the bearers issued
    MaxClock,
    MaxEvents          \* bound on requests, faults and crashes together

Tokens   == 0 .. MaxTokens - 1
Handlers == 1 .. MaxEvents
Never    == MaxClock + enrolTokenTTL + 1

\* A row of tesla_client_tokens; expires is Never where the column is NULL.
TokenRow == [revoked : BOOLEAN, expires : 0 .. Never]
Bucket   == [failures : Nat \ {0}, firstHit : 0 .. MaxClock,
             lockUntil : 0 .. MaxClock + loginLockout]

ASSUME AccessAssumption ==
    /\ {enrolTokenTTL, sessionTTL, loginWindow, loginLockout} \subseteq Nat \ {0}
    /\ loginMaxFailures \in Nat \ {0, 1} /\ Width \in Nat \ {0}
    /\ loginWindow < loginLockout
    /\ {MaxTokens, MaxClock, MaxEvents} \subseteq Nat
    /\ Nobody \notin Handlers
    /\ NoRow \notin TokenRow \cup Bucket \cup Nat

Idle     == [at |-> "idle"]
Requests ==
    {Idle}
    \cup [at : {"claim", "revoke"}, token : Tokens, until : 0 .. Never, self : BOOLEAN]
    \cup [at : {"prune", "insert"}, until : 0 .. Never]
    \cup [at : {"check", "store", "fail", "pass"}, addr : Addrs]
    \cup [at : {"up", "serve"}]

VARIABLES
    clock,
    row,        \* tesla_client_tokens
    issued,     \* how many bearers there have been
    granted,    \* history: bearers promised to be permanent
    removed,    \* history: bearers removed or revoked
    session,    \* sessions: when each expires, or NoRow
    bucket,     \* loginAttempts, or NoRow
    req,        \* the requests
    came, faults, events

tokenVars == <<row, issued, granted, removed>>
loginVars == <<session, bucket>>
vars == <<remoteVars, clock, tokenVars, loginVars, req, came, faults, events>>

\* An earlier run may have left the funnel of /api/ble; that nobody has put
\* another handler on :443 is an assumption.
Init ==
    /\ clock = 0
    /\ row = [t \in Tokens |-> NoRow] /\ issued = 0
    /\ granted = {} /\ removed = {}
    /\ session = [r \in Handlers |-> NoRow]
    /\ bucket = [a \in Addrs |-> NoRow]
    /\ req = [r \in Handlers |-> Idle]
    /\ came = 0 /\ faults = 0 /\ events = 0
    /\ node \in {"absent", "login", "starting", "running"}
    /\ boot = "status" /\ alone = FALSE /\ mu = Nobody
    /\ serve \in {NoServe} \cup (IF ~LoggedIn THEN {} ELSE
                   {[NoServe EXCEPT ![443] = [paths |-> {bleFunnelPath}, funnel |-> TRUE]]})

Event   == events < MaxEvents /\ events' = events + 1
NoFault == UNCHANGED <<faults, events>>
\* A statement or command that fails.
Fault   == Event /\ faults' = faults + 1
Outcome(ok) == IF ok THEN NoFault ELSE Fault

\* A request comes and begins as q.
Comes(q) ==
    /\ Event /\ came' = came + 1
    /\ req' = [req EXCEPT ![came'] = q]
    /\ UNCHANGED <<clock, faults>>

\* A request that is over with its first step.
Served == Event /\ UNCHANGED <<clock, req, came, faults>>

Goes(r, from, q) ==
    /\ req[r].at = from
    /\ req' = [req EXCEPT ![r] = q]
    /\ UNCHANGED <<clock, came>>

-----------------------------------------------------------------------------
(* Bearers.                                                                *)

\* Validate's SELECT finds the row.
Live(t) == row[t] # NoRow /\ ~row[t].revoked /\ row[t].expires > clock

\* BLEBearerRequired, then perhaps RevokeMyToken.
Validate(t, self) ==
    /\ t < issued /\ Live(t)
    /\ Comes(IF row[t].expires # Never
               THEN [at |-> "claim", token |-> t, until |-> row[t].expires, self |-> self]
             ELSE IF self
               THEN [at |-> "revoke", token |-> t, until |-> Never, self |-> self]
             ELSE Idle)
    /\ UNCHANGED <<tokenVars, loginVars, remoteVars>>

MutUpsert(t) == [row EXCEPT ![t] = [expires |-> Never]]
MutReplace(t) == [row EXCEPT ![t] = [revoked |-> FALSE, expires |-> Never]]
MutExtendWindow(t) ==
    IF row[t] = NoRow THEN row
    ELSE [row EXCEPT ![t].expires = clock + enrolTokenTTL]

\* UPDATE ... SET expires_at = NULL WHERE id = ?
Permanent(t) == IF row[t] = NoRow THEN row ELSE [row EXCEPT ![t].expires = Never]

\* Claim on first use; an error is dropped.  The bearer is promised to stay
\* if it was claimed before its window closed.
Claim(r) ==
    \E ok \in BOOLEAN :
        LET q == req[r]
        IN  /\ Goes(r, "claim", IF q.self THEN [q EXCEPT !.at = "revoke"] ELSE Idle)
            /\ row' = IF ok THEN Permanent(q.token) ELSE row
            /\ granted' = IF ok /\ clock < q.until THEN granted \cup {q.token} ELSE granted
            /\ Outcome(ok)
            /\ UNCHANGED <<issued, removed, loginVars, remoteVars>>

Revoke(r) ==
    LET t == req[r].token
    IN  /\ Goes(r, "revoke", Idle)
        /\ row' = IF row[t] = NoRow THEN row ELSE [row EXCEPT ![t].revoked = TRUE]
        /\ removed' = removed \cup {t}
        /\ NoFault
        /\ UNCHANGED <<issued, granted, loginVars, remoteVars>>

\* The admin pages and their API need a session that has not expired.
Authorised == \E r \in Handlers : session[r] # NoRow /\ clock <= session[r]

NewToken(until) ==
    /\ issued \in Tokens
    /\ row' = [row EXCEPT ![issued] = [revoked |-> FALSE, expires |-> until]]
    /\ issued' = issued + 1

IssueToken ==
    /\ Authorised /\ Served
    /\ NewToken(Never)
    /\ granted' = granted \cup {issued}
    /\ UNCHANGED <<removed, loginVars, remoteVars>>

\* "Remove" deletes the row.
RevokeToken(t) ==
    /\ Authorised /\ Served
    /\ row[t] # NoRow
    /\ row' = [row EXCEPT ![t] = NoRow]
    /\ removed' = removed \cup {t}
    /\ UNCHANGED <<issued, granted, loginVars, remoteVars>>

\* buildEnrolURL: Status must know a host name, running or not yet;
\* IssueEphemeral computes the window, prunes and inserts.
IssueEphemeral ==
    /\ LoggedIn
    /\ Comes([at |-> "prune", until |-> clock + enrolTokenTTL])
    /\ UNCHANGED <<tokenVars, loginVars, remoteVars>>

\* Codes that lapsed before they were claimed; an error is dropped.
Lapsed(t) == row[t] # NoRow /\ row[t].expires # Never /\ row[t].expires <= clock

Prune(r) ==
    \E ok \in BOOLEAN :
        /\ Goes(r, "prune", [req[r] EXCEPT !.at = "insert"])
        /\ row' = IF ok THEN [t \in Tokens |-> IF Lapsed(t) THEN NoRow ELSE row[t]] ELSE row
        /\ Outcome(ok)
        /\ UNCHANGED <<issued, granted, removed, loginVars, remoteVars>>

InsertToken(r) ==
    \E ok \in BOOLEAN :
        /\ Goes(r, "insert", Idle)
        /\ IF ok THEN NewToken(req[r].until) ELSE UNCHANGED <<row, issued>>
        /\ Outcome(ok)
        /\ UNCHANGED <<granted, removed, loginVars, remoteVars>>

-----------------------------------------------------------------------------
(* The admin's login, its throttle and its sessions.                       *)

Locked(a) == bucket[a] # NoRow /\ clock < bucket[a].lockUntil

LogsIn(a) == {r \in Handlers : req[r].at \in {"check", "store", "fail", "pass"}
                               /\ req[r].addr = a}

\* loginLocked, before the body is read and the password is checked.
Login(a) ==
    /\ ~Locked(a) /\ Cardinality(LogsIn(a)) < Width
    /\ Comes([at |-> "check", addr |-> a])
    /\ UNCHANGED <<tokenVars, loginVars, remoteVars>>

\* SELECT of the hash and bcrypt.
CheckPassword(r) ==
    \E to \in {"store", "fail"} :
        /\ Goes(r, "check", [req[r] EXCEPT !.at = to])
        /\ NoFault
        /\ UNCHANGED <<tokenVars, loginVars, remoteVars>>

\* INSERT INTO sessions; an error counts as a failed login.
StoreSession(r) ==
    \E ok \in BOOLEAN :
        /\ Goes(r, "store", [req[r] EXCEPT !.at = IF ok THEN "pass" ELSE "fail"])
        /\ session' = IF ok THEN [session EXCEPT ![r] = clock + sessionTTL] ELSE session
        /\ Outcome(ok)
        /\ UNCHANGED <<tokenVars, bucket, remoteVars>>

MutLocksLate(n) == n > loginMaxFailures
LocksOut(n) == n >= loginMaxFailures

\* A failure outside the window of the first one starts a new bucket.
recordLoginFailure(r) ==
    LET a == req[r].addr  b == bucket[a]
        fresh == b = NoRow \/ clock - b.firstHit > loginWindow
    IN  /\ Goes(r, "fail", Idle)
        /\ bucket' = [bucket EXCEPT ![a] =
             IF fresh THEN [failures |-> 1, firstHit |-> clock, lockUntil |-> 0]
             ELSE [failures |-> b.failures + 1, firstHit |-> b.firstHit,
                   lockUntil |-> IF LocksOut(b.failures + 1)
                                   THEN clock + loginLockout ELSE b.lockUntil]]
        /\ NoFault
        /\ UNCHANGED <<tokenVars, session, remoteVars>>

recordLoginSuccess(r) ==
    /\ Goes(r, "pass", Idle)
    /\ bucket' = [bucket EXCEPT ![req[r].addr] = NoRow]
    /\ NoFault
    /\ UNCHANGED <<tokenVars, session, remoteVars>>

\* Logout deletes the session; so does ValidateSession when it has expired.
EndSession(r) ==
    /\ session[r] # NoRow /\ Served
    /\ session' = [session EXCEPT ![r] = NoRow]
    /\ UNCHANGED <<tokenVars, bucket, remoteVars>>

-----------------------------------------------------------------------------
(* The mapping, time and the crash.                                        *)

\* Requests of the remote-access page.
RemoteRequest ==
    /\ Authorised
    /\ \/ Served /\ (EnableBLEFunnel \/ DisableBLEFunnel \/ Install \/ RemoteLogout)
       \/ Comes([at |-> "up"]) /\ UNCHANGED remoteVars
    /\ UNCHANGED <<tokenVars, loginVars>>

Up(r) ==
    \E ok \in BOOLEAN :
        /\ \/ /\ UpLogsIn(r, ok)
              /\ Goes(r, "up", IF ok THEN [at |-> "serve"] ELSE Idle)
           \/ UpServes(r, ok) /\ Goes(r, "serve", Idle)
        /\ Outcome(ok)
        /\ UNCHANGED <<tokenVars, loginVars>>

Boots ==
    \E ok \in BOOLEAN :
        /\ BootStatus(ok) \/ EnsureAdminServe(ok)
        /\ Outcome(ok)
        /\ UNCHANGED <<clock, tokenVars, loginVars, req, came>>

\* tailscaled restarts and comes up by itself.
tailscaled ==
    /\ \/ tailscaledRestarts /\ Event
       \/ tailscaledComesUp /\ UNCHANGED events
    /\ UNCHANGED <<clock, tokenVars, loginVars, req, came, faults>>

Tick ==
    /\ clock < MaxClock
    /\ clock' = clock + 1
    /\ UNCHANGED <<tokenVars, loginVars, remoteVars, req, came, faults, events>>

\* Tables stay; the throttle and the requests are gone.
Crash ==
    /\ Event /\ RemoteRestarts
    /\ req' = [r \in Handlers |-> Idle]
    /\ bucket' = [a \in Addrs |-> NoRow]
    /\ UNCHANGED <<clock, tokenVars, session, came, faults>>

Next ==
    \/ \E t \in Tokens, self \in BOOLEAN : Validate(t, self)
    \/ \E t \in Tokens : RevokeToken(t)
    \/ IssueToken \/ IssueEphemeral
    \/ \E a \in Addrs : Login(a)
    \/ \E r \in Handlers :
         \/ Claim(r) \/ Revoke(r) \/ Prune(r) \/ InsertToken(r)
         \/ CheckPassword(r) \/ StoreSession(r)
         \/ recordLoginFailure(r) \/ recordLoginSuccess(r)
         \/ EndSession(r) \/ Up(r)
    \/ RemoteRequest \/ Boots \/ tailscaled
    \/ Tick \/ Crash

Spec == Init /\ [][Next]_vars

-----------------------------------------------------------------------------
TypeOK ==
    /\ RemoteTypeOK /\ mu \in Handlers \cup {Nobody}
    /\ clock \in 0 .. MaxClock
    /\ row \in [Tokens -> TokenRow \cup {NoRow}] /\ issued \in Nat
    /\ granted \subseteq Tokens /\ removed \subseteq Tokens
    /\ session \in [Handlers -> (0 .. MaxClock + sessionTTL) \cup {NoRow}]
    /\ bucket \in [Addrs -> Bucket \cup {NoRow}]
    /\ req \in [Handlers -> Requests]
    /\ {came, faults, events} \subseteq 0 .. MaxEvents

\* A bearer used inside its claim window, or issued by the operator, works
\* until it is removed: the clean-up that other enrolments run between
\* Validate's SELECT and its UPDATE takes only codes that have lapsed.
ClaimSticks == \A t \in granted \ removed : Live(t)

\* A bearer is spent: removed, revoked, or lapsed while nobody who had found
\* it in time is still about to claim it.
Spent(t) ==
    /\ t < issued
    /\ \/ t \in removed
       \/ ~Live(t) /\ \A r \in Handlers : ~(req[r].at = "claim" /\ req[r].token = t)

\* A session is over: its login is answered, and it was refused, has been
\* ended or has expired.
Over(r) ==
    /\ r <= came /\ req[r] = Idle
    /\ session[r] = NoRow \/ clock > session[r]

\* A spent bearer is spent for good and opens nothing, and so is a session
\* that is over: no late UPDATE or INSERT of a request that was let in before
\* brings one back.
DeadStaysDead ==
    [][/\ \A t \in Tokens : Spent(t) => Spent(t)' /\ ~Live(t)'
       /\ \A r \in Handlers : Over(r) => Over(r)']_vars

\* The throttle counts what parallel logins do: while an address is locked
\* out, its failures and the logins still under way are at most the allowed
\* ones and those that had slipped through together.
Throttled ==
    \A a \in Addrs : Locked(a) =>
        bucket[a].failures + Cardinality(LogsIn(a)) <= loginMaxFailures - 1 + Width

\* While the node runs, the admin pages are reachable over it: the goroutine
\* of main, which asks first and acts later, and Up between them miss no
\* login, unless a command failed, or tailscaled came up by itself when the
\* goroutine had found it not running and was gone: nobody asserts the mapping
\* again then before the next start of the daemon or Up.
AdminReachable ==
    node = "running" /\ mu = Nobody /\ boot = "done" /\ faults = 0 /\ ~alone
        => "/" \in serve[adminServePort].paths
=============================================================================
