---------------------------- MODULE AccessProofs ----------------------------
(***************************************************************************)
(* Proofs about Access: the bearers' promises, the throttle and the        *)
(* published paths, for any number of bearers, requests, addresses and     *)
(* events and any windows.                                                 *)
(***************************************************************************)
EXTENDS Access, FiniteSetTheorems, TLAPS

-----------------------------------------------------------------------------
(* What kind of request r is, from where it is at.                         *)

Claims == [at : {"claim", "revoke"}, token : Tokens, until : 0 .. Never, self : BOOLEAN]
Enrols == [at : {"prune", "insert"}, until : 0 .. Never]
Logins == [at : {"check", "store", "fail", "pass"}, addr : Addrs]

(* The constants are what AccessAssumption says, in the form proofs use.   *)
LEMMA Constants ==
    /\ enrolTokenTTL \in Nat \ {0} /\ sessionTTL \in Nat \ {0}
    /\ loginWindow \in Nat \ {0} /\ loginLockout \in Nat \ {0}
    /\ MaxTokens \in Nat /\ MaxClock \in Nat /\ MaxEvents \in Nat
    /\ loginMaxFailures \in Nat /\ loginMaxFailures > 1
    /\ Width \in Nat /\ Width > 0
    /\ loginWindow < loginLockout
    /\ Never \in Nat /\ Never > MaxClock
    /\ \A c \in 0 .. MaxClock : c + enrolTokenTTL \in 0 .. Never - 1
BY AccessAssumption DEF Never

(* A request's place in its handler tells its shape. *)
LEMMA Shape ==
    ASSUME NEW q \in Requests
    PROVE  /\ q.at \in {"claim", "revoke"} => q \in Claims
           /\ q.at \in {"prune", "insert"} => q \in Enrols
           /\ q.at \in {"check", "store", "fail", "pass"} => q \in Logins
BY DEF Requests, Idle, Claims, Enrols, Logins

(* Every shape is a request's. *)
LEMMA Shapes ==
    /\ Claims \subseteq Requests /\ Enrols \subseteq Requests
    /\ Logins \subseteq Requests /\ Idle \in Requests
    /\ [at |-> "up"] \in Requests /\ [at |-> "serve"] \in Requests
BY DEF Requests, Claims, Enrols, Logins

-----------------------------------------------------------------------------
(* Types.  Requests and faults are counted by events.                      *)

Typed == TypeOK /\ came <= events /\ faults <= events

(* A request that comes is counted and recorded. *)
LEMMA ComesType ==
    ASSUME Typed, NEW q \in Requests, Comes(q)
    PROVE  /\ req' \in [Handlers -> Requests] /\ clock' = clock /\ faults' = faults
           /\ {came, faults, events}' \subseteq 0 .. MaxEvents
           /\ came' <= events' /\ faults' <= events'
<1>1. req' \in [Handlers -> Requests]
  BY DEF Typed, TypeOK, Comes
<1>. QED
  BY <1>1, Constants DEF Typed, TypeOK, Comes, Event

(* So is one that is over at once. *)
LEMMA ServedType ==
    ASSUME Typed, Served
    PROVE  /\ req' = req /\ clock' = clock
           /\ {came, faults, events}' \subseteq 0 .. MaxEvents
           /\ came' <= events' /\ faults' <= events'
BY Constants DEF Typed, TypeOK, Served, Event

(* A later step of a request, whatever its outcome. *)
LEMMA GoesType ==
    ASSUME Typed, NEW r \in Handlers, NEW from, NEW q \in Requests, Goes(r, from, q),
           NEW ok \in BOOLEAN, Outcome(ok)
    PROVE  /\ req' \in [Handlers -> Requests] /\ clock' = clock
           /\ {came, faults, events}' \subseteq 0 .. MaxEvents
           /\ came' <= events' /\ faults' <= events'
BY Constants DEF Typed, TypeOK, Goes, Outcome, NoFault, Fault, Event

(* The commands leave a serve configuration, and only the funnel's port is *)
(* opened.                                                                  *)
LEMMA ServeType ==
    ASSUME RemoteTypeOK
    PROVE  LET Conf == [Ports -> [paths : SUBSET {"/", bleFunnelPath}, funnel : BOOLEAN]]
           IN  /\ NoServe \in Conf /\ Funnelled \in Conf
               /\ Hidden \in Conf /\ AdminServed \in Conf
<1>. DEFINE Port == [paths : SUBSET {"/", bleFunnelPath}, funnel : BOOLEAN]
<1>1. serve \in [Ports -> Port] /\ 443 \in Ports /\ 10000 \in Ports
  BY DEF RemoteTypeOK, Ports
<1>2. serve[443] \in Port /\ serve[10000] \in Port
  BY <1>1
<1>3. NoServe \in [Ports -> Port]
  BY DEF NoServe
<1>4. Funnelled \in [Ports -> Port]
  BY <1>1, <1>2 DEF Funnelled, funnelPort
<1>5. Hidden \in [Ports -> Port]
  <2>. DEFINE rest == serve[443].paths \ {bleFunnelPath}
  <2>1. [paths |-> rest, funnel |-> serve[443].funnel /\ rest # {}] \in Port
    BY <1>2
  <2>. QED
    BY <1>1, <2>1 DEF Hidden, funnelPort
<1>6. AdminServed \in [Ports -> Port]
  BY <1>1, <1>2 DEF AdminServed, adminServePort
<1>. QED
  BY <1>3, <1>4, <1>5, <1>6

(* Every operation on the mapping keeps its type. *)
LEMMA RemoteStep ==
    ASSUME RemoteTypeOK, mu \in Handlers \cup {Nobody}, NEW r \in Handlers, NEW ok \in BOOLEAN,
           \/ EnableBLEFunnel \/ DisableBLEFunnel \/ Install \/ RemoteLogout
           \/ UpLogsIn(r, ok) \/ UpServes(r, ok)
           \/ BootStatus(ok) \/ EnsureAdminServe(ok) \/ RemoteRestarts
           \/ tailscaledRestarts \/ tailscaledComesUp \/ UNCHANGED remoteVars
    PROVE  RemoteTypeOK' /\ mu' \in Handlers \cup {Nobody}
<1>. DEFINE Conf == [Ports -> [paths : SUBSET {"/", bleFunnelPath}, funnel : BOOLEAN]]
<1>1. /\ serve' \in {serve, NoServe, Funnelled, Hidden, AdminServed}
      /\ node' \in {"absent", "login", "starting", "running"}
      /\ boot' \in {"status", "serve", "done"}
      /\ mu' \in Handlers \cup {Nobody}
  BY DEF RemoteTypeOK, EnableBLEFunnel, DisableBLEFunnel, Install, RemoteLogout, UpLogsIn,
         UpServes, BootStatus, EnsureAdminServe, RemoteRestarts, tailscaledRestarts,
         tailscaledComesUp, remoteVars
<1>2. serve' \in Conf
  BY <1>1, ServeType DEF RemoteTypeOK
<1>3. alone' \in BOOLEAN
  BY DEF RemoteTypeOK, EnableBLEFunnel, DisableBLEFunnel, Install, RemoteLogout, UpLogsIn,
         UpServes, BootStatus, EnsureAdminServe, RemoteRestarts, tailscaledRestarts,
         tailscaledComesUp, remoteVars
<1>. QED
  BY <1>1, <1>2, <1>3 DEF RemoteTypeOK

(* Every step keeps the types. *)
LEMMA TypeStep ==
    ASSUME Typed, [Next]_vars
    PROVE  Typed'
<1>. USE DEF Typed, TypeOK
<1>0. CASE UNCHANGED vars
  BY <1>0 DEF vars, remoteVars, tokenVars, loginVars, RemoteTypeOK
<1>1. ASSUME NEW t \in Tokens, NEW self \in BOOLEAN, Validate(t, self) PROVE Typed'
  <2>. DEFINE q == IF row[t].expires # Never
                     THEN [at |-> "claim", token |-> t, until |-> row[t].expires, self |-> self]
                   ELSE IF self
                     THEN [at |-> "revoke", token |-> t, until |-> Never, self |-> self]
                   ELSE Idle
  <2>1. row[t] \in TokenRow
    BY <1>1 DEF Validate, Live
  <2>2. q \in Requests
    BY <2>1, Constants, Shapes DEF Claims, TokenRow
  <2>3. Comes(q)
    BY <1>1 DEF Validate
  <2>. HIDE DEF q
  <2>. QED
    BY <1>1, <2>2, <2>3, ComesType
       DEF Validate, tokenVars, loginVars, remoteVars, RemoteTypeOK
<1>2. ASSUME NEW t \in Tokens, RevokeToken(t) PROVE Typed'
  BY <1>2, ServedType DEF RevokeToken, loginVars, remoteVars, RemoteTypeOK
<1>3. ASSUME IssueToken PROVE Typed'
  <2>1. issued \in Tokens /\ row' \in [Tokens -> TokenRow \cup {NoRow}] /\ issued' \in Nat
    BY <1>3, Constants DEF IssueToken, NewToken, TokenRow
  <2>. QED
    BY <1>3, <2>1, ServedType DEF IssueToken, loginVars, remoteVars, RemoteTypeOK
<1>4. ASSUME IssueEphemeral PROVE Typed'
  <2>1. [at |-> "prune", until |-> clock + enrolTokenTTL] \in Requests
    BY Constants, Shapes DEF Enrols
  <2>. QED
    BY <1>4, <2>1, ComesType
       DEF IssueEphemeral, tokenVars, loginVars, remoteVars, RemoteTypeOK
<1>5. ASSUME NEW a \in Addrs, Login(a) PROVE Typed'
  <2>1. [at |-> "check", addr |-> a] \in Requests
    BY Shapes DEF Logins
  <2>. QED
    BY <1>5, <2>1, ComesType DEF Login, tokenVars, loginVars, remoteVars, RemoteTypeOK
<1>6. ASSUME NEW r \in Handlers, Claim(r) PROVE Typed'
  <2>1. PICK ok \in BOOLEAN :
          /\ Goes(r, "claim", IF req[r].self THEN [req[r] EXCEPT !.at = "revoke"] ELSE Idle)
          /\ row' = IF ok THEN Permanent(req[r].token) ELSE row
          /\ granted' = IF ok /\ clock < req[r].until THEN granted \cup {req[r].token}
                                                      ELSE granted
          /\ Outcome(ok)
          /\ UNCHANGED <<issued, removed, loginVars, remoteVars>>
    BY <1>6 DEF Claim
  <2>2. req[r] \in Claims
    BY <2>1, Shape DEF Goes
  <2>3. (IF req[r].self THEN [req[r] EXCEPT !.at = "revoke"] ELSE Idle) \in Requests
    BY <2>2, Shapes DEF Claims
  <2>4. row' \in [Tokens -> TokenRow \cup {NoRow}]
    BY <2>1, <2>2, Constants DEF Permanent, TokenRow, Claims
  <2>. QED
    BY <2>1, <2>2, <2>3, <2>4, GoesType DEF Claims, loginVars, remoteVars, RemoteTypeOK
<1>7. ASSUME NEW r \in Handlers, Revoke(r) PROVE Typed'
  <2>1. req[r] \in Claims /\ Outcome(TRUE) /\ Goes(r, "revoke", Idle)
    BY <1>7, Shape DEF Revoke, Goes, Outcome
  <2>2. row' \in [Tokens -> TokenRow \cup {NoRow}] /\ removed' \subseteq Tokens
    BY <1>7, <2>1 DEF Revoke, TokenRow, Claims
  <2>. QED
    BY <1>7, <2>1, <2>2, Shapes, GoesType DEF Revoke, loginVars, remoteVars, RemoteTypeOK
<1>8. ASSUME NEW r \in Handlers, Prune(r) PROVE Typed'
  <2>1. PICK ok \in BOOLEAN :
          /\ Goes(r, "prune", [req[r] EXCEPT !.at = "insert"])
          /\ row' = IF ok THEN [t \in Tokens |-> IF Lapsed(t) THEN NoRow ELSE row[t]] ELSE row
          /\ Outcome(ok)
          /\ UNCHANGED <<issued, granted, removed, loginVars, remoteVars>>
    BY <1>8 DEF Prune
  <2>2. [req[r] EXCEPT !.at = "insert"] \in Requests
    BY <2>1, Shape, Shapes DEF Goes, Enrols
  <2>. QED
    BY <2>1, <2>2, GoesType DEF loginVars, remoteVars, RemoteTypeOK
<1>9. ASSUME NEW r \in Handlers, InsertToken(r) PROVE Typed'
  <2>1. PICK ok \in BOOLEAN :
          /\ Goes(r, "insert", Idle)
          /\ IF ok THEN NewToken(req[r].until) ELSE UNCHANGED <<row, issued>>
          /\ Outcome(ok)
          /\ UNCHANGED <<granted, removed, loginVars, remoteVars>>
    BY <1>9 DEF InsertToken
  <2>2. req[r] \in Enrols
    BY <2>1, Shape DEF Goes
  <2>3. row' \in [Tokens -> TokenRow \cup {NoRow}] /\ issued' \in Nat
    <3>1. req[r].until \in 0 .. Never
      BY <2>2 DEF Enrols
    <3>. DEFINE v == [revoked |-> FALSE, expires |-> req[r].until]
    <3>2. v \in TokenRow
      BY <3>1 DEF TokenRow
    <3>3. /\ NewToken(req[r].until) \/ UNCHANGED <<row, issued>>
          /\ row \in [Tokens -> TokenRow \cup {NoRow}] /\ issued \in Nat
      BY <2>1
    <3>4. \/ row' = [row EXCEPT ![issued] = v] /\ issued' = issued + 1
          \/ row' = row /\ issued' = issued
      BY <3>3 DEF NewToken
    <3>. HIDE DEF Typed, TypeOK, v
    <3>. QED
      BY <3>2, <3>3, <3>4
  <2>. QED
    BY <2>1, <2>3, Shapes, GoesType DEF loginVars, remoteVars, RemoteTypeOK
<1>10. ASSUME NEW r \in Handlers, CheckPassword(r) PROVE Typed'
  <2>1. PICK to \in {"store", "fail"} :
          /\ Goes(r, "check", [req[r] EXCEPT !.at = to])
          /\ Outcome(TRUE)
          /\ UNCHANGED <<tokenVars, loginVars, remoteVars>>
    BY <1>10 DEF CheckPassword, Outcome
  <2>2. [req[r] EXCEPT !.at = to] \in Requests
    BY <2>1, Shape, Shapes DEF Goes, Logins
  <2>. QED
    BY <2>1, <2>2, GoesType DEF tokenVars, loginVars, remoteVars, RemoteTypeOK
<1>11. ASSUME NEW r \in Handlers, StoreSession(r) PROVE Typed'
  <2>1. PICK ok \in BOOLEAN :
          /\ Goes(r, "store", [req[r] EXCEPT !.at = IF ok THEN "pass" ELSE "fail"])
          /\ session' = IF ok THEN [session EXCEPT ![r] = clock + sessionTTL] ELSE session
          /\ Outcome(ok)
          /\ UNCHANGED <<tokenVars, bucket, remoteVars>>
    BY <1>11 DEF StoreSession
  <2>2. [req[r] EXCEPT !.at = IF ok THEN "pass" ELSE "fail"] \in Requests
    BY <2>1, Shape, Shapes DEF Goes, Logins
  <2>3. session' \in [Handlers -> (0 .. MaxClock + sessionTTL) \cup {NoRow}]
    BY <2>1, Constants
  <2>. QED
    BY <2>1, <2>2, <2>3, GoesType DEF tokenVars, remoteVars, RemoteTypeOK
<1>12. ASSUME NEW r \in Handlers, recordLoginFailure(r) PROVE Typed'
  <2>1. req[r] \in Logins /\ Outcome(TRUE) /\ Goes(r, "fail", Idle)
    BY <1>12, Shape DEF recordLoginFailure, Goes, Outcome
  <2>2. req[r].addr \in Addrs
    BY <2>1 DEF Logins
  <2>3. bucket' \in [Addrs -> Bucket \cup {NoRow}]
    <3>. DEFINE a == req[r].addr
                b == bucket[a]
    <3>1. [failures |-> 1, firstHit |-> clock, lockUntil |-> 0] \in Bucket
      BY Constants DEF Bucket
    <3>0. b # NoRow => b \in Bucket
      BY <2>2
    <3>2. ASSUME b # NoRow, NEW u \in 0 .. MaxClock + loginLockout
          PROVE  [failures |-> b.failures + 1, firstHit |-> b.firstHit, lockUntil |-> u]
                    \in Bucket
      BY <3>0, <3>2 DEF Bucket
    <3>3. /\ clock + loginLockout \in 0 .. MaxClock + loginLockout
          /\ b # NoRow => b.lockUntil \in 0 .. MaxClock + loginLockout
      BY <3>0, Constants DEF Bucket
    <3>4. PICK v \in Bucket : bucket' = [bucket EXCEPT ![a] = v]
      <4>1. CASE b = NoRow \/ clock - b.firstHit > loginWindow
        BY <1>12, <3>1, <4>1 DEF recordLoginFailure
      <4>2. CASE ~(b = NoRow \/ clock - b.firstHit > loginWindow)
        <5>. DEFINE u == IF LocksOut(b.failures + 1) THEN clock + loginLockout
                                                     ELSE b.lockUntil
        <5>1. u \in 0 .. MaxClock + loginLockout
          BY <3>3, <4>2
        <5>2. bucket' = [bucket EXCEPT ![a] =
                [failures |-> b.failures + 1, firstHit |-> b.firstHit, lockUntil |-> u]]
          BY <1>12, <4>2 DEF recordLoginFailure
        <5>. QED
          BY <3>2, <4>2, <5>1, <5>2
      <4>. QED
        BY <4>1, <4>2
    <3>. HIDE DEF a, b
    <3>. QED
      BY <3>4
  <2>. QED
    BY <1>12, <2>1, <2>3, Shapes, GoesType
       DEF recordLoginFailure, tokenVars, remoteVars, RemoteTypeOK
<1>13. ASSUME NEW r \in Handlers, recordLoginSuccess(r) PROVE Typed'
  <2>1. Outcome(TRUE) /\ Goes(r, "pass", Idle)
    BY <1>13 DEF recordLoginSuccess, Outcome
  <2>. QED
    BY <1>13, <2>1, Shapes, GoesType
       DEF recordLoginSuccess, tokenVars, remoteVars, RemoteTypeOK
<1>14. ASSUME NEW r \in Handlers, EndSession(r) PROVE Typed'
  BY <1>14, ServedType DEF EndSession, tokenVars, remoteVars, RemoteTypeOK
<1>15. ASSUME NEW r \in Handlers, Up(r) PROVE Typed'
  <2>1. PICK ok \in BOOLEAN :
          /\ \/ UpLogsIn(r, ok) /\ Goes(r, "up", IF ok THEN [at |-> "serve"] ELSE Idle)
             \/ UpServes(r, ok) /\ Goes(r, "serve", Idle)
          /\ Outcome(ok)
          /\ UNCHANGED <<tokenVars, loginVars>>
    BY <1>15 DEF Up
  <2>2. \/ Goes(r, "up", Idle) \/ Goes(r, "up", [at |-> "serve"])
        \/ Goes(r, "serve", Idle)
    BY <2>1
  <2>3. RemoteTypeOK' /\ mu' \in Handlers \cup {Nobody}
    BY <2>1, RemoteStep
  <2>. QED
    BY <2>1, <2>2, <2>3, Shapes, GoesType DEF tokenVars, loginVars
<1>16. ASSUME RemoteRequest PROVE Typed'
  <2>0. UNCHANGED <<tokenVars, loginVars>>
    BY <1>16 DEF RemoteRequest
  <2>1. CASE Served /\ (EnableBLEFunnel \/ DisableBLEFunnel \/ Install \/ RemoteLogout)
    <3>1. 1 \in Handlers
      BY <2>1, Constants DEF Served, Event, Handlers
    <3>2. RemoteTypeOK' /\ mu' \in Handlers \cup {Nobody}
      BY <2>1, <3>1, RemoteStep
    <3>. QED
      BY <2>0, <2>1, <3>2, ServedType DEF tokenVars, loginVars
  <2>2. CASE Comes([at |-> "up"]) /\ UNCHANGED remoteVars
    BY <2>0, <2>2, Shapes, ComesType DEF tokenVars, loginVars, remoteVars, RemoteTypeOK
  <2>. QED
    BY <1>16, <2>1, <2>2 DEF RemoteRequest
<1>17. ASSUME Boots PROVE Typed'
  <2>1. PICK ok \in BOOLEAN :
          /\ BootStatus(ok) \/ EnsureAdminServe(ok)
          /\ Outcome(ok)
          /\ UNCHANGED <<clock, tokenVars, loginVars, req, came>>
    BY <1>17 DEF Boots
  <2>2. /\ {came, faults, events}' \subseteq 0 .. MaxEvents
        /\ came' <= events' /\ faults' <= events'
    BY <2>1, Constants DEF Outcome, NoFault, Fault, Event
  <2>3. RemoteTypeOK' /\ mu' \in Handlers \cup {Nobody}
    <3>1. /\ serve' \in {serve, AdminServed} /\ boot' \in {"status", "serve", "done"}
          /\ UNCHANGED <<node, mu>>
      BY <2>1 DEF BootStatus, EnsureAdminServe
    <3>2. alone' \in BOOLEAN
      BY <2>1 DEF BootStatus, EnsureAdminServe, RemoteTypeOK
    <3>. QED
      BY <3>1, <3>2, ServeType DEF RemoteTypeOK
  <2>. QED
    BY <2>1, <2>2, <2>3 DEF tokenVars, loginVars
<1>18. ASSUME Tick PROVE Typed'
  BY <1>18, Constants DEF Tick, tokenVars, loginVars, remoteVars, RemoteTypeOK
<1>19. ASSUME Crash PROVE Typed'
  <2>1. RemoteTypeOK' /\ mu' \in Handlers \cup {Nobody}
    BY <1>19, ServeType DEF Crash, RemoteRestarts, RemoteTypeOK
  <2>2. req' \in [Handlers -> Requests] /\ bucket' \in [Addrs -> Bucket \cup {NoRow}]
    BY <1>19, Shapes DEF Crash
  <2>. QED
    BY <1>19, <2>1, <2>2, Constants DEF Crash, Event, tokenVars
<1>20. ASSUME tailscaled PROVE Typed'
  <2>1. RemoteTypeOK' /\ mu' \in Handlers \cup {Nobody}
    <3>1. /\ serve' \in {serve, NoServe} /\ UNCHANGED <<boot, mu>>
          /\ node' \in {"starting", "running"}
      BY <1>20 DEF tailscaled, tailscaledRestarts, tailscaledComesUp
    <3>2. alone' \in BOOLEAN
      BY <1>20 DEF tailscaled, tailscaledRestarts, tailscaledComesUp, RemoteTypeOK
    <3>. QED
      BY <3>1, <3>2, ServeType DEF RemoteTypeOK
  <2>2. /\ {came, faults, events}' \subseteq 0 .. MaxEvents
        /\ came' <= events' /\ faults' <= events'
    BY <1>20, Constants DEF tailscaled, Event
  <2>. QED
    BY <1>20, <2>1, <2>2 DEF tailscaled, tokenVars, loginVars
<1>. QED
  BY <1>0, <1>1, <1>2, <1>3, <1>4, <1>5, <1>6, <1>7, <1>8, <1>9, <1>10, <1>11, <1>12, <1>13,
     <1>14, <1>15, <1>16, <1>17, <1>18, <1>19, <1>20 DEF Next

(* The types hold at the start. *)
LEMMA TypeInit ==
    ASSUME Init
    PROVE  Typed
<1>1. RemoteTypeOK /\ mu \in Handlers \cup {Nobody}
  <2>. DEFINE Port == [paths : SUBSET {"/", bleFunnelPath}, funnel : BOOLEAN]
              on == [paths |-> {bleFunnelPath}, funnel |-> TRUE]
  <2>1. NoServe \in [Ports -> Port] /\ on \in Port
    BY DEF NoServe
  <2>2. serve = NoServe \/ serve = [NoServe EXCEPT ![443] = on]
    BY DEF Init
  <2>. HIDE DEF on, Port
  <2>3. serve \in [Ports -> Port]
    BY <2>1, <2>2
  <2>. QED
    BY <2>3 DEF Init, RemoteTypeOK, Port
<1>. QED
  BY <1>1, Constants, Shapes DEF Init, Typed, TypeOK

-----------------------------------------------------------------------------
(* Bearers.  A request about to claim a code still finds it as it was read *)
(* while its window is open; what was granted has no window left.          *)

TokensKnown ==
    /\ \A t \in granted \cup removed : t < issued
    /\ \A r \in Handlers : req[r].at \in {"claim", "revoke"} => req[r].token < issued

WindowKept ==
    \A r \in Handlers : req[r].at = "claim" =>
        /\ row[req[r].token] # NoRow
              => row[req[r].token].expires \in {req[r].until, Never}
        /\ clock < req[r].until /\ req[r].token \notin removed
              => row[req[r].token] # NoRow

GrantedKept == \A t \in granted \ removed : row[t] # NoRow /\ row[t].expires = Never

RemovedOut == \A t \in Tokens : row[t] # NoRow => (row[t].revoked <=> t \in removed)

RowsKnown == \A t \in Tokens : row[t] # NoRow => t < issued

BearerInv == TokensKnown /\ RowsKnown /\ WindowKept /\ GrantedKept /\ RemovedOut

(* Steps that leave the bearers alone and let nobody in keep the invariant. *)
LEMMA BearerFrame ==
    ASSUME Typed, BearerInv, UNCHANGED tokenVars, clock' \in Nat, clock <= clock',
           \A r \in Handlers : req'[r].at \in {"claim", "revoke"} => req'[r] = req[r]
    PROVE  BearerInv'
<1>. USE DEF tokenVars
<1>1. TokensKnown'
  BY DEF BearerInv, TokensKnown
<1>2. WindowKept'
  <2>. SUFFICES ASSUME NEW r \in Handlers, req'[r].at = "claim"
                PROVE  /\ row[req[r].token] # NoRow
                             => row[req[r].token].expires \in {req[r].until, Never}
                       /\ clock' < req[r].until /\ req[r].token \notin removed
                             => row[req[r].token] # NoRow
    BY DEF WindowKept
  <2>1. req[r] \in Claims /\ req[r].at = "claim"
    BY Shape DEF Typed, TypeOK
  <2>2. clock' < req[r].until => clock < req[r].until
    BY <2>1, Constants DEF Typed, TypeOK, Claims
  <2>. QED
    BY <2>1, <2>2 DEF BearerInv, WindowKept
<1>3. GrantedKept' /\ RemovedOut' /\ RowsKnown'
  BY DEF BearerInv, GrantedKept, RemovedOut, RowsKnown
<1>. QED
  BY <1>1, <1>2, <1>3 DEF BearerInv

(* A request that comes as something else than a claim is none of the      *)
(* bearers' business.                                                       *)
LEMMA ComesFrame ==
    ASSUME Typed, BearerInv, NEW q, q.at \notin {"claim", "revoke"}, Comes(q),
           UNCHANGED tokenVars
    PROVE  BearerInv'
<1>1. \A r \in Handlers : req'[r].at \in {"claim", "revoke"} => req'[r] = req[r]
  BY DEF Comes, Typed, TypeOK
<1>. QED
  BY <1>1, BearerFrame, Constants DEF Comes, Typed, TypeOK

(* Nor is a step of another request. *)
LEMMA GoesFrame ==
    ASSUME Typed, BearerInv, NEW r \in Handlers, NEW from, NEW q,
           q.at \notin {"claim", "revoke"}, Goes(r, from, q), UNCHANGED tokenVars
    PROVE  BearerInv'
<1>1. \A p \in Handlers : req'[p].at \in {"claim", "revoke"} => req'[p] = req[p]
  BY DEF Goes, Typed, TypeOK
<1>. QED
  BY <1>1, BearerFrame, Constants DEF Goes, Typed, TypeOK

(* A new bearer is none of the earlier ones. *)
LEMMA NewTokenStep ==
    ASSUME Typed, BearerInv, NEW u \in 0 .. Never, NewToken(u), clock' = clock,
           removed' = removed, granted' \subseteq granted \cup {issued},
           issued \in granted' => u = Never,
           \A r \in Handlers : req'[r].at \in {"claim", "revoke"} => req'[r] = req[r]
    PROVE  BearerInv'
<1>1. /\ issued \in Tokens /\ issued \in Nat /\ issued' = issued + 1
      /\ row' = [row EXCEPT ![issued] = [revoked |-> FALSE, expires |-> u]]
      /\ row \in [Tokens -> TokenRow \cup {NoRow}]
  BY DEF NewToken, Typed, TypeOK
<1>2. [revoked |-> FALSE, expires |-> u] # NoRow
  <2>1. [revoked |-> FALSE, expires |-> u] \in TokenRow
    BY DEF TokenRow
  <2>. QED
    BY <2>1, AccessAssumption
<1>3. issued \notin granted /\ issued \notin removed /\ granted \subseteq Tokens
      /\ removed \subseteq Tokens
  BY <1>1 DEF BearerInv, TokensKnown, Typed, TypeOK
<1>4. TokensKnown'
  <2>1. \A t \in granted' \cup removed' : t < issued'
    BY <1>1, <1>3 DEF BearerInv, TokensKnown, Tokens
  <2>2. ASSUME NEW r \in Handlers, req'[r].at \in {"claim", "revoke"}
        PROVE  req'[r].token < issued'
    <3>1. req[r] \in Claims /\ req'[r] = req[r]
      BY <2>2, Shape DEF Typed, TypeOK
    <3>2. req[r].token < issued /\ req[r].token \in Nat
      BY <2>2, <3>1, Constants DEF BearerInv, TokensKnown, Claims, Tokens
    <3>. QED
      BY <1>1, <3>1, <3>2
  <2>. QED
    BY <2>1, <2>2 DEF TokensKnown
<1>5. WindowKept'
  <2>. SUFFICES ASSUME NEW r \in Handlers, req'[r].at = "claim"
                PROVE  /\ row'[req[r].token] # NoRow
                             => row'[req[r].token].expires \in {req[r].until, Never}
                       /\ clock < req[r].until /\ req[r].token \notin removed
                             => row'[req[r].token] # NoRow
    BY DEF WindowKept
  <2>1. req[r] \in Claims /\ req[r].at = "claim"
    BY Shape DEF Typed, TypeOK
  <2>2. req[r].token \in Tokens /\ req[r].token < issued
    BY <2>1 DEF BearerInv, TokensKnown, Claims
  <2>3. row'[req[r].token] = row[req[r].token]
    BY <1>1, <2>2 DEF Tokens
  <2>. QED
    BY <2>1, <2>3 DEF BearerInv, WindowKept
<1>6. GrantedKept'
  <2>. SUFFICES ASSUME NEW t \in granted' \ removed
                PROVE  row'[t] # NoRow /\ row'[t].expires = Never
    BY DEF GrantedKept
  <2>1. CASE t = issued
    BY <1>1, <1>2, <2>1
  <2>2. CASE t # issued
    BY <1>1, <1>3, <2>2 DEF BearerInv, GrantedKept
  <2>. QED
    BY <2>1, <2>2
<1>7. RemovedOut' /\ RowsKnown'
  <2>1. RemovedOut'
    BY <1>1, <1>3 DEF BearerInv, RemovedOut
  <2>2. RowsKnown'
    BY <1>1, Constants DEF BearerInv, RowsKnown, Tokens
  <2>. QED
    BY <2>1, <2>2
<1>. QED
  BY <1>4, <1>5, <1>6, <1>7 DEF BearerInv

(* Every step keeps the bearers' invariant. *)
LEMMA BearerStep ==
    ASSUME Typed, BearerInv, [Next]_vars
    PROVE  BearerInv'
<1>0. /\ clock \in Nat /\ row \in [Tokens -> TokenRow \cup {NoRow}] /\ issued \in Nat
      /\ granted \subseteq Tokens /\ removed \subseteq Tokens
      /\ req \in [Handlers -> Requests]
  BY Constants DEF Typed, TypeOK
<1>1. ASSUME NEW r \in Handlers, req[r].at \in {"claim", "revoke"}
      PROVE  req[r] \in Claims /\ req[r].token \in Tokens /\ req[r].until \in Nat
  <2>1. req[r] \in Claims
    BY <1>0, <1>1, Shape
  <2>. QED
    BY <2>1, Constants DEF Claims
<1>2. CASE UNCHANGED vars
  BY <1>2, <1>0, BearerFrame DEF vars
<1>3. ASSUME NEW t \in Tokens, NEW self \in BOOLEAN, Validate(t, self) PROVE BearerInv'
  <2>. DEFINE q == IF row[t].expires # Never
                     THEN [at |-> "claim", token |-> t, until |-> row[t].expires, self |-> self]
                   ELSE IF self
                     THEN [at |-> "revoke", token |-> t, until |-> Never, self |-> self]
                   ELSE Idle
  <2>1. /\ t < issued /\ row[t] # NoRow /\ Comes(q) /\ UNCHANGED <<row, issued, granted, removed>>
        /\ clock' = clock
    BY <1>3 DEF Validate, Live, tokenVars, Comes
  <2>2. ASSUME NEW r \in Handlers, req'[r].at \in {"claim", "revoke"}
        PROVE  \/ req'[r] = req[r]
               \/ /\ req'[r].token = t
                  /\ req'[r].at = "claim" => req'[r].until = row[t].expires
    <3>1. req'[r] = req[r] \/ req'[r] = q
      BY <2>1, <1>0 DEF Comes
    <3>. QED
      BY <2>2, <3>1 DEF Idle
  <2>. HIDE DEF q
  <2>3. TokensKnown'
    BY <2>1, <2>2 DEF BearerInv, TokensKnown
  <2>4. WindowKept'
    BY <2>1, <2>2 DEF BearerInv, WindowKept
  <2>. QED
    BY <2>1, <2>3, <2>4 DEF BearerInv, GrantedKept, RemovedOut, RowsKnown
<1>4. ASSUME NEW t \in Tokens, RevokeToken(t) PROVE BearerInv'
  <2>1. /\ row[t] # NoRow /\ row' = [row EXCEPT ![t] = NoRow] /\ removed' = removed \cup {t}
        /\ UNCHANGED <<clock, req, issued, granted>>
    BY <1>4 DEF RevokeToken, Served
  <2>2. t < issued
    BY <2>1 DEF BearerInv, RowsKnown
  <2>3. TokensKnown'
    BY <2>1, <2>2 DEF BearerInv, TokensKnown
  <2>4. WindowKept'
    BY <1>0, <1>1, <2>1 DEF BearerInv, WindowKept
  <2>5. GrantedKept' /\ RemovedOut' /\ RowsKnown'
    BY <1>0, <2>1 DEF BearerInv, GrantedKept, RemovedOut, RowsKnown
  <2>. QED
    BY <2>3, <2>4, <2>5 DEF BearerInv
<1>5. ASSUME IssueToken PROVE BearerInv'
  BY <1>5, Constants, NewTokenStep DEF IssueToken, Served
<1>6. ASSUME IssueEphemeral PROVE BearerInv'
  BY <1>6, ComesFrame DEF IssueEphemeral
<1>7. ASSUME NEW a \in Addrs, Login(a) PROVE BearerInv'
  BY <1>7, ComesFrame DEF Login
<1>8. ASSUME NEW r \in Handlers, Claim(r) PROVE BearerInv'
  <2>. DEFINE k == req[r].token
  <2>1. PICK ok \in BOOLEAN :
          /\ Goes(r, "claim", IF req[r].self THEN [req[r] EXCEPT !.at = "revoke"] ELSE Idle)
          /\ row' = IF ok THEN Permanent(k) ELSE row
          /\ granted' = IF ok /\ clock < req[r].until THEN granted \cup {k} ELSE granted
          /\ UNCHANGED <<issued, removed>>
    BY <1>8 DEF Claim
  <2>2. req[r].at = "claim" /\ req[r] \in Claims /\ k \in Tokens /\ clock' = clock
    BY <1>1, <2>1 DEF Goes
  <2>3. \A p \in Handlers : req'[p].at \in {"claim", "revoke"} =>
          /\ req[p].at \in {"claim", "revoke"} /\ req'[p].token = req[p].token
          /\ req'[p].at = "claim" => req[p].at = "claim" /\ req'[p].until = req[p].until
    BY <1>0, <2>1, <2>2 DEF Goes, Idle, Claims
  <2>4. k < issued
    BY <2>2 DEF BearerInv, TokensKnown
  <2>5. TokensKnown'
    BY <2>1, <2>3, <2>4 DEF BearerInv, TokensKnown
  <2>6. \A t \in Tokens : /\ row'[t] = NoRow <=> row[t] = NoRow
                          /\ row[t] # NoRow =>
                               /\ row'[t].revoked = row[t].revoked
                               /\ row'[t].expires \in {row[t].expires, Never}
                               /\ ok /\ t = k => row'[t].expires = Never
    <3>1. ASSUME row[k] # NoRow
          PROVE  [row[k] EXCEPT !.expires = Never] \in TokenRow
      BY <1>0, <2>2, <3>1, Constants DEF TokenRow
    <3>2. CASE ok /\ row[k] # NoRow
      BY <1>0, <2>1, <2>2, <3>1, <3>2, AccessAssumption DEF Permanent, TokenRow
    <3>3. CASE ~(ok /\ row[k] # NoRow)
      BY <2>1, <3>3 DEF Permanent
    <3>. QED
      BY <3>2, <3>3
  <2>7. WindowKept'
    BY <1>1, <2>1, <2>2, <2>3, <2>6 DEF BearerInv, WindowKept
  <2>8. GrantedKept'
    <3>. SUFFICES ASSUME NEW t \in granted' \ removed
                  PROVE  row'[t] # NoRow /\ row'[t].expires = Never
      BY <2>1 DEF GrantedKept
    <3>1. CASE t \in granted
      BY <1>0, <2>6, <3>1 DEF BearerInv, GrantedKept
    <3>2. CASE t \notin granted
      <4>1. ok /\ clock < req[r].until /\ t = k
        BY <2>1, <3>2
      <4>2. row[k] # NoRow
        BY <2>2, <4>1 DEF BearerInv, WindowKept
      <4>. QED
        BY <2>2, <2>6, <4>1, <4>2
    <3>. QED
      BY <3>1, <3>2
  <2>9. RemovedOut' /\ RowsKnown'
    BY <2>1, <2>6 DEF BearerInv, RemovedOut, RowsKnown
  <2>. QED
    BY <2>5, <2>7, <2>8, <2>9 DEF BearerInv
<1>9. ASSUME NEW r \in Handlers, Revoke(r) PROVE BearerInv'
  <2>. DEFINE k == req[r].token
  <2>1. /\ Goes(r, "revoke", Idle)
        /\ row' = IF row[k] = NoRow THEN row ELSE [row EXCEPT ![k].revoked = TRUE]
        /\ removed' = removed \cup {k}
        /\ UNCHANGED <<issued, granted>>
    BY <1>9 DEF Revoke
  <2>2. req[r].at = "revoke" /\ k \in Tokens /\ clock' = clock /\ k < issued
    BY <1>1, <2>1 DEF Goes, BearerInv, TokensKnown
  <2>3. \A p \in Handlers : req'[p].at \in {"claim", "revoke"} => req'[p] = req[p]
    BY <1>0, <2>1 DEF Goes, Idle
  <2>4. TokensKnown'
    BY <2>1, <2>2, <2>3 DEF BearerInv, TokensKnown
  <2>5. \A t \in Tokens : /\ row'[t] = NoRow <=> row[t] = NoRow
                          /\ row[t] # NoRow =>
                               /\ row'[t].expires = row[t].expires
                               /\ row'[t].revoked = IF t = k THEN TRUE ELSE row[t].revoked
    <3>1. ASSUME row[k] # NoRow
          PROVE  [row[k] EXCEPT !.revoked = TRUE] \in TokenRow
      BY <1>0, <2>2, <3>1 DEF TokenRow
    <3>. QED
      BY <1>0, <2>1, <2>2, <3>1, AccessAssumption DEF TokenRow
  <2>6. WindowKept'
    BY <1>1, <2>1, <2>2, <2>3, <2>5 DEF BearerInv, WindowKept
  <2>7. GrantedKept'
    BY <1>0, <2>1, <2>5 DEF BearerInv, GrantedKept
  <2>8. RemovedOut' /\ RowsKnown'
    BY <2>1, <2>5 DEF BearerInv, RemovedOut, RowsKnown
  <2>. QED
    BY <2>4, <2>6, <2>7, <2>8 DEF BearerInv
<1>10. ASSUME NEW r \in Handlers, Prune(r) PROVE BearerInv'
  <2>1. /\ Goes(r, "prune", [req[r] EXCEPT !.at = "insert"])
        /\ \/ row' = [t \in Tokens |-> IF Lapsed(t) THEN NoRow ELSE row[t]]
           \/ row' = row
        /\ UNCHANGED <<issued, granted, removed>>
    BY <1>10 DEF Prune
  <2>2. req[r] \in Enrols
    BY <1>0, <2>1, Shape DEF Goes
  <2>3. /\ \A p \in Handlers : req'[p].at \in {"claim", "revoke"} => req'[p] = req[p]
        /\ clock' = clock
    BY <1>0, <2>1, <2>2 DEF Goes, Enrols
  <2>4. ASSUME NEW t \in Tokens
        PROVE  row'[t] = row[t] \/ (row'[t] = NoRow /\ Lapsed(t))
    <3>1. row'[t] = row[t] \/ row'[t] = IF Lapsed(t) THEN NoRow ELSE row[t]
      BY <2>1
    <3>. QED
      BY <3>1
  <2>5. TokensKnown'
    BY <2>1, <2>3 DEF BearerInv, TokensKnown
  <2>6. WindowKept'
    <3>. SUFFICES ASSUME NEW p \in Handlers, req'[p].at = "claim"
                  PROVE  /\ row'[req[p].token] # NoRow
                               => row'[req[p].token].expires \in {req[p].until, Never}
                         /\ clock < req[p].until /\ req[p].token \notin removed
                               => row'[req[p].token] # NoRow
      BY <2>1, <2>3 DEF WindowKept
    <3>1. /\ req[p].at = "claim" /\ req[p].token \in Tokens /\ req[p].until \in Nat
      BY <1>1, <2>3
    <3>. QED
      BY <1>0, <2>4, <3>1, Constants DEF BearerInv, WindowKept, Lapsed
  <2>7. GrantedKept'
    BY <1>0, <2>1, <2>4 DEF BearerInv, GrantedKept, Lapsed
  <2>8. RemovedOut' /\ RowsKnown'
    BY <2>1, <2>4 DEF BearerInv, RemovedOut, RowsKnown
  <2>. QED
    BY <2>5, <2>6, <2>7, <2>8 DEF BearerInv
<1>11. ASSUME NEW r \in Handlers, InsertToken(r) PROVE BearerInv'
  <2>1. /\ Goes(r, "insert", Idle)
        /\ NewToken(req[r].until) \/ UNCHANGED <<row, issued>>
        /\ UNCHANGED <<granted, removed>>
    BY <1>11 DEF InsertToken
  <2>2. req[r].until \in 0 .. Never
    BY <1>0, <2>1, Shape DEF Goes, Enrols
  <2>3. \A p \in Handlers : req'[p].at \in {"claim", "revoke"} => req'[p] = req[p]
    BY <1>0, <2>1 DEF Goes, Idle
  <2>4. issued \notin granted
    BY <1>0 DEF BearerInv, TokensKnown
  <2>5. CASE NewToken(req[r].until)
    BY <2>1, <2>2, <2>3, <2>4, <2>5, NewTokenStep DEF Goes
  <2>6. CASE UNCHANGED <<row, issued>>
    BY <2>1, <2>6, GoesFrame DEF tokenVars, Idle
  <2>. QED
    BY <2>1, <2>5, <2>6
<1>12. ASSUME NEW r \in Handlers, CheckPassword(r) \/ StoreSession(r) PROVE BearerInv'
  <2>1. PICK to \in {"store", "fail", "pass"}, from \in {"check", "store"} :
          Goes(r, from, [req[r] EXCEPT !.at = to]) /\ UNCHANGED tokenVars
    BY <1>12 DEF CheckPassword, StoreSession
  <2>2. req[r] \in Logins
    BY <1>0, <2>1, Shape DEF Goes
  <2>3. [req[r] EXCEPT !.at = to].at = to
    BY <2>2 DEF Logins
  <2>. QED
    BY <2>1, <2>3, GoesFrame
<1>13. ASSUME NEW r \in Handlers, recordLoginFailure(r) \/ recordLoginSuccess(r)
       PROVE  BearerInv'
  BY <1>13, GoesFrame DEF recordLoginFailure, recordLoginSuccess, Idle
<1>14. ASSUME NEW r \in Handlers, EndSession(r) PROVE BearerInv'
  BY <1>14, <1>0, BearerFrame DEF EndSession, Served
<1>15. ASSUME NEW r \in Handlers, Up(r) PROVE BearerInv'
  <2>1. PICK from \in {"up", "serve"}, q \in {Idle, [at |-> "serve"]} :
          Goes(r, from, q) /\ UNCHANGED tokenVars
    BY <1>15 DEF Up
  <2>. QED
    BY <2>1, GoesFrame DEF Idle
<1>16. ASSUME RemoteRequest PROVE BearerInv'
  <2>1. UNCHANGED tokenVars /\ (Served \/ Comes([at |-> "up"]))
    BY <1>16 DEF RemoteRequest
  <2>2. CASE Served
    BY <2>1, <2>2, <1>0, BearerFrame DEF Served
  <2>3. CASE Comes([at |-> "up"])
    BY <2>1, <2>3, ComesFrame
  <2>. QED
    BY <2>1, <2>2, <2>3
<1>17. ASSUME Boots PROVE BearerInv'
  BY <1>17, <1>0, BearerFrame DEF Boots
<1>18. ASSUME Tick PROVE BearerInv'
  BY <1>18, <1>0, BearerFrame DEF Tick
<1>19. ASSUME Crash PROVE BearerInv'
  BY <1>19, <1>0, BearerFrame DEF Crash, Idle
<1>20. ASSUME tailscaled PROVE BearerInv'
  BY <1>20, <1>0, BearerFrame DEF tailscaled
<1>. QED
  BY <1>2, <1>3, <1>4, <1>5, <1>6, <1>7, <1>8, <1>9, <1>10, <1>11, <1>12, <1>13, <1>14,
     <1>15, <1>16, <1>17, <1>18, <1>19, <1>20 DEF Next

(* At the start there is no bearer. *)
LEMMA BearerInit ==
    ASSUME Init
    PROVE  BearerInv
BY DEF Init, BearerInv, TokensKnown, RowsKnown, WindowKept, GrantedKept, RemovedOut, Idle

(* The two parts of the inductive invariant hold throughout. *)
LEMMA BearersInvariant == Spec => [](Typed /\ BearerInv)
<1>1. Init => Typed /\ BearerInv
  BY TypeInit, BearerInit
<1>2. Typed /\ BearerInv /\ [Next]_vars => (Typed /\ BearerInv)'
  BY TypeStep, BearerStep
<1>. QED
  BY <1>1, <1>2, PTL DEF Spec

(* Every variable of the bearers, the login and the mapping keeps its      *)
(* type, however the requests' statements interleave.                      *)
THEOREM TypeCorrect == Spec => []TypeOK
<1>1. Typed /\ BearerInv => TypeOK
  BY DEF Typed
<1>. QED
  BY <1>1, BearersInvariant, PTL

(* Validate claims a code in two statements, and other enrolments prune in *)
(* between: still, a bearer claimed inside its window works until it is    *)
(* removed.                                                                 *)
THEOREM ClaimsStick == Spec => []ClaimSticks
<1>1. Typed /\ BearerInv => ClaimSticks
  <2>. SUFFICES ASSUME Typed, BearerInv, NEW t \in granted \ removed
                PROVE  Live(t)
    BY DEF ClaimSticks
  <2>1. row[t] # NoRow /\ row[t].expires = Never /\ t \in Tokens
    BY DEF BearerInv, GrantedKept, Typed, TypeOK
  <2>2. row[t] \in TokenRow
    BY <2>1 DEF Typed, TypeOK
  <2>3. ~row[t].revoked
    BY <2>1, <2>2 DEF BearerInv, RemovedOut
  <2>4. row[t].expires > clock
    BY <2>1, Constants DEF Typed, TypeOK
  <2>. QED
    BY <2>1, <2>3, <2>4 DEF Live
<1>. QED
  BY <1>1, BearersInvariant, PTL

(* What a step may do to a bearer that is spent: nothing but clear or      *)
(* revoke its row.                                                          *)
LEMMA SpentStep ==
    ASSUME Typed, BearerInv, Next, NEW t \in Tokens, Spent(t), t \notin removed
    PROVE  /\ \/ row'[t] = NoRow \/ row'[t] = row[t]
              \/ row[t] # NoRow /\ row'[t].revoked
           /\ clock' \in Nat /\ clock' >= clock
           /\ \A r \in Handlers : req'[r].at = "claim" => req'[r].token # t
           /\ t < issued'
<1>. USE DEF tokenVars
<1>0. /\ clock \in Nat /\ row \in [Tokens -> TokenRow \cup {NoRow}] /\ issued \in Nat
      /\ req \in [Handlers -> Requests] /\ t < issued /\ ~Live(t)
      /\ \A r \in Handlers : ~(req[r].at = "claim" /\ req[r].token = t)
      /\ t \in Nat
  BY Constants DEF Typed, TypeOK, Spent, Tokens
<1>. DEFINE Kept == \A r \in Handlers : req'[r].at = "claim" => req'[r] = req[r]
            Same == UNCHANGED <<row, issued>> /\ clock' \in {clock, clock + 1}
<1>1. ASSUME Same, Kept PROVE row'[t] = row[t] /\ clock' \in Nat /\ clock' >= clock
                /\ (\A r \in Handlers : req'[r].at = "claim" => req'[r].token # t)
                /\ t < issued'
  BY <1>0, <1>1
<1>2. ASSUME NEW q, q.at # "claim", Comes(q) PROVE Kept /\ clock' = clock
  BY <1>0, <1>2 DEF Comes
<1>3. ASSUME NEW r \in Handlers, NEW from, NEW q, q.at # "claim", Goes(r, from, q)
      PROVE  Kept /\ clock' = clock
  BY <1>0, <1>3 DEF Goes
<1>4. ASSUME Served PROVE Kept /\ clock' = clock
  BY <1>4 DEF Served
<1>. DEFINE Goal == /\ \/ row'[t] = NoRow \/ row'[t] = row[t]
                       \/ row[t] # NoRow /\ row'[t].revoked
                    /\ clock' \in Nat /\ clock' >= clock
                    /\ \A r \in Handlers : req'[r].at = "claim" => req'[r].token # t
                    /\ t < issued'
<1>5. ASSUME NEW k \in Tokens, NEW self \in BOOLEAN, Validate(k, self) PROVE Goal
  <2>. DEFINE q == IF row[k].expires # Never
                     THEN [at |-> "claim", token |-> k, until |-> row[k].expires, self |-> self]
                   ELSE IF self
                     THEN [at |-> "revoke", token |-> k, until |-> Never, self |-> self]
                   ELSE Idle
  <2>1. Live(k) /\ Comes(q) /\ Same
    BY <1>5 DEF Validate, Comes
  <2>2. k # t
    BY <1>0, <2>1
  <2>3. \A r \in Handlers : req'[r] = req[r] \/ req'[r] = q
    BY <1>0, <2>1 DEF Comes
  <2>4. q.at = "claim" => q.token = k
    BY DEF Idle
  <2>. HIDE DEF q
  <2>. QED
    BY <1>0, <2>1, <2>2, <2>3, <2>4
<1>6. ASSUME NEW k \in Tokens, RevokeToken(k) PROVE Goal
  BY <1>0, <1>4, <1>6 DEF RevokeToken
<1>7. ASSUME IssueToken PROVE Goal
  BY <1>0, <1>4, <1>7 DEF IssueToken, NewToken
<1>8. ASSUME IssueEphemeral PROVE Goal
  BY <1>1, <1>2, <1>8 DEF IssueEphemeral
<1>9. ASSUME NEW a \in Addrs, Login(a) PROVE Goal
  BY <1>1, <1>2, <1>9 DEF Login
<1>10. ASSUME NEW r \in Handlers, Claim(r) PROVE Goal
  <2>1. /\ Goes(r, "claim", IF req[r].self THEN [req[r] EXCEPT !.at = "revoke"] ELSE Idle)
        /\ row' = Permanent(req[r].token) \/ row' = row
        /\ issued' = issued
    BY <1>10 DEF Claim
  <2>2. req[r] \in Claims /\ req[r].at = "claim"
    BY <1>0, <2>1, Shape DEF Goes
  <2>3. row'[t] = row[t]
    BY <1>0, <2>1, <2>2 DEF Permanent
  <2>4. (IF req[r].self THEN [req[r] EXCEPT !.at = "revoke"] ELSE Idle).at # "claim"
    BY <2>2 DEF Claims, Idle
  <2>5. Kept /\ clock' = clock
    BY <1>3, <2>1, <2>4
  <2>. QED
    BY <1>0, <2>1, <2>3, <2>5
<1>11. ASSUME NEW r \in Handlers, Revoke(r) PROVE Goal
  <2>. DEFINE k == req[r].token
  <2>1. /\ Goes(r, "revoke", Idle) /\ issued' = issued
        /\ row' = IF row[k] = NoRow THEN row ELSE [row EXCEPT ![k].revoked = TRUE]
    BY <1>11 DEF Revoke
  <2>2. Kept /\ clock' = clock
    BY <1>3, <2>1 DEF Idle
  <2>3. row'[t] = row[t] \/ (row[t] # NoRow /\ row'[t].revoked)
    <3>1. CASE row[k] = NoRow \/ k # t
      BY <1>0, <2>1, <3>1
    <3>2. CASE row[k] # NoRow /\ k = t
      <4>1. row[t] \in TokenRow
        BY <1>0, <3>2
      <4>2. row'[t] = [row[t] EXCEPT !.revoked = TRUE]
        BY <1>0, <2>1, <3>2
      <4>. QED
        BY <3>2, <4>1, <4>2 DEF TokenRow
    <3>. QED
      BY <3>1, <3>2
  <2>. QED
    BY <1>0, <2>1, <2>2, <2>3
<1>12. ASSUME NEW r \in Handlers, Prune(r) PROVE Goal
  <2>1. /\ Goes(r, "prune", [req[r] EXCEPT !.at = "insert"]) /\ issued' = issued
        /\ \/ row' = [k \in Tokens |-> IF Lapsed(k) THEN NoRow ELSE row[k]]
           \/ row' = row
    BY <1>12 DEF Prune
  <2>2. req[r] \in Enrols
    BY <1>0, <2>1, Shape DEF Goes
  <2>3. [req[r] EXCEPT !.at = "insert"].at = "insert"
    BY <2>2 DEF Enrols
  <2>4. Kept /\ clock' = clock
    BY <1>3, <2>1, <2>3
  <2>5. row'[t] = row[t] \/ row'[t] = NoRow
    BY <2>1
  <2>. QED
    BY <1>0, <2>1, <2>4, <2>5
<1>13. ASSUME NEW r \in Handlers, InsertToken(r) PROVE Goal
  <2>1. Goes(r, "insert", Idle) /\ (NewToken(req[r].until) \/ UNCHANGED <<row, issued>>)
    BY <1>13 DEF InsertToken
  <2>2. Kept /\ clock' = clock
    BY <1>3, <2>1 DEF Idle
  <2>. QED
    BY <1>0, <2>1, <2>2 DEF NewToken
<1>14. ASSUME NEW r \in Handlers, CheckPassword(r) \/ StoreSession(r) PROVE Goal
  <2>1. PICK to \in {"store", "fail", "pass"}, from \in {"check", "store"} :
          Goes(r, from, [req[r] EXCEPT !.at = to]) /\ UNCHANGED tokenVars
    BY <1>14 DEF CheckPassword, StoreSession
  <2>2. req[r] \in Logins
    BY <1>0, <2>1, Shape DEF Goes
  <2>3. [req[r] EXCEPT !.at = to].at = to
    BY <2>2 DEF Logins
  <2>4. Kept /\ clock' = clock
    BY <1>3, <2>1, <2>3
  <2>. QED
    BY <1>1, <2>1, <2>4
<1>15. ASSUME NEW r \in Handlers, recordLoginFailure(r) \/ recordLoginSuccess(r) PROVE Goal
  <2>1. PICK from \in {"fail", "pass"} : Goes(r, from, Idle) /\ UNCHANGED tokenVars
    BY <1>15 DEF recordLoginFailure, recordLoginSuccess
  <2>. QED
    BY <1>1, <1>3, <2>1 DEF Idle
<1>16. ASSUME NEW r \in Handlers, EndSession(r) PROVE Goal
  BY <1>1, <1>4, <1>16 DEF EndSession
<1>17. ASSUME NEW r \in Handlers, Up(r) PROVE Goal
  <2>1. PICK from \in {"up", "serve"}, q \in {Idle, [at |-> "serve"]} :
          Goes(r, from, q) /\ UNCHANGED tokenVars
    BY <1>17 DEF Up
  <2>. QED
    BY <1>1, <1>3, <2>1 DEF Idle
<1>18. ASSUME RemoteRequest PROVE Goal
  <2>1. UNCHANGED tokenVars /\ (Served \/ Comes([at |-> "up"]))
    BY <1>18 DEF RemoteRequest
  <2>. QED
    BY <1>1, <1>2, <1>4, <2>1
<1>19. ASSUME Boots \/ tailscaled \/ Tick \/ Crash PROVE Goal
  <2>1. Same /\ Kept
    BY <1>19 DEF Boots, tailscaled, Tick, Crash, Idle
  <2>. QED
    BY <1>1, <2>1
<1>. QED
  BY <1>5, <1>6, <1>7, <1>8, <1>9, <1>10, <1>11, <1>12, <1>13, <1>14, <1>15, <1>16, <1>17,
     <1>18, <1>19 DEF Next

(* A request that is over stays over, and no later one takes its place. *)
LEMMA IdleStays ==
    ASSUME Typed, Next, NEW r \in Handlers, r <= came, req[r] = Idle
    PROVE  req'[r] = Idle /\ came' \in {came, came + 1} /\ clock' \in {clock, clock + 1}
<1>. DEFINE Goal == /\ req'[r] = Idle /\ came' \in {came, came + 1}
                    /\ clock' \in {clock, clock + 1}
<1>0. req \in [Handlers -> Requests] /\ came \in Nat /\ r \in Nat
  BY Constants DEF Typed, TypeOK, Handlers
<1>1. ASSUME NEW q, Comes(q) PROVE Goal
  BY <1>0, <1>1 DEF Comes
<1>2. ASSUME NEW p \in Handlers, NEW from, from # "idle", NEW q, Goes(p, from, q) PROVE Goal
  <2>1. p # r
    BY <1>2 DEF Goes, Idle
  <2>. QED
    BY <1>0, <1>2, <2>1 DEF Goes
<1>3. ASSUME Served PROVE Goal
  BY <1>3 DEF Served
<1>. HIDE DEF Goal
<1>4. ASSUME \/ \E t \in Tokens, self \in BOOLEAN : Validate(t, self)
             \/ IssueEphemeral \/ (\E a \in Addrs : Login(a))
      PROVE  Goal
  BY <1>1, <1>4 DEF Validate, IssueEphemeral, Login
<1>5. ASSUME (\E t \in Tokens : RevokeToken(t)) \/ IssueToken
      PROVE  Goal
  BY <1>3, <1>5 DEF RevokeToken, IssueToken
<1>6. ASSUME NEW p \in Handlers, Claim(p) \/ Revoke(p) \/ Prune(p) \/ InsertToken(p)
      PROVE  Goal
  BY <1>2, <1>6 DEF Claim, Revoke, Prune, InsertToken
<1>7. ASSUME NEW p \in Handlers, CheckPassword(p) \/ StoreSession(p)
                                 \/ recordLoginFailure(p) \/ recordLoginSuccess(p)
      PROVE  Goal
  BY <1>2, <1>7 DEF CheckPassword, StoreSession, recordLoginFailure, recordLoginSuccess
<1>8. ASSUME NEW p \in Handlers, EndSession(p) \/ Up(p) PROVE Goal
  BY <1>2, <1>3, <1>8 DEF EndSession, Up
<1>9. ASSUME RemoteRequest PROVE Goal
  BY <1>1, <1>3, <1>9 DEF RemoteRequest
<1>10. ASSUME Boots \/ tailscaled \/ Tick \/ Crash PROVE Goal
  BY <1>10 DEF Goal, Boots, tailscaled, Tick, Crash
<1>. QED
  BY <1>4, <1>5, <1>6, <1>7, <1>8, <1>9, <1>10 DEF Next, Goal

(* A session that is over stays over. *)
LEMMA SessionStep ==
    ASSUME Typed, Next, NEW r \in Handlers, Over(r)
    PROVE  Over(r)'
<1>0. /\ came \in Nat /\ clock \in Nat /\ r \in Nat /\ r <= came /\ req[r] = Idle
      /\ session \in [Handlers -> (0 .. MaxClock + sessionTTL) \cup {NoRow}]
      /\ session[r] # NoRow => session[r] \in Nat /\ clock > session[r]
  BY Constants DEF Typed, TypeOK, Handlers, Over
<1>1. req'[r] = Idle /\ came' \in {came, came + 1} /\ clock' \in {clock, clock + 1}
  BY <1>0, IdleStays
<1>2. session' = session \/ (\E p \in Handlers : StoreSession(p) \/ EndSession(p))
  BY DEF Next, Validate, RevokeToken, IssueToken, IssueEphemeral, Login, Claim, Revoke, Prune,
         InsertToken, CheckPassword, recordLoginFailure, recordLoginSuccess, Up,
         RemoteRequest, Boots, tailscaled, Tick, Crash, loginVars
<1>3. ASSUME NEW p \in Handlers, StoreSession(p) PROVE session'[r] = session[r]
  <2>1. p # r
    BY <1>0, <1>3 DEF StoreSession, Goes, Idle
  <2>. QED
    BY <1>0, <1>3, <2>1 DEF StoreSession
<1>4. ASSUME NEW p \in Handlers, EndSession(p) PROVE session'[r] \in {session[r], NoRow}
  BY <1>0, <1>4 DEF EndSession
<1>5. session'[r] \in {session[r], NoRow}
  BY <1>2, <1>3, <1>4
<1>. QED
  BY <1>0, <1>1, <1>5 DEF Over

(* A bearer that was removed, revoked or has lapsed unclaimed, and a       *)
(* session that was ended or has expired, stay dead: the UPDATE of a       *)
(* request that was let in before, the clean-up of another and the INSERT  *)
(* of a third never bring one back.                                         *)
THEOREM DeadForGood == Spec => DeadStaysDead
<1>1. ASSUME Typed, BearerInv, (Typed /\ BearerInv)', Next
      PROVE  /\ \A t \in Tokens : Spent(t) => Spent(t)' /\ ~Live(t)'
             /\ \A r \in Handlers : Over(r) => Over(r)'
  <2>1. ASSUME NEW t \in Tokens, Spent(t) PROVE Spent(t)' /\ ~Live(t)'
    <3>1. ASSUME t \in removed' PROVE Spent(t)' /\ ~Live(t)'
      BY <1>1, <3>1 DEF BearerInv, TokensKnown, RemovedOut, Spent, Live
    <3>2. removed \subseteq removed'
      BY <1>1 DEF Next, Validate, RevokeToken, IssueToken, IssueEphemeral, Login, Claim, Revoke,
            Prune, InsertToken, CheckPassword, StoreSession, recordLoginFailure,
            recordLoginSuccess, EndSession, Up, RemoteRequest, Boots, tailscaled, Tick, Crash,
            tokenVars
    <3>3. CASE t \notin removed'
      <4>1. /\ \/ row'[t] = NoRow \/ row'[t] = row[t]
               \/ row[t] # NoRow /\ row'[t].revoked
            /\ clock' \in Nat /\ clock' >= clock
            /\ \A r \in Handlers : req'[r].at = "claim" => req'[r].token # t
            /\ t < issued'
        BY <1>1, <2>1, <3>2, <3>3, SpentStep
      <4>2. ~Live(t)
        BY <2>1, <3>2, <3>3 DEF Spent
      <4>3. row[t] # NoRow => row[t].expires \in Nat
        BY Constants, <1>1 DEF Typed, TypeOK, TokenRow
      <4>4. clock \in Nat
        BY Constants, <1>1 DEF Typed, TypeOK
      <4>5. ~Live(t)'
        BY <4>1, <4>2, <4>3, <4>4 DEF Live
      <4>. QED
        BY <4>1, <4>5 DEF Spent
    <3>. QED
      BY <3>1, <3>3
  <2>2. ASSUME NEW r \in Handlers, Over(r) PROVE Over(r)'
    BY <1>1, <2>2, SessionStep
  <2>. QED
    BY <2>1, <2>2
<1>2. Typed /\ BearerInv /\ (Typed /\ BearerInv)' /\ [Next]_vars
        => [/\ \A t \in Tokens : Spent(t) => Spent(t)' /\ ~Live(t)'
            /\ \A r \in Handlers : Over(r) => Over(r)']_vars
  BY <1>1
<1>. QED
  BY <1>2, BearersInvariant, PTL DEF Spec, DeadStaysDead

-----------------------------------------------------------------------------
(* The published paths.  The two ports are never mixed: 443 carries        *)
(* nothing but /api/ble, and the admin's port is never funnelled.          *)

PortsApart ==
    /\ serve[443].paths \subseteq {bleFunnelPath}
    /\ ~serve[10000].funnel

(* Only these commands touch the mapping. *)
LEMMA ServeChanges ==
    ASSUME Typed, [Next]_vars
    PROVE  serve' \in {serve, NoServe, Funnelled, Hidden, AdminServed}
<1>1. CASE UNCHANGED remoteVars
  BY <1>1 DEF remoteVars
<1>2. CASE Next
  BY <1>2 DEF Next, Validate, RevokeToken, IssueToken, IssueEphemeral, Login, Claim, Revoke,
       Prune, InsertToken, CheckPassword, StoreSession, recordLoginFailure,
       recordLoginSuccess, EndSession, Up, RemoteRequest, Boots, tailscaled, Tick, Crash,
       remoteVars, tailscaledRestarts, tailscaledComesUp,
       EnableBLEFunnel, DisableBLEFunnel, Install, RemoteLogout, UpLogsIn, UpServes,
       BootStatus, EnsureAdminServe, RemoteRestarts
<1>. QED
  BY <1>1, <1>2 DEF vars

(* Each command keeps the ports apart. *)
LEMMA PortsStep ==
    ASSUME Typed, PortsApart, [Next]_vars
    PROVE  PortsApart'
<1>. DEFINE Port == [paths : SUBSET {"/", bleFunnelPath}, funnel : BOOLEAN]
<1>1. serve \in [Ports -> Port] /\ 443 \in Ports /\ 10000 \in Ports
  BY DEF Typed, TypeOK, RemoteTypeOK, Ports
<1>2. serve[443] \in Port /\ serve[10000] \in Port
  BY <1>1
<1>3. CASE serve' = serve
  BY <1>3 DEF PortsApart
<1>4. CASE serve' = NoServe
  BY <1>1, <1>4 DEF PortsApart, NoServe
<1>5. CASE serve' = Funnelled
  BY <1>1, <1>2, <1>5 DEF PortsApart, Funnelled, funnelPort
<1>6. CASE serve' = Hidden
  <2>. DEFINE rest == serve[443].paths \ {bleFunnelPath}
              v == [paths |-> rest, funnel |-> serve[443].funnel /\ rest # {}]
  <2>1. v.paths = rest /\ serve' = [serve EXCEPT ![443] = v]
    BY <1>1, <1>6 DEF Hidden, funnelPort
  <2>. HIDE DEF v
  <2>. QED
    BY <1>1, <2>1 DEF PortsApart
<1>7. CASE serve' = AdminServed
  BY <1>1, <1>2, <1>7 DEF PortsApart, AdminServed, adminServePort
<1>. QED
  BY <1>3, <1>4, <1>5, <1>6, <1>7, ServeChanges

(* In whatever order the funnel and the admin mapping are set up, torn     *)
(* down and lost, no port that Funnel opens carries the admin pages.       *)
THEOREM AdminPrivate == Spec => []AdminStaysPrivate
<1>1. Init => PortsApart
  <2>. SUFFICES ASSUME Init PROVE PortsApart
    OBVIOUS
  <2>. DEFINE on == [paths |-> {bleFunnelPath}, funnel |-> TRUE]
  <2>1. serve = NoServe \/ serve = [NoServe EXCEPT ![443] = on]
    BY DEF Init
  <2>2. on.paths = {bleFunnelPath}
    OBVIOUS
  <2>. HIDE DEF on
  <2>. QED
    BY <2>1, <2>2 DEF PortsApart, NoServe, Ports
<1>2. Typed /\ PortsApart /\ [Next]_vars => PortsApart'
  BY PortsStep
<1>3. PortsApart => AdminStaysPrivate
  BY DEF PortsApart, AdminStaysPrivate, Ports
<1>. QED
  BY <1>1, <1>2, <1>3, BearersInvariant, PTL DEF Spec

(* A fault, once counted, stays; without one every command succeeded. *)
LEMMA FaultsStay ==
    ASSUME Typed, [Next]_vars, faults' = 0
    PROVE  faults = 0
<1>1. faults' = faults \/ faults' = faults + 1
  BY DEF Next, Validate, RevokeToken, IssueToken, IssueEphemeral, Login, Claim, Revoke,
       Prune, InsertToken, CheckPassword, StoreSession, recordLoginFailure,
       recordLoginSuccess, EndSession, Up, RemoteRequest, Boots, tailscaled, Tick, Crash,
       Outcome, NoFault, Fault, Comes, Served, vars
<1>. QED
  BY <1>1, Constants DEF Typed, TypeOK

(* Every step keeps a logged-in node reachable. *)
LEMMA ReachStep ==
    ASSUME Typed, AdminReachable, [Next]_vars
    PROVE  AdminReachable'
<1>. SUFFICES ASSUME node' = "running", mu' = Nobody, boot' = "done", faults' = 0, ~alone'
              PROVE  "/" \in serve'[10000].paths
  BY DEF AdminReachable, adminServePort
<1>. DEFINE Port == [paths : SUBSET {"/", bleFunnelPath}, funnel : BOOLEAN]
<1>0. faults = 0
  BY FaultsStay
<1>1. serve \in [Ports -> Port] /\ 443 \in Ports /\ 10000 \in Ports
  BY DEF Typed, TypeOK, RemoteTypeOK, Ports
<1>2. AdminServed[10000] = [paths |-> serve[10000].paths \cup {"/"}, funnel |-> FALSE]
  BY <1>1 DEF AdminServed, adminServePort
<1>3. "/" \in AdminServed[10000].paths
  BY <1>2
<1>4. ASSUME UNCHANGED <<node, mu, boot, alone>>, serve'[10000] = serve[10000]
      PROVE  "/" \in serve'[10000].paths
  BY <1>0, <1>4 DEF AdminReachable, adminServePort
<1>5. CASE UNCHANGED remoteVars
  BY <1>4, <1>5 DEF remoteVars
<1>6. CASE RemoteRequest
  <2>1. CASE EnableBLEFunnel
    BY <1>1, <1>4, <2>1 DEF EnableBLEFunnel, Funnelled, funnelPort
  <2>2. CASE DisableBLEFunnel
    BY <1>1, <1>4, <2>2 DEF DisableBLEFunnel, Hidden, funnelPort
  <2>3. CASE Install \/ RemoteLogout
    BY <1>4, <2>3 DEF Install, RemoteLogout
  <2>. QED
    BY <1>5, <1>6, <2>1, <2>2, <2>3 DEF RemoteRequest
<1>7. ASSUME NEW r \in Handlers, Up(r) PROVE "/" \in serve'[10000].paths
  <2>1. PICK ok \in BOOLEAN : (UpLogsIn(r, ok) \/ UpServes(r, ok)) /\ Outcome(ok)
    BY <1>7 DEF Up
  <2>2. ok
    BY <1>0, <2>1 DEF Outcome, Fault
  <2>3. CASE UpLogsIn(r, ok)
    BY <2>2, <2>3, AccessAssumption DEF UpLogsIn
  <2>4. CASE UpServes(r, ok)
    BY <1>3, <2>2, <2>4 DEF UpServes
  <2>. QED
    BY <2>1, <2>3, <2>4
<1>8. CASE Boots
  <2>1. PICK ok \in BOOLEAN : (BootStatus(ok) \/ EnsureAdminServe(ok)) /\ Outcome(ok)
    BY <1>8 DEF Boots
  <2>2. ok
    BY <1>0, <2>1 DEF Outcome, Fault
  <2>. QED
    BY <1>3, <2>1, <2>2 DEF BootStatus, EnsureAdminServe, LoggedIn
<1>9. CASE tailscaled \/ Crash
  <2>1. CASE Crash \/ tailscaledRestarts
    BY <2>1 DEF tailscaledRestarts, Crash, RemoteRestarts
  <2>2. CASE tailscaledComesUp
    <3>1. boot = "done" /\ alone' = (alone \/ boot = "done")
      BY <2>2 DEF tailscaledComesUp
    <3>2. alone' = TRUE
      BY <3>1
    <3>. QED
      BY <3>2
  <2>. QED
    BY <1>9, <2>1, <2>2 DEF tailscaled
<1>10. \/ UNCHANGED remoteVars \/ RemoteRequest \/ Boots \/ tailscaled \/ Crash
       \/ \E r \in Handlers : Up(r)
  <2>. HIDE DEF Port
  <2>1. CASE UNCHANGED vars
    BY <2>1 DEF vars
  <2>2. CASE Next
    BY <2>2 DEF Next, Validate, RevokeToken, IssueToken, IssueEphemeral, Login, Claim, Revoke,
       Prune, InsertToken, CheckPassword, StoreSession, recordLoginFailure,
       recordLoginSuccess, EndSession, Tick
  <2>. QED
    BY <2>1, <2>2
<1>. QED
  BY <1>5, <1>6, <1>7, <1>8, <1>9, <1>10

(* main asks whether the node is running and acts on the answer later, Up  *)
(* logs it in and then maps the pages, the installer and tailscaled itself *)
(* restart it: no order of them leaves a running node without the admin    *)
(* pages, unless a command failed, or tailscaled came up on its own once   *)
(* main's goroutine had given up on it.                                     *)
THEOREM AdminStaysReachable == Spec => []AdminReachable
<1>1. Init => AdminReachable
  BY DEF Init, AdminReachable
<1>2. Typed /\ AdminReachable /\ [Next]_vars => AdminReachable'
  BY ReachStep
<1>. QED
  BY <1>1, <1>2, BearersInvariant, PTL DEF Spec

-----------------------------------------------------------------------------
(* The throttle.  A bucket that locked out stays locked until a new        *)
(* failure would start another one: a lockout is longer than the window.   *)

BucketKept(a) ==
    bucket[a] # NoRow =>
        /\ bucket[a].failures < loginMaxFailures => bucket[a].lockUntil = 0
        /\ bucket[a].failures >= loginMaxFailures
              => bucket[a].lockUntil >= bucket[a].firstHit + loginLockout
        /\ bucket[a].firstHit <= clock

Counted(a) ==
    Locked(a) => bucket[a].failures + Cardinality(LogsIn(a)) <= loginMaxFailures - 1 + Width

ThrottleInv ==
    \A a \in Addrs : Cardinality(LogsIn(a)) <= Width /\ BucketKept(a) /\ Counted(a)

(* Logins under way are finitely many, and fewer are counted lower. *)
LEMMA LogsInFinite ==
    ASSUME NEW a
    PROVE  /\ IsFiniteSet(LogsIn(a)) /\ Cardinality(LogsIn(a)) \in Nat
           /\ IsFiniteSet(LogsIn(a)') /\ Cardinality(LogsIn(a)') \in Nat
           /\ LogsIn(a)' \subseteq LogsIn(a)
                 => Cardinality(LogsIn(a)') <= Cardinality(LogsIn(a))
<1>1. IsFiniteSet(Handlers)
  BY FS_Interval, Constants DEF Handlers
<1>2. LogsIn(a) \subseteq Handlers /\ LogsIn(a)' \subseteq Handlers
  BY DEF LogsIn, Handlers
<1>3. IsFiniteSet(LogsIn(a)) /\ IsFiniteSet(LogsIn(a)')
  BY <1>1, <1>2, FS_Subset
<1>. QED
  BY <1>3, FS_Subset, FS_CardinalityType

(* A step that lets no further login in and leaves the buckets keeps the   *)
(* count.                                                                   *)
LEMMA ThrottleFrame ==
    ASSUME Typed, ThrottleInv, Typed', NEW a \in Addrs, bucket'[a] = bucket[a],
           clock <= clock', LogsIn(a)' \subseteq LogsIn(a)
    PROVE  Cardinality(LogsIn(a)') <= Width /\ BucketKept(a)' /\ Counted(a)'
<1>1. /\ Cardinality(LogsIn(a)) \in Nat /\ Cardinality(LogsIn(a)') \in Nat
      /\ Cardinality(LogsIn(a)') <= Cardinality(LogsIn(a)) /\ clock \in Nat /\ clock' \in Nat
  BY LogsInFinite, Constants DEF Typed, TypeOK
<1>2. bucket[a] # NoRow => bucket[a] \in Bucket
  BY DEF Typed, TypeOK
<1>3. Cardinality(LogsIn(a)) <= Width /\ BucketKept(a) /\ Counted(a)
  BY DEF ThrottleInv
<1>4. Cardinality(LogsIn(a)') <= Width
  BY <1>1, <1>3, Constants
<1>5. BucketKept(a)'
  BY <1>1, <1>2, <1>3, Constants DEF BucketKept, Bucket
<1>6. Counted(a)'
  <2>. SUFFICES ASSUME Locked(a)'
                PROVE  bucket[a].failures + Cardinality(LogsIn(a)')
                          <= loginMaxFailures - 1 + Width
    BY DEF Counted
  <2>1. bucket[a] # NoRow /\ clock < bucket[a].lockUntil /\ bucket[a] \in Bucket
    BY <1>1, <1>2, Constants DEF Locked, Bucket
  <2>2. bucket[a].failures + Cardinality(LogsIn(a)) <= loginMaxFailures - 1 + Width
    BY <1>3, <2>1 DEF Counted, Locked
  <2>. QED
    BY <1>1, <2>1, <2>2, Constants DEF Bucket
<1>. QED
  BY <1>4, <1>5, <1>6

(* A request that comes adds itself at most, and only as a login. *)
LEMMA ComesLogs ==
    ASSUME Typed, NEW q, Comes(q), NEW a
    PROVE  /\ LogsIn(a)' \subseteq LogsIn(a) \cup {came'}
           /\ q.at \notin {"check", "store", "fail", "pass"} => LogsIn(a)' \subseteq LogsIn(a)
           /\ q.addr # a => LogsIn(a)' \subseteq LogsIn(a)
           /\ clock' = clock
BY DEF Comes, LogsIn, Typed, TypeOK

(* A request that goes on is at most the login it was. *)
LEMMA GoesLogs ==
    ASSUME Typed, NEW r \in Handlers, NEW from, NEW q, Goes(r, from, q), NEW a,
           \/ q.at \notin {"check", "store", "fail", "pass"}
           \/ from \in {"check", "store", "fail", "pass"} /\ q.addr = req[r].addr
    PROVE  /\ LogsIn(a)' \subseteq LogsIn(a)
           /\ q = Idle => r \notin LogsIn(a)'
           /\ clock' = clock
BY DEF Goes, LogsIn, Typed, TypeOK, Idle

(* A failure takes its login out and counts it. *)
LEMMA FailureStep ==
    ASSUME Typed, ThrottleInv, Typed', NEW r \in Handlers, recordLoginFailure(r),
           NEW a \in Addrs
    PROVE  Cardinality(LogsIn(a)') <= Width /\ BucketKept(a)' /\ Counted(a)'
<1>. DEFINE b == bucket[a]
<1>1. /\ Goes(r, "fail", Idle) /\ req[r] \in Logins /\ req[r].addr \in Addrs
      /\ bucket \in [Addrs -> Bucket \cup {NoRow}] /\ clock \in 0 .. MaxClock
      /\ bucket' \in [Addrs -> Bucket \cup {NoRow}]
  BY Shape DEF recordLoginFailure, Goes, Typed, TypeOK, Logins
<1>2. LogsIn(a)' \subseteq LogsIn(a) /\ r \notin LogsIn(a)' /\ clock' = clock
  BY <1>1, GoesLogs DEF Idle
<1>3. CASE a # req[r].addr
  <2>1. bucket'[a] = bucket[a]
    BY <1>1, <1>3 DEF recordLoginFailure
  <2>. QED
    BY <1>1, <1>2, <2>1, ThrottleFrame
<1>4. CASE a = req[r].addr
  <2>. DEFINE n == Cardinality(LogsIn(a))
              m == Cardinality(LogsIn(a)')
  <2>1. n \in Nat /\ m \in Nat /\ IsFiniteSet(LogsIn(a)) /\ n <= Width /\ BucketKept(a)
        /\ Counted(a)
    BY LogsInFinite DEF ThrottleInv
  <2>2. m <= n - 1
    <3>1. r \in LogsIn(a) /\ LogsIn(a)' \subseteq LogsIn(a) \ {r}
      BY <1>1, <1>2, <1>4 DEF LogsIn, Goes
    <3>2. IsFiniteSet(LogsIn(a) \ {r}) /\ Cardinality(LogsIn(a) \ {r}) = n - 1
      BY <2>1, <3>1, FS_RemoveElement
    <3>3. \A S, T : IsFiniteSet(S) /\ T \subseteq S => Cardinality(T) <= Cardinality(S)
      BY FS_Subset
    <3>. QED
      BY <3>1, <3>2, <3>3
  <2>. HIDE DEF n, m
  <2>3. CASE b = NoRow \/ clock - b.firstHit > loginWindow
    <3>1. bucket'[a] = [failures |-> 1, firstHit |-> clock, lockUntil |-> 0]
      BY <1>1, <1>4, <2>3 DEF recordLoginFailure
    <3>2. ~Locked(a)'
      BY <1>1, <1>2, <3>1, Constants DEF Locked
    <3>3. BucketKept(a)'
      BY <1>1, <1>2, <3>1, Constants DEF BucketKept
    <3>. QED
      BY <2>1, <2>2, <3>2, <3>3, Constants DEF Counted, m
  <2>4. CASE ~(b = NoRow \/ clock - b.firstHit > loginWindow)
    <3>1. b \in Bucket
      BY <1>1, <2>4
    <3>. DEFINE u == IF LocksOut(b.failures + 1) THEN clock + loginLockout ELSE b.lockUntil
                c == bucket'[a]
    <3>2. c = [failures |-> b.failures + 1, firstHit |-> b.firstHit, lockUntil |-> u]
      BY <1>1, <1>4, <2>4 DEF recordLoginFailure
    <3>3. c.failures = b.failures + 1 /\ c.firstHit = b.firstHit /\ c.lockUntil = u
      BY <3>2
    <3>4. /\ b.failures \in Nat \ {0} /\ b.firstHit \in Nat /\ b.lockUntil \in Nat
          /\ clock \in Nat /\ clock - b.firstHit <= loginWindow /\ b.firstHit <= clock
          /\ b.failures < loginMaxFailures => b.lockUntil = 0
          /\ b.failures >= loginMaxFailures => b.lockUntil >= b.firstHit + loginLockout
      BY <1>1, <2>1, <2>4, <3>1, Constants DEF Bucket, BucketKept
    <3>5. /\ c.failures >= loginMaxFailures => c.lockUntil = clock + loginLockout
          /\ c.failures < loginMaxFailures => c.lockUntil = b.lockUntil
      BY <3>3, <3>4, Constants DEF LocksOut
    <3>. HIDE DEF c, u, b
    <3>6. BucketKept(a)'
      <4>1. /\ c.failures < loginMaxFailures => c.lockUntil = 0
            /\ c.failures >= loginMaxFailures => c.lockUntil >= c.firstHit + loginLockout
            /\ c.firstHit <= clock
        BY <3>3, <3>4, <3>5, Constants
      <4>. QED
        BY <1>2, <4>1 DEF BucketKept, c
    <3>7. Counted(a)'
      <4>. SUFFICES ASSUME Locked(a)' PROVE c.failures + m <= loginMaxFailures - 1 + Width
        BY DEF Counted, c, m
      <4>1. CASE b.failures < loginMaxFailures
        BY <2>1, <2>2, <3>3, <3>4, <4>1, Constants
      <4>2. CASE b.failures >= loginMaxFailures
        <5>1. clock < b.lockUntil
          BY <3>4, <4>2, Constants
        <5>2. b.failures + n <= loginMaxFailures - 1 + Width
          BY <2>1, <2>4, <5>1 DEF Counted, Locked, n, b
        <5>. QED
          BY <2>1, <2>2, <3>3, <3>4, <5>2, Constants
      <4>. QED
        BY <3>4, <4>1, <4>2, Constants
    <3>8. m <= Width
      BY <2>1, <2>2, Constants
    <3>. QED
      BY <3>6, <3>7, <3>8 DEF m
  <2>. QED
    BY <2>3, <2>4
<1>. QED
  BY <1>3, <1>4

(* Every step keeps the count. *)
LEMMA ThrottleStep ==
    ASSUME Typed, Typed', ThrottleInv, [Next]_vars
    PROVE  ThrottleInv'
<1>. SUFFICES ASSUME NEW a \in Addrs
              PROVE  Cardinality(LogsIn(a)') <= Width /\ BucketKept(a)' /\ Counted(a)'
  BY DEF ThrottleInv
<1>. DEFINE Goal == Cardinality(LogsIn(a)') <= Width /\ BucketKept(a)' /\ Counted(a)'
<1>0. /\ clock \in Nat /\ req \in [Handlers -> Requests]
      /\ bucket \in [Addrs -> Bucket \cup {NoRow}]
  BY Constants DEF Typed, TypeOK
<1>1. ASSUME bucket' = bucket, clock' \in {clock, clock + 1}, LogsIn(a)' \subseteq LogsIn(a)
      PROVE  Goal
  BY <1>0, <1>1, ThrottleFrame
<1>2. ASSUME req' = req, bucket' = bucket, clock' \in {clock, clock + 1} PROVE Goal
  <2>1. LogsIn(a)' = LogsIn(a)
    BY <1>2 DEF LogsIn
  <2>. QED
    BY <1>1, <1>2, <2>1
<1>3. ASSUME NEW q, q.at \notin {"check", "store", "fail", "pass"}, Comes(q), bucket' = bucket
      PROVE  Goal
  BY <1>1, <1>3, ComesLogs
<1>4. ASSUME NEW r \in Handlers, NEW from, NEW q, Goes(r, from, q), bucket' = bucket,
             \/ q.at \notin {"check", "store", "fail", "pass"}
             \/ from \in {"check", "store", "fail", "pass"} /\ q.addr = req[r].addr
      PROVE  Goal
  BY <1>1, <1>4, GoesLogs
<1>. HIDE DEF Goal
<1>5. CASE UNCHANGED vars
  <2>1. req' = req /\ bucket' = bucket /\ clock' = clock
    BY <1>5 DEF vars, loginVars
  <2>. QED
    BY <1>2, <2>1 DEF Goal
<1>6. ASSUME NEW t \in Tokens, NEW self \in BOOLEAN, Validate(t, self) PROVE Goal
  <2>. DEFINE q == IF row[t].expires # Never
                     THEN [at |-> "claim", token |-> t, until |-> row[t].expires, self |-> self]
                   ELSE IF self
                     THEN [at |-> "revoke", token |-> t, until |-> Never, self |-> self]
                   ELSE Idle
  <2>1. Comes(q) /\ bucket' = bucket
    BY <1>6 DEF Validate, loginVars
  <2>2. q.at \notin {"check", "store", "fail", "pass"}
    BY DEF Idle
  <2>. HIDE DEF q
  <2>. QED
    BY <1>3, <2>1, <2>2
<1>7. ASSUME NEW t \in Tokens, RevokeToken(t) PROVE Goal
  BY <1>2, <1>7 DEF RevokeToken, Served, loginVars
<1>8. ASSUME IssueToken PROVE Goal
  BY <1>2, <1>8 DEF IssueToken, Served, loginVars
<1>9. ASSUME IssueEphemeral PROVE Goal
  BY <1>3, <1>9 DEF IssueEphemeral, loginVars
<1>10. ASSUME NEW d \in Addrs, Login(d) PROVE Goal
  <2>. DEFINE q == [at |-> "check", addr |-> d]
  <2>1. ~Locked(d) /\ Cardinality(LogsIn(d)) < Width /\ Comes(q) /\ bucket' = bucket
    BY <1>10 DEF Login, loginVars
  <2>2. q.addr = d
    OBVIOUS
  <2>. HIDE DEF q
  <2>3. CASE a # d
    BY <1>1, <2>1, <2>2, <2>3, ComesLogs
  <2>4. CASE a = d
    <3>1. clock' = clock /\ LogsIn(a)' \subseteq LogsIn(a) \cup {came'}
      BY <2>1, ComesLogs
    <3>2. ~Locked(a)'
      BY <2>1, <2>4, <3>1 DEF Locked
    <3>3. BucketKept(a)'
      BY <2>1, <3>1 DEF ThrottleInv, BucketKept
    <3>4. /\ IsFiniteSet(LogsIn(a)) /\ Cardinality(LogsIn(a)) \in Nat
          /\ Cardinality(LogsIn(a)') \in Nat
      BY LogsInFinite
    <3>5. /\ IsFiniteSet(LogsIn(a) \cup {came'})
          /\ Cardinality(LogsIn(a) \cup {came'}) <= Cardinality(LogsIn(a)) + 1
          /\ Cardinality(LogsIn(a) \cup {came'}) \in Nat
      BY <3>4, FS_AddElement
    <3>6. \A S, T : IsFiniteSet(S) /\ T \subseteq S => Cardinality(T) <= Cardinality(S)
      BY FS_Subset
    <3>7. Cardinality(LogsIn(a)') <= Width
      BY <2>1, <2>4, <3>1, <3>4, <3>5, <3>6, Constants
    <3>. QED
      BY <3>2, <3>3, <3>7 DEF Goal, Counted
  <2>. QED
    BY <2>3, <2>4
<1>11. ASSUME NEW r \in Handlers, Claim(r) PROVE Goal
  <2>. DEFINE q == IF req[r].self THEN [req[r] EXCEPT !.at = "revoke"] ELSE Idle
  <2>1. Goes(r, "claim", q) /\ bucket' = bucket
    BY <1>11 DEF Claim, loginVars
  <2>2. req[r] \in Claims
    BY <1>0, <2>1, Shape DEF Goes
  <2>3. q.at \notin {"check", "store", "fail", "pass"}
    BY <2>2 DEF Idle, Claims
  <2>. HIDE DEF q
  <2>. QED
    BY <1>4, <2>1, <2>3
<1>12. ASSUME NEW r \in Handlers, Revoke(r) \/ InsertToken(r) PROVE Goal
  <2>1. PICK from \in {"revoke", "insert"} : Goes(r, from, Idle) /\ bucket' = bucket
    BY <1>12 DEF Revoke, InsertToken, loginVars
  <2>. QED
    BY <1>4, <2>1 DEF Idle
<1>13. ASSUME NEW r \in Handlers, Prune(r) PROVE Goal
  <2>1. Goes(r, "prune", [req[r] EXCEPT !.at = "insert"]) /\ bucket' = bucket
    BY <1>13 DEF Prune, loginVars
  <2>2. req[r] \in Enrols
    BY <1>0, <2>1, Shape DEF Goes
  <2>3. [req[r] EXCEPT !.at = "insert"].at = "insert"
    BY <2>2 DEF Enrols
  <2>. QED
    BY <1>4, <2>1, <2>3
<1>14. ASSUME NEW r \in Handlers, CheckPassword(r) \/ StoreSession(r) PROVE Goal
  <2>1. PICK to \in {"store", "fail", "pass"}, from \in {"check", "store"} :
          Goes(r, from, [req[r] EXCEPT !.at = to]) /\ bucket' = bucket
    BY <1>14 DEF CheckPassword, StoreSession, loginVars
  <2>2. req[r] \in Logins
    BY <1>0, <2>1, Shape DEF Goes
  <2>3. [req[r] EXCEPT !.at = to].addr = req[r].addr
    BY <2>2 DEF Logins
  <2>. QED
    BY <1>4, <2>1, <2>3
<1>15. ASSUME NEW r \in Handlers, recordLoginFailure(r) PROVE Goal
  BY <1>15, FailureStep DEF Goal
<1>16. ASSUME NEW r \in Handlers, recordLoginSuccess(r) PROVE Goal
  <2>1. /\ Goes(r, "pass", Idle)
        /\ bucket' = [bucket EXCEPT ![req[r].addr] = NoRow]
    BY <1>16 DEF recordLoginSuccess
  <2>2. LogsIn(a)' \subseteq LogsIn(a) /\ clock' = clock
    BY <2>1, GoesLogs DEF Idle
  <2>3. CASE a # req[r].addr
    <3>1. bucket'[a] = bucket[a]
      BY <1>0, <2>1, <2>3
    <3>. QED
      BY <1>0, <2>2, <3>1, ThrottleFrame DEF Goal
  <2>4. CASE a = req[r].addr
    <3>1. bucket'[a] = NoRow
      BY <1>0, <2>1, <2>4
    <3>2. /\ Cardinality(LogsIn(a)) \in Nat /\ Cardinality(LogsIn(a)') \in Nat
          /\ Cardinality(LogsIn(a)') <= Cardinality(LogsIn(a))
      BY <2>2, LogsInFinite
    <3>3. Cardinality(LogsIn(a)') <= Width
      BY <3>2, Constants DEF ThrottleInv
    <3>. QED
      BY <3>1, <3>3 DEF Goal, BucketKept, Counted, Locked
  <2>. QED
    BY <2>3, <2>4
<1>17. ASSUME NEW r \in Handlers, EndSession(r) PROVE Goal
  BY <1>2, <1>17 DEF EndSession, Served
<1>18. ASSUME NEW r \in Handlers, Up(r) PROVE Goal
  <2>1. PICK from \in {"up", "serve"}, q \in {Idle, [at |-> "serve"]} :
          Goes(r, from, q) /\ bucket' = bucket
    BY <1>18 DEF Up, loginVars
  <2>. QED
    BY <1>4, <2>1 DEF Idle
<1>19. ASSUME RemoteRequest PROVE Goal
  <2>1. bucket' = bucket /\ (Served \/ Comes([at |-> "up"]))
    BY <1>19 DEF RemoteRequest, loginVars
  <2>. QED
    BY <1>2, <1>3, <2>1 DEF Served
<1>20. ASSUME Boots \/ tailscaled \/ Tick PROVE Goal
  BY <1>2, <1>20 DEF Boots, tailscaled, Tick, loginVars
<1>21. ASSUME Crash PROVE Goal
  <2>1. bucket'[a] = NoRow /\ LogsIn(a)' = {}
    BY <1>21 DEF Crash, LogsIn, Idle
  <2>2. Cardinality(LogsIn(a)') = 0
    BY <2>1, FS_EmptySet
  <2>. QED
    BY <2>1, <2>2, Constants DEF Goal, BucketKept, Counted, Locked
<1>. QED
  BY <1>5, <1>6, <1>7, <1>8, <1>9, <1>10, <1>11, <1>12, <1>13, <1>14, <1>15, <1>16, <1>17,
     <1>18, <1>19, <1>20, <1>21 DEF Next, Goal

(* Logins that run in parallel all pass loginLocked before any of them has *)
(* recorded its failure: what slips through once the lockout has begun is  *)
(* bounded by what was under way, and a lockout that ended starts a new    *)
(* count.                                                                   *)
THEOREM LoginsThrottled == Spec => []Throttled
<1>1. Init => ThrottleInv
  <2>. SUFFICES ASSUME Init, NEW a \in Addrs
                PROVE  Cardinality(LogsIn(a)) <= Width /\ BucketKept(a) /\ Counted(a)
    BY DEF ThrottleInv
  <2>1. bucket[a] = NoRow /\ LogsIn(a) = {}
    BY DEF Init, LogsIn, Idle
  <2>. QED
    BY <2>1, FS_EmptySet, Constants DEF BucketKept, Counted, Locked
<1>2. Typed /\ Typed' /\ ThrottleInv /\ [Next]_vars => ThrottleInv'
  BY ThrottleStep
<1>3. ThrottleInv => Throttled
  BY DEF ThrottleInv, Throttled, Counted
<1>. QED
  BY <1>1, <1>2, <1>3, BearersInvariant, PTL DEF Spec
=============================================================================
