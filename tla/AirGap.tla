------------------------------- MODULE AirGap -------------------------------
(***************************************************************************)
(* How the tables become the policy in force.  Firewall, DNS, Bandwidth    *)
(* and Hotspot each have an Apply: under the service's mutex it reads its  *)
(* views of the database one SELECT at a time, writes a file and has the   *)
(* system load it.  SNIProxy.RefreshCache reads two views and swaps them   *)
(* into a cache ("sni", without file or mutex).                            *)
(*                                                                         *)
(*   Main      - ApplyAll at start: the four Applies in order, errors      *)
(*               logged; nothing else runs before it is through;           *)
(*   Handlers  - HTTP requests: one write of the database, then the Applies*)
(*               the handler calls, up to the first error; also the hotspot*)
(*               switch, SetEnabled, that the lock watcher's enforcer calls;*)
(*   Refresher - the SNI proxy's 30 s ticker;                              *)
(*   the scanner, and faults: a failing query, write or command, a crash of*)
(*   the daemon, a reboot of the Pi.                                       *)
(*                                                                         *)
(* One SQL statement is one step: database.Open allows one connection.     *)
(***************************************************************************)
EXTENDS Policy, SequencesExt

CONSTANTS
    Main, Refresher,
    Free,        \* the mutex is free
    Seeds,       \* databases the daemon may start from
    Torn,        \* a file truncated and not yet written
    NoRules,     \* the kernel has no ruleset: with ip_forward=1 all pass
    Down,        \* the unit is not running
    MaxEvents    \* bound on requests, new addresses, faults and restarts together

\* Requests are numbered as they come.
Handlers == 1 .. MaxEvents
Actors   == Handlers \cup {Main, Refresher}
Services == {"fw", "dns", "bw", "ap", "sni"}
OnDisk   == {"fw", "dns", "ap"}
ApplyAll == <<"fw", "dns", "bw", "ap">>
Jobs     == Services \cup {"raise", "lower", "verify"}

ASSUME AirGapAssumption ==
    /\ Main # Refresher /\ {Main, Refresher} \cap Handlers = {}
    /\ Free \notin Actors
    /\ Seeds \subseteq Database
    /\ NoRules \notin Ruleset /\ Down \notin APSettings
    /\ MaxEvents \in Nat

VARIABLES
    db,      \* the tables
    came,    \* how many requests have come
    todo,    \* what each actor has still to do; the head is under way or next
    lock,    \* each service's mu
    phase,   \* how far the work under a mutex is
    got,     \* the views it has read so far
    file,    \* /etc/nftables.conf, netfilter-dns.conf, hostapd.conf
    live,    \* what kernel, dnsmasq, tc, hostapd and the SNI proxy act on
    stale,   \* history: services whose policy may lag behind the tables
    faults,  \* queries, writes and commands that failed
    events

runVars == <<lock, phase, got>>
vars == <<db, came, todo, runVars, file, live, stale, faults, events>>

\* The views a service reads, in the order of its queries.
Views(d, s) ==
    CASE s = "fw"  -> <<rulesOf(d), deviceSnapshot(d), filterUDPPorts(d),
                        filterTCPPorts(d)>>
      [] s = "dns" -> <<allowedDomains(d), openMACs(d)>>
      [] s = "bw"  -> <<ListLimits(d), d.ip>>
      [] s = "ap"  -> <<d.ap>>
      [] s = "sni" -> <<allowedDomains(d), deviceSnapshot(d).filtered>>

\* What it makes of them.
Gen(s, v) ==
    CASE s = "fw"  -> generateConfig(v[1], v[2], v[3], v[4])
      [] s = "dns" -> buildDNSConfig(v[1], v[2])
      [] s = "bw"  -> shaped(v[1], v[2])
      [] s = "ap"  -> v[1]
      [] s = "sni" -> [suffixes |-> v[1], filtered |-> v[2]]

NoCache == [suffixes |-> {}, filtered |-> {}]

\* What a unit runs on when it starts from a file: nftables.service and
\* dnsmasq refuse one they cannot parse.
Boot(s, f) ==
    IF s = "fw"
      THEN IF f = Torn \/ ~Loads(f) THEN NoRules ELSE f
      ELSE IF f = Torn THEN Down ELSE f

\* deploy/nftables-base.conf: policy drop and no device.
BaseRules == [rules |-> {}, redirect |-> {}, ports |-> {}, open |-> {},
              blocked |-> {}]
BaseFiles == [fw |-> BaseRules, dns |-> buildDNSConfig({}, {}), ap |-> APDefaults]

Init ==
    /\ db \in Seeds
    /\ came = 0
    /\ todo = [r \in Actors |-> IF r = Main THEN ApplyAll ELSE <<>>]
    /\ lock = [s \in Services |-> Free]
    /\ phase = [s \in Services |-> "idle"]
    /\ got = [s \in Services |-> <<>>]
    /\ \E f \in {BaseRules, Torn} : file = [BaseFiles EXCEPT !.fw = f]
    /\ live = [fw |-> Boot("fw", file.fw), dns |-> BaseFiles.dns, bw |-> {},
               ap |-> BaseFiles.ap, sni |-> NoCache]
    /\ stale = {"sni"}
    /\ faults = 0 /\ events = 0

-----------------------------------------------------------------------------
(* Apply.                                                                  *)

\* The service r has to apply next, or is applying.
NextJob(r) == IF todo[r] = <<>> THEN {} ELSE {Head(todo[r])} \cap Services

\* It is r's turn for s: r has its mutex, or can take it.
Turn(r, s) == s \in NextJob(r) /\ lock[s] \in {Free, r}

Unlock(s) ==
    /\ lock' = [lock EXCEPT ![s] = Free]
    /\ phase' = [phase EXCEPT ![s] = "idle"]
    /\ got' = [got EXCEPT ![s] = <<>>]

Done(r, s) == Unlock(s) /\ todo' = [todo EXCEPT ![r] = Tail(@)]

\* An error ends a handler; ApplyAll logs it and goes on, and so does
\* SetEnabled, which verifies again.  What is skipped lags behind.
Fail(r, s) ==
    LET rest == Tail(todo[r])
        goOn == r = Main \/ rest = <<"verify">>
    IN  /\ Unlock(s)
        /\ todo' = [todo EXCEPT ![r] = IF goOn THEN rest ELSE <<>>]
        /\ stale' = stale \cup {s} \cup (IF goOn THEN {} ELSE Range(rest))

Event == events < MaxEvents /\ events' = events + 1
Fault == Event /\ faults' = faults + 1

Reading(r, s) ==
    /\ Turn(r, s) /\ phase[s] \in {"idle", "read"}
    /\ Len(got[s]) < Len(Views(db, s))

HasRead(r, s) ==
    /\ Turn(r, s) /\ phase[s] = "read" /\ Len(got[s]) = Len(Views(db, s))

\* The next query answers v.  The first one follows mu.Lock, and in
\* Bandwidth.Apply the deletion of the qdiscs; from then on only what
\* happens later can leave s behind.
Answer(r, s, v) ==
    /\ lock' = [lock EXCEPT ![s] = r]
    /\ phase' = [phase EXCEPT ![s] = "read"]
    /\ got' = [got EXCEPT ![s] = Append(@, v)]
    /\ live' = IF s = "bw" THEN [live EXCEPT !.bw = {}] ELSE live

Read(r, s) ==
    /\ Reading(r, s)
    /\ Answer(r, s, Views(db, s)[Len(got[s]) + 1])
    /\ stale' = IF got[s] = <<>> THEN stale \ {s} ELSE stale
    /\ UNCHANGED <<db, came, todo, file, faults, events>>

\* What the code takes for an answer when a query, or the lookup of a rule's
\* host name, fails without failing Apply.
Fallback(s, i) ==
    CASE s = "fw" /\ i = 1 -> {[q \in {p \in ListRules(db) : db.rules[p].dest # "host"}
                                  |-> db.rules[q]]}
      [] s = "fw" /\ i \in {3, 4} -> {{}}
      [] s = "bw" /\ i = 2 -> {[m \in Devices |-> NoIP]}
      [] s = "ap" -> {APDefaults}
      [] OTHER -> {}

Misread(r, s) ==
    /\ Reading(r, s) /\ Fault
    /\ \E v \in Fallback(s, Len(got[s]) + 1) : Answer(r, s, v)
    /\ stale' = stale \cup {s}
    /\ UNCHANGED <<db, came, todo, file>>

\* Nothing is made do with, or, in Firewall.Apply, ListRules itself fails.
ReadFails(r, s) ==
    /\ Reading(r, s) /\ Fault
    /\ Fallback(s, Len(got[s]) + 1) = {} \/ (s = "fw" /\ got[s] = <<>>)
    /\ live' = IF s = "bw" THEN [live EXCEPT !.bw = {}] ELSE live
    /\ Fail(r, s)
    /\ UNCHANGED <<db, came, file>>

\* Hotspot.Apply rejects a passphrase of fewer than eight characters.
Acceptable(s) == s = "ap" => got["ap"][1].pass # "short"

Refuse(r) ==
    /\ HasRead(r, "ap") /\ ~Acceptable("ap")
    /\ Fail(r, "ap")
    /\ UNCHANGED <<db, came, file, live, faults, events>>

\* os.WriteFile; cut short, it leaves a truncated file (see also Restart).
WriteFile(r, s) ==
    /\ HasRead(r, s) /\ s \in OnDisk /\ Acceptable(s)
    /\ phase' = [phase EXCEPT ![s] = "written"]
    /\ file' = [file EXCEPT ![s] = Gen(s, got[s])]
    /\ UNCHANGED <<db, came, todo, lock, got, live, stale, faults, events>>

WriteFails(r, s) ==
    /\ HasRead(r, s) /\ s \in OnDisk /\ Acceptable(s) /\ Fault
    /\ file' = [file EXCEPT ![s] = Torn]
    /\ Fail(r, s)
    /\ UNCHANGED <<db, came, live>>

ReadyToLoad(r, s) ==
    \/ Turn(r, s) /\ phase[s] = "written"
    \/ HasRead(r, s) /\ s \notin OnDisk

\* nft -f, systemctl restart, tc, or the swap of the cache; mu.Unlock.
Load(r, s) ==
    /\ ReadyToLoad(r, s)
    /\ s = "fw" => Loads(Gen(s, got[s]))
    /\ live' = [live EXCEPT ![s] = Gen(s, got[s])]
    /\ Done(r, s)
    /\ UNCHANGED <<db, came, file, stale, faults, events>>

\* nft -f leaves the kernel as it was; a failed restart may leave the unit
\* down; a failed tc leaves some of the classes.
LoadFails(r, s) ==
    /\ ReadyToLoad(r, s) /\ s # "sni"
    /\ IF s = "fw" /\ ~Loads(Gen(s, got[s])) THEN UNCHANGED <<faults, events>> ELSE Fault
    /\ \E v \in CASE s = "fw" -> {live.fw}
                  [] s = "bw" -> SUBSET Gen(s, got[s])
                  [] OTHER -> {live[s], Down} :
         live' = [live EXCEPT ![s] = v]
    /\ Fail(r, s)
    /\ UNCHANGED <<db, came, file>>

-----------------------------------------------------------------------------
(* Hotspot.SetEnabled, under the hotspot's mutex.                          *)

Switching(r, jobs) ==
    /\ todo[r] # <<>> /\ Head(todo[r]) \in jobs
    /\ lock["ap"] \in {Free, r}

\* systemctl stop, never gated; if it fails hostapd runs on.
Lower(r) ==
    /\ Switching(r, {"lower"})
    /\ \/ live' = [live EXCEPT !.ap = Down] /\ UNCHANGED <<faults, events>>
       \/ Fault /\ UNCHANGED live
    /\ stale' = stale \cup {"ap"}
    /\ Done(r, "ap")
    /\ UNCHANGED <<db, came, file>>

\* Verify reads the devices, then the chains prerouting and forward, and
\* takes no mutex of Firewall's.
Chains == IF live.fw = NoRules THEN <<{}, "absent">>
                               ELSE <<live.fw.redirect, "drop">>

Verify(r) ==
    /\ Switching(r, {"raise", "verify"}) /\ Len(got["ap"]) < 3
    /\ lock' = [lock EXCEPT !["ap"] = r]
    /\ phase' = [phase EXCEPT !["ap"] = "switch"]
    /\ got' = [got EXCEPT !["ap"] =
                 Append(@, (<<deviceSnapshot(db).filtered>> \o Chains)[Len(@) + 1])]
    /\ UNCHANGED <<db, came, todo, file, live, stale, faults, events>>

Verified == LET g == got["ap"] IN Len(g) = 3 /\ verifyOutput(g[2], g[3], g[1])

\* The gate holds: systemctl start, which leaves a running unit alone; it
\* may fail.
Raise(r) ==
    /\ Switching(r, {"raise", "verify"}) /\ Verified
    /\ \/ /\ live' = IF live.ap = Down THEN [live EXCEPT !.ap = Boot("ap", file.ap)]
                                       ELSE live
          /\ UNCHANGED <<faults, events>>
       \/ Fault /\ UNCHANGED live
    /\ Done(r, "ap")
    /\ UNCHANGED <<db, came, file, stale>>

\* Verify has failed, or could not run: reapply and verify once more, then
\* refuse.
GateShut(r) ==
    /\ Switching(r, {"raise", "verify"})
    /\ IF Len(got["ap"]) = 3 THEN ~Verified /\ UNCHANGED <<faults, events>> ELSE Fault
    /\ IF Head(todo[r]) = "raise"
         THEN /\ todo' = [todo EXCEPT ![r] = <<"fw", "verify">>]
              /\ lock' = [lock EXCEPT !["ap"] = r]
              /\ phase' = [phase EXCEPT !["ap"] = "switch"]
              /\ got' = [got EXCEPT !["ap"] = <<>>]
         ELSE Done(r, "ap")
    /\ UNCHANGED <<db, came, file, live, stale>>

-----------------------------------------------------------------------------
(* The requests: one write of the tables, then the Applies that follow.    *)

\* jobs: what the handler applies; lag: what it leaves behind the tables.
Serve(newdb, jobs, lag) ==
    /\ came' = came + 1
    /\ db' = newdb
    /\ todo' = [todo EXCEPT ![came'] = jobs]
    /\ stale' = stale \cup lag
    /\ UNCHANGED <<runVars, file, live, faults>>

\* An UPDATE of a row that is not there changes nothing and is no error.
Put(row, v) == IF row = "none" THEN "none" ELSE v

SetStatus == \E m \in Devices, st \in {"blocked", "filtered", "open"} :
    Serve([db EXCEPT !.devices[m] = Put(@, st)], <<"fw", "dns">>, {"sni"})

DeleteDevice == \E m \in Devices :
    /\ db.devices[m] # "none"
    /\ Serve([db EXCEPT !.devices[m] = "none", !.ip[m] = NoIP],
             <<"fw", "dns">>, {"bw", "sni"})

CreateRule == \E q \in Rules, row \in RuleRows :
    /\ db.rules[q] = NoRow
    /\ Serve([db EXCEPT !.rules[q] = row], <<"fw">>, {})

UpdateRule == \E q \in Rules, row \in RuleRows :
    Serve([db EXCEPT !.rules[q] = IF @ = NoRow THEN NoRow ELSE row], <<"fw">>, {})

DeleteRule == \E q \in Rules :
    Serve([db EXCEPT !.rules[q] = NoRow], <<"fw">>, {})

\* A filter an operator creates starts disabled, so nothing is applied.
CreateFilter == \E f \in UserFilters :
    /\ db.filters[f] = "none"
    /\ Serve([db EXCEPT !.filters[f] = "off"], <<>>, {})

SetFilterEnabled == \E f \in Filters, v \in {"off", "on"} :
    /\ db.filters[f] # "none"
    /\ Serve([db EXCEPT !.filters[f] = v], <<"dns", "fw">>, {"sni"})

MutAnyDeletable(f) == TRUE

\* System filters are refused; the domains go with their filter (ON DELETE
\* CASCADE).
Deletable(f) == f \notin SysFilters

DeleteFilter == \E f \in Filters :
    /\ db.filters[f] # "none" /\ Deletable(f)
    /\ Serve([db EXCEPT !.filters[f] = "none",
                           !.domains[f] = [n \in Names |-> "none"]],
             <<"dns">>, {"sni"})

MutNoAncestors(n) == ~isProtectedDenied(n)

\* A new domain is disabled; creating it again leaves the flag alone.
Listable(n) == ~isProtectedDenied(n) /\ ~isProtectedAncestor(n)

\* The migrations insert no name the check would refuse.
ASSUME SeedAssumption ==
    \A d \in Seeds : \A f \in Filters, n \in Names :
        d.domains[f][n] # "none" => Listable(n)

CreateDomain == \E f \in Filters, n \in Names :
    /\ db.filters[f] # "none" /\ Listable(n)
    /\ Serve([db EXCEPT !.domains[f][n] = IF @ = "none" THEN "off" ELSE @],
             <<"dns">>, {})

\* UpdateDomain and SetDomainEnabled.
SetDomainEnabled == \E f \in Filters, n \in Names, v \in {"off", "on"} :
    Serve([db EXCEPT !.domains[f][n] = Put(@, v)], <<"dns">>, {"sni"})

DeleteDomain == \E f \in Filters, n \in Names :
    Serve([db EXCEPT !.domains[f][n] = "none"], <<"dns">>, {"sni"})

\* CreateLimit is an upsert by MAC.
CreateLimit == \E m \in Devices, v \in {"off", "on"} :
    Serve([db EXCEPT !.limits[m] = v], <<"bw">>, {})

UpdateLimit == \E m \in Devices, v \in {"off", "on"} :
    Serve([db EXCEPT !.limits[m] = Put(@, v)], <<"bw">>, {})

DeleteLimit == \E m \in Devices :
    Serve([db EXCEPT !.limits[m] = "none"], <<"bw">>, {})

\* Settings: Apply runs on a goroutine of its own and its error is dropped;
\* ap_country alone restarts nothing.
UpdatePassphrase == \E p \in {"seed", "chosen", "short"} :
    Serve([db EXCEPT !.ap.pass = p], <<"ap">>, {})

UpdateCountry == \E c \in {"00", "xx"} :
    Serve([db EXCEPT !.ap.country = c], <<>>, {"ap"})

UpdateUpstream == Serve(db, <<"dns">>, {})

Switch == \E w \in {"raise", "lower"} : Serve(db, <<w>>, {})

\* The HTTP server starts once ApplyAll is through.
Request ==
    /\ todo[Main] = <<>> /\ Event
    /\ \/ SetStatus \/ DeleteDevice
       \/ CreateRule \/ UpdateRule \/ DeleteRule
       \/ CreateFilter \/ SetFilterEnabled \/ DeleteFilter
       \/ CreateDomain \/ SetDomainEnabled \/ DeleteDomain
       \/ CreateLimit \/ UpdateLimit \/ DeleteLimit
       \/ UpdatePassphrase \/ UpdateCountry \/ UpdateUpstream
       \/ Switch

-----------------------------------------------------------------------------
(* The scanner, the ticker and the faults.                                 *)

MutNoStatus(st) == IF st = "none" THEN "" ELSE st

\* upsertDevice inserts a new device 'blocked' and leaves the status of a
\* known one alone.
Upserted(st) == IF st = "none" THEN "blocked" ELSE st

\* The device is given the address just seen; no Apply follows.
Scan(m, a) ==
    /\ todo[Main] = <<>> /\ Event
    /\ db.ip[m] # a
    /\ db' = [db EXCEPT !.devices[m] = Upserted(@),
                        !.ip[m] = a]
    /\ stale' = stale \cup {"bw"} \cup (IF db.devices[m] = "none" THEN {"fw"} ELSE {})
    /\ UNCHANGED <<came, todo, runVars, file, live, faults>>

MutTickOnce ==
    \/ live.sni # NoCache /\ UNCHANGED vars
    \/ /\ live.sni = NoCache
       /\ todo[Main] = <<>> /\ todo[Refresher] = <<>>
       /\ todo' = [todo EXCEPT ![Refresher] = <<"sni">>]
       /\ Answer(Refresher, "sni", Views(db, "sni")[1])
       /\ stale' = stale \ {"sni"}
       /\ UNCHANGED <<db, came, file, faults, events>>

\* The proxy's ticker calls RefreshCache, which begins with its first query.
Tick ==
    /\ todo[Main] = <<>> /\ todo[Refresher] = <<>>
    /\ todo' = [todo EXCEPT ![Refresher] = <<"sni">>]
    /\ Answer(Refresher, "sni", Views(db, "sni")[1])
    /\ stale' = stale \ {"sni"}
    /\ UNCHANGED <<db, came, file, faults, events>>

\* Whoever dies between truncating a file and writing it leaves it torn.
TornFiles == {s \in OnDisk : phase[s] = "read" /\ Len(got[s]) = Len(Views(db, s))}

Restart ==
    /\ Event
    /\ todo' = [r \in Actors |-> IF r = Main THEN ApplyAll ELSE <<>>]
    /\ lock' = [s \in Services |-> Free]
    /\ phase' = [s \in Services |-> "idle"]
    /\ got' = [s \in Services |-> <<>>]
    /\ stale' = stale \cup {"sni"}
    /\ \E torn \in SUBSET TornFiles :
         file' = [s \in OnDisk |-> IF s \in torn THEN Torn ELSE file[s]]
    /\ UNCHANGED <<db, came, faults>>

\* The daemon dies and systemd starts it again.
Crash == Restart /\ live' = [live EXCEPT !.sni = NoCache]

\* The Pi goes down: every enabled unit starts from its file.
Reboot ==
    /\ Restart
    /\ live' = [fw |-> Boot("fw", file'.fw), dns |-> Boot("dns", file'.dns),
                bw |-> {}, ap |-> Boot("ap", file'.ap), sni |-> NoCache]

\* What an actor does on its own.
Work(r) ==
    \/ \E s \in NextJob(r) : Read(r, s) \/ WriteFile(r, s) \/ Load(r, s)
    \/ Refuse(r)
    \/ Verify(r) \/ Raise(r) \/ GateShut(r) \/ Lower(r)

Trouble(r) ==
    \E s \in NextJob(r) : \/ Misread(r, s) \/ ReadFails(r, s)
                          \/ WriteFails(r, s) \/ LoadFails(r, s)

Next ==
    \/ \E r \in Actors : Work(r) \/ Trouble(r)
    \/ Request
    \/ \E m \in Devices, a \in IPs : Scan(m, a)
    \/ Tick \/ Crash \/ Reboot

Spec == Init /\ [][Next]_vars

\* Goroutines run, commands return, the ticker ticks: an Apply that can take
\* its next step takes it, well or badly.
Fairness ==
    /\ \A r \in Actors : WF_vars(Work(r) \/ Trouble(r))
    /\ WF_vars(Tick)

FairSpec == Spec /\ Fairness

-----------------------------------------------------------------------------
TypeOK ==
    /\ db \in Database
    /\ came \in 0 .. MaxEvents
    /\ todo \in [Actors -> Seq(Jobs)]
    /\ lock \in [Services -> Actors \cup {Free}]
    /\ phase \in [Services -> {"idle", "read", "written", "switch"}]
    /\ DOMAIN got = Services /\ DOMAIN live = Services /\ DOMAIN file = OnDisk
    /\ \A s \in Services : \E n \in 0 .. 4 : got[s] = [i \in 1 .. n |-> got[s][i]]
    /\ stale \subseteq Services
    /\ {faults, events} \subseteq 0 .. MaxEvents

\* Nobody has still to apply s, and nothing has left it behind the tables.
InEffect(s) == s \notin stale /\ \A r \in Actors : s \notin Range(todo[r])

\* Whatever the order of requests, Applies, crashes and reboots: once no
\* Apply of a service is outstanding and no error was reported for it, the
\* kernel, dnsmasq, tc, hostapd and the proxy act on the tables as they are,
\* although every Apply reads them one query at a time while they change.
InForce == \A s \in Services : InEffect(s) => live[s] = Gen(s, Views(db, s))

Ports   == UNION {UDPPorts[f] \cup TCPPorts[f] : f \in Filters} \cup {22, 443}
Packets == [src : Devices, protocol : {"tcp", "udp"}, port : Ports]

\* The operator's accept rules, and the ports of enabled filters.
Opened(p) ==
    \/ \E q \in Rules : /\ db.rules[q] # NoRow /\ db.rules[q].enabled
                        /\ db.rules[q].action = "accept"
                        /\ Matches(db.rules[q], p)
    \/ /\ db.devices[p.src] = "filtered"
       /\ \E f \in Filters : db.filters[f] = "on"
             /\ p.port \in IF p.protocol = "udp" THEN UDPPorts[f] ELSE TCPPorts[f]

\* The ruleset in force treats each class of device as the forward chain's
\* comments say: blocked devices get nothing, whatever rules there are; open
\* ones everything; a filtered device's TLS goes to the SNI proxy; and for
\* filtered and unknown devices a flow passes only if a rule or an enabled
\* filter opened it.
ClassesHold ==
    InEffect("fw") => \A p \in Packets :
        LET class == db.devices[p.src]  fate == Fate(live.fw, p)
            tls   == p.protocol = "tcp" /\ p.port = 443
        IN  /\ class = "blocked" => fate = "drop"
            /\ class = "open" => fate = "accept"
            /\ fate = "proxy" <=> class = "filtered" /\ tls
            /\ class \in {"filtered", "none"} /\ fate = "accept" => Opened(p)

\* No name of the protected floor is ever resolved or spliced, in force or
\* lagging, fault or not.  Names below an exempt host are left out: the
\* server= line of the host forwards them too.
SealedNames ==
    \A n \in Names :
        isProtectedDenied(n) /\ ~(\E e \in Exempt : Under(n, e)) =>
            /\ live.dns # Down => ~Resolves(live.dns, n)
            /\ \A m \in Devices : ~Spliced(live.sni, m, n)

\* SetEnabled never starts hostapd over a kernel without the default deny,
\* although Verify reads devices and chains at three moments.
GateHolds == [][\A r \in Actors : Raise(r) => live.fw # NoRules]_vars

\* Every Apply ends - Main's, a handler's, SetEnabled's, which takes the
\* firewall's mutex under its own - and once requests stop coming the SNI
\* proxy's cache is that of the tables for good.
Settles ==
    /\ \A r \in Actors \ {Refresher} : <>[](todo[r] = <<>>)
    /\ <>[](live.sni = Gen("sni", Views(db, "sni")))

\* README.md: "every outbound packet from every device on the hotspot has to
\* be explicitly allowed".  With the daemon up and nothing having failed by
\* accident, the access point is not up over a kernel without rules.
DefaultDeny ==
    faults = 0 /\ todo[Main] = <<>> => ~(live.ap # Down /\ live.fw = NoRules)
=============================================================================
