----------------------------- MODULE TrafficLog -----------------------------
(***************************************************************************)
(* The traffic log and what feeds it: trafficlog.go, the scanner of        *)
(* network.go and the handlers that mute domains, ignore devices and clear *)
(* the log.                                                                *)
(*                                                                         *)
(* Two goroutines tail the kernel's and dnsmasq's logs, a third writer are *)
(* the SNI proxy's connections.  Each checks an event against two caches   *)
(* and then INSERTs it.  The caches are rebuilt by a 30 s loop and by      *)
(* handlers, each with a query and a later swap.  A tail that reads the    *)
(* journal saves its cursor now and then, and resumes there; without a     *)
(* cursor it starts a day back, and the kernel's (-k) shows the present    *)
(* boot only.  A journal is a sequence of lines, a cursor the number of    *)
(* the last line seen, 0 if there is none.                                 *)
(*                                                                         *)
(* One SQL statement is one step: database.Open allows one connection.     *)
(* Clear's DELETE and VACUUM, and the COUNT and SELECT of a page, are one  *)
(* step each: nothing here depends on what comes between them.             *)
(***************************************************************************)
EXTENDS Leases

CONSTANTS
    Names, Zones,      \* as in Policy
    Patterns,          \* the names an operator mutes or puts in a filter
    Denied,            \* the names isProtectedDenied refuses
    NoName,
    Tails,             \* "kernel" and "dnsmasq"
    Journalled,        \* the ones read from the journal: all but a dnsmasq
                       \* that writes /var/log/dnsmasq.log
    Lines,             \* what may be written to the streams or ask the proxy
    Hosts,             \* leases and ARP entries there are at the start
    Before,            \* how earlier runs may have left things: settings, and
                       \* for each log its lines and how far they have got
    PageSizes,         \* what a client may ask for
    Ticker,
    Nothing,
    CacheSize,         \* 10000 in parseDnsLine
    MaxEvents          \* bound on lines, connections, requests, leases, scans,
                       \* faults and crashes together

Handlers == 1 .. MaxEvents
Actors   == Handlers \cup {Ticker}
Writers  == Tails \cup {"sni"}
Caches   == {"ignore", "mute", "allow"}
MutNoAllowRefresh == <<"ignore", "mute">>
Refresh  == <<"ignore", "mute", "allow">>
Jobs     == Caches \cup {"lookup", "delete", "wipe"}

\* A line: the stream it is in, and the parts the regular expressions cut
\* out of it; or a connection to the SNI proxy and what came of it.
LineSpace ==
    [tail : Writers, kind : {"forward", "query", "reply"}, mac : Devices,
     ip : IPs, name : Names, action : {"allowed", "blocked"}]

\* A log at the start: its lines, and of how many of them below.
LogSpace == [lines : Seq(LineSpace), cursor : Nat, aged : Nat, prior : Nat]

\* The kernel's MAC= field is the frame's header: destination, source and
\* type, of which the source is a part.
Frame(m) == <<"pi", m, "ip">>

\* An event as insertEntry gets it; a row of query_log, with the line it is from.
EntrySpace == [source : {"forward", "dns", "sniproxy"}, ip : IPs,
           mac : {Frame(m) : m \in Devices} \cup {NoMAC},
           name : Names \cup {NoName},
           action : {"allowed", "blocked", "resolved", "sinkholed"}]
Rows == [event : EntrySpace, tail : Writers, line : Nat]
Row(e, t, i) == [event |-> e, tail |-> t, line |-> i]

ASSUME TrafficLogAssumption ==
    /\ Zones \in [Names -> SUBSET Names]
    /\ Denied \subseteq Names /\ Patterns \subseteq Names
    /\ NoName \notin Names /\ Nothing \notin Rows
    /\ "sni" \notin Tails /\ Journalled \subseteq Tails
    /\ Lines \subseteq LineSpace
    /\ Hosts \subseteq [expiry : Nat, mac : Devices, ip : IPs] /\ IsFiniteSet(Hosts)
    /\ \A h, k \in Hosts : h.ip = k.ip => h.mac = k.mac
    /\ Before \subseteq [ignored : SUBSET {h.mac : h \in Hosts}, muted : SUBSET Patterns,
                         logs : [Tails -> LogSpace]]
    /\ \A b \in Before, t \in Tails : LET g == b.logs[t] IN
         /\ {g.cursor, g.aged, g.prior} \subseteq 0 .. Len(g.lines)
         /\ t \notin Journalled => g.cursor = 0
         /\ t # "kernel" => g.prior = 0
    /\ Ticker \notin Handlers
    /\ PageSizes \subseteq Int
    /\ CacheSize \in Nat /\ MaxEvents \in Nat

VARIABLES
    ip, ignored,       \* devices: address, and ignore_traffic_log
    muted, allowed,    \* muted_domains; the enabled domains of enabled filters
    cursor,            \* kv_store
    log,               \* query_log: the row of each id, or Nothing
    leases, arp,       \* dnsmasq's and the kernel's
    found,             \* what the scanner has still to upsert
    cache, dnsCache,
    came, todo, got, target,  \* what handlers and the loop are at
    primed,            \* StartTailing has filled the caches
    lines,             \* the streams as written so far
    aged,              \* how many of the lines are older than a day
    prior,             \* how many a tail of the present boot is not shown
    tail,              \* each tail: running, last line read, line to save
    pend,              \* the event each writer has checked and not inserted
    done,              \* history: how often each line has been dealt with
    missed,            \* history: the lines journalctl did not show when a
                       \* tail started that had not dealt with them
    crashes, faults, events

tables == <<ip, ignored, muted, allowed>>
hosts  == <<leases, arp, found>>
work   == <<came, todo, got, target>>
reach  == <<aged, prior, missed>>
tailing == <<cursor, lines, reach, tail, pend, done>>
counts == <<crashes, faults, events>>
vars   == <<tables, hosts, work, tailing, counts, log, cache, dnsCache, primed>>

Idle == [up |-> FALSE, pos |-> 0, last |-> 0]
EmptyCache == [ignore |-> [macs |-> {}, ips |-> {}], mute |-> {}, allow |-> {}]

Init ==
    /\ ip = [m \in Devices |-> IF \E h \in Hosts : h.mac = m
                                 THEN (CHOOSE h \in Hosts : h.mac = m).ip ELSE NoIP]
    /\ \E b \in Before :
         /\ ignored = b.ignored /\ muted = b.muted
         /\ lines = [t \in Tails |-> b.logs[t].lines]
         /\ cursor = [t \in Tails |-> b.logs[t].cursor]
         /\ aged = [t \in Tails |-> b.logs[t].aged]
         /\ prior = [t \in Tails |-> b.logs[t].prior]
    /\ done = [t \in Tails |-> [i \in 1 .. Len(lines[t]) |->
                                  IF i <= cursor[t] THEN 1 ELSE 0]]
    /\ allowed = {}
    /\ log = <<>>
    /\ leases = Hosts
    /\ arp = [a \in IPs |-> IF \E h \in Hosts : h.ip = a
                              THEN (CHOOSE h \in Hosts : h.ip = a).mac ELSE NoMAC]
    /\ found = [m \in Devices |-> NoIP]
    /\ cache = EmptyCache /\ dnsCache = {}
    /\ came = 0 /\ todo = [r \in Actors |-> IF r = Ticker THEN Refresh ELSE <<>>]
    /\ got = [r \in Actors |-> Nothing] /\ target = [r \in Actors |-> Nothing]
    /\ primed = FALSE
    /\ missed = [t \in Tails |-> {}]
    /\ tail = [t \in Tails |-> Idle] /\ pend = [w \in Writers |-> Nothing]
    /\ crashes = 0 /\ faults = 0 /\ events = 0

Event == events < MaxEvents /\ events' = events + 1
Fault == Event /\ faults' = faults + 1
NoFault == UNCHANGED <<faults, events>>
-----------------------------------------------------------------------------
(* The tests of insertEntry, and the parsers.                              *)

isIgnored(mac, a) == mac \in cache.ignore.macs \/ a \in cache.ignore.ips

isMuted(n) == \E p \in cache.mute : p \in Zones[n]

dnsResolvable(n, suffixes) ==
    n \notin Denied /\ \E p \in suffixes : p \in Zones[n]

Suppressed(e) == isIgnored(e.mac, e.ip) \/ (e.name # NoName /\ isMuted(e.name))

\* parseNfLine names the destination when a reply has told its address.
parseNfLine(l) ==
    [source |-> "forward", mac |-> Frame(l.mac), ip |-> l.ip,
     name |-> IF l.name \in dnsCache THEN l.name ELSE NoName, action |-> l.action]

\* The query half of parseDnsLine; a DNS event has no MAC.
parseDnsLine(l) ==
    [source |-> "dns", mac |-> NoMAC, ip |-> l.ip, name |-> l.name,
     action |-> IF dnsResolvable(l.name, cache.allow) THEN "resolved" ELSE "sinkholed"]

\* The reply half: a cache that would outgrow its size is emptied.
learn(n) == LET c == dnsCache \cup {n}
            IN  IF Cardinality(c) > CacheSize THEN {} ELSE c

-----------------------------------------------------------------------------
(* The tails.                                                              *)

\* kernel and dnsmasq write their logs, daemon or no daemon.
Write(l) ==
    /\ l.tail \in Tails /\ Event
    /\ lines' = [lines EXCEPT ![l.tail] = Append(@, l)]
    /\ done' = [done EXCEPT ![l.tail] = Append(@, 0)]
    /\ UNCHANGED <<tables, hosts, work, log, cache, dnsCache, primed,
                   cursor, reach, tail, pend, crashes, faults>>

\* A day passes since lines of a journal were written.
Age(t) ==
    /\ t \in Journalled /\ Event
    /\ \E k \in aged[t] + 1 .. Len(lines[t]) : aged' = [aged EXCEPT ![t] = k]
    /\ UNCHANGED <<tables, hosts, work, log, cache, dnsCache, primed,
                   cursor, lines, prior, missed, tail, pend, done, crashes, faults>>

\* journalctl shows no line up to this one: with -k the lines of earlier
\* boots, and without a cursor those of more than a day ago.
Hidden(t, from) == IF from = 0 /\ prior[t] < aged[t] THEN aged[t] ELSE prior[t]

MutStartAtEnd(t, from) == Len(lines[t])
MutPastEnd(t, from) == IF t \in Journalled THEN from ELSE Len(lines[t]) + 1

\* journalctl --after-cursor, or --since when there is no cursor; for a log
\* file tail -F -n 0.
StartPos(t, from) ==
    IF t \notin Journalled THEN Len(lines[t])
    ELSE IF from < Hidden(t, from) THEN Hidden(t, from) ELSE from

\* getCursor takes a cursor it cannot read for none.
Open(t) ==
    /\ primed /\ ~tail[t].up
    /\ \E from \in {cursor[t], 0} :
         /\ tail' = [tail EXCEPT ![t] = [up |-> TRUE, last |-> 0,
                                               pos |-> StartPos(t, from)]]
         /\ missed' = [missed EXCEPT ![t] =
                         @ \cup {i \in 1 .. Hidden(t, from) : done[t][i] = 0}]
         /\ IF from = cursor[t] THEN NoFault ELSE t \in Journalled /\ Fault
    /\ UNCHANGED <<tables, hosts, work, log, cache, dnsCache, primed,
                   cursor, lines, aged, prior, pend, done, crashes>>

\* The line has been dealt with, to whatever end.
Dealt(t, i) == [done EXCEPT ![t][i] = @ + 1]

\* The next line: a reply is learnt, another is parsed and, unless
\* insertEntry suppresses it, goes on to be inserted.
ReadLine(t) ==
    /\ tail[t].up /\ pend[t] = Nothing /\ tail[t].pos < Len(lines[t])
    /\ LET i == tail[t].pos + 1
           l == lines[t][i]
           e == IF l.kind = "forward" THEN parseNfLine(l) ELSE parseDnsLine(l)
       IN  /\ tail' = [tail EXCEPT ![t].pos = i, ![t].last = i]
           /\ IF l.kind # "reply" /\ ~Suppressed(e)
                THEN pend' = [pend EXCEPT ![t] = Row(e, t, i)] /\ UNCHANGED done
                ELSE done' = Dealt(t, i) /\ UNCHANGED pend
           /\ dnsCache' = IF l.kind = "reply" THEN learn(l.name) ELSE dnsCache
    /\ UNCHANGED <<tables, hosts, work, counts, log, cache, primed, cursor, lines,
                   reach>>

\* LogSNIEvent, on the goroutine of a connection: the client has been looked
\* up, and the event is recorded as allowed only if it was somebody.  A
\* lease file that cannot be read counts as empty, and leaves the ARP table.
LogSNIEvent(l) ==
    /\ l.tail = "sni" /\ Event /\ pend["sni"] = Nothing
    /\ \E file \in {leases, {}} : \E m \in clientMAC(file, arp, l.ip) :
         LET e == [source |-> "sniproxy", mac |-> NoMAC, ip |-> l.ip, name |-> l.name,
                   action |-> IF m \in Devices THEN l.action ELSE "blocked"]
         IN  pend' = IF Suppressed(e) THEN pend
                     ELSE [pend EXCEPT !["sni"] = Row(e, "sni", 0)]
    /\ UNCHANGED <<tables, hosts, work, log, cache, dnsCache, primed,
                   cursor, lines, reach, tail, done, crashes, faults>>

\* The INSERT, under the next id; an error is only logged.
insertEntry(w) ==
    /\ pend[w] # Nothing
    /\ \/ log' = Append(log, pend[w]) /\ NoFault
       \/ Fault /\ UNCHANGED log
    /\ pend' = [pend EXCEPT ![w] = Nothing]
    /\ done' = IF w \in Tails THEN Dealt(w, pend[w].line) ELSE done
    /\ UNCHANGED <<tables, hosts, work, cache, dnsCache, primed, cursor, lines,
                   reach, tail, crashes>>

MutSaveLineBefore(t, ok) ==
    cursor' = IF ok /\ t \in Journalled /\ tail[t].last > 0
                THEN [cursor EXCEPT ![t] = tail[t].last - 1] ELSE cursor

\* setCursor(t), if the statement succeeds; an error is only logged.
setCursor(t, ok) ==
    cursor' = IF ok /\ t \in Journalled /\ tail[t].last > 0
                THEN [cursor EXCEPT ![t] = tail[t].last] ELSE cursor

MutSaveBeforeInsert(t) == t \in Journalled /\ tail[t].last \notin {0, cursor[t]}

\* A line has been parsed and inserted since the last time.
Savable(t) ==
    t \in Journalled /\ tail[t].last \notin {0, cursor[t]} /\ pend[t] = Nothing

\* Between two lines of a journal, when five seconds have passed since the
\* last time.
SaveCursor(t) ==
    /\ tail[t].up /\ Savable(t)
    /\ \E ok \in BOOLEAN : setCursor(t, ok) /\ IF ok THEN NoFault ELSE Fault
    /\ UNCHANGED <<tables, hosts, work, log, cache, dnsCache, primed, lines,
                   reach, tail, pend, done, crashes>>

\* journalctl or tail has ended: the last cursor is saved before it is
\* started again.
StreamEnd(t) ==
    /\ tail[t].up /\ pend[t] = Nothing /\ Event
    /\ \E ok \in BOOLEAN : /\ setCursor(t, ok)
                           /\ faults' = IF ok THEN faults ELSE faults + 1
    /\ tail' = [tail EXCEPT ![t] = Idle]
    /\ UNCHANGED <<tables, hosts, work, log, cache, dnsCache, primed, lines,
                   reach, pend, done, crashes>>

-----------------------------------------------------------------------------
(* The caches: a query, and later a swap under the cache's mutex.          *)

Views == [ignore |-> [macs |-> ignored, ips |-> {ip[m] : m \in ignored}],
          mute   |-> muted,
          allow  |-> allowed]

At(r, jobs) == todo[r] # <<>> /\ Head(todo[r]) \in jobs
Drop(r) == todo' = [todo EXCEPT ![r] = Tail(@)]

\* RefreshIgnoreCache, RefreshMuteCache and RefreshAllowCache.
Query(r) ==
    /\ At(r, Caches) /\ got[r] = Nothing
    /\ got' = [got EXCEPT ![r] = Views[Head(todo[r])]]
    /\ UNCHANGED <<tables, hosts, came, todo, target, tailing, counts, log, cache,
                   dnsCache, primed>>

\* The loop's first round is StartTailing's.
Swap(r) ==
    /\ At(r, Caches) /\ got[r] # Nothing
    /\ cache' = [cache EXCEPT ![Head(todo[r])] = got[r]]
    /\ got' = [got EXCEPT ![r] = Nothing] /\ Drop(r)
    /\ primed' = (primed \/ (r = Ticker /\ Len(todo[r]) = 1))
    /\ UNCHANGED <<tables, hosts, came, target, tailing, counts, log, dnsCache>>

\* A query that fails leaves the cache as it was.
QueryFails(r) ==
    /\ At(r, Caches) /\ got[r] = Nothing /\ Fault
    /\ Drop(r)
    /\ primed' = (primed \/ (r = Ticker /\ Len(todo[r]) = 1))
    /\ UNCHANGED <<tables, hosts, came, got, target, tailing, crashes, log, cache,
                   dnsCache>>

refreshCachesLoop ==
    /\ primed /\ todo[Ticker] = <<>>
    /\ todo' = [todo EXCEPT ![Ticker] = Refresh]
    /\ UNCHANGED <<tables, hosts, came, got, target, tailing, counts, log, cache,
                   dnsCache, primed>>

-----------------------------------------------------------------------------
(* The requests.                                                           *)

\* The first statement of a handler, and what follows it.
Serve(jobs, t) ==
    /\ Event /\ primed
    /\ came' = came + 1
    /\ todo' = [todo EXCEPT ![came'] = jobs]
    /\ target' = [target EXCEPT ![came'] = t]
    /\ UNCHANGED <<hosts, got, tailing, crashes, faults, cache, dnsCache, primed>>

\* Devices.Update: set the flag; if it is on, look up the address and wipe;
\* refresh the cache.
UpdateDevice(m, on) ==
    /\ ignored' = IF ip[m] = NoIP THEN ignored
                  ELSE IF on THEN ignored \cup {m} ELSE ignored \ {m}
    /\ Serve(IF on THEN <<"lookup", "wipe", "ignore">> ELSE <<"ignore">>,
             [mac |-> m, ip |-> NoIP])
    /\ UNCHANGED <<ip, muted, allowed, log>>

\* Devices.Delete looks the address up first, and leaves the cache to the
\* loop.
DeleteDevice(m) ==
    /\ Serve(<<"delete", "wipe">>, [mac |-> m, ip |-> ip[m]])
    /\ UNCHANGED <<tables, log>>

AddMuted(n) ==
    /\ muted' = muted \cup {n}
    /\ Serve(<<"mute">>, Nothing)
    /\ UNCHANGED <<ip, ignored, allowed, log>>

RemoveMuted(n) ==
    /\ muted' = muted \ {n}
    /\ Serve(<<"mute">>, Nothing)
    /\ UNCHANGED <<ip, ignored, allowed, log>>

\* A filter or a domain of it is switched; the log's cache is left to the
\* loop.
SwitchDomain(n) ==
    /\ allowed' = IF n \in allowed THEN allowed \ {n} ELSE allowed \cup {n}
    /\ Serve(<<>>, Nothing)
    /\ UNCHANGED <<ip, ignored, muted, log>>

Clear ==
    /\ log' = <<>>
    /\ Serve(<<>>, Nothing)
    /\ UNCHANGED tables

Request ==
    \/ \E m \in Devices, on \in BOOLEAN : UpdateDevice(m, on)
    \/ \E m \in Devices : DeleteDevice(m)
    \/ \E n \in Patterns : AddMuted(n) \/ RemoveMuted(n) \/ SwitchDomain(n)
    \/ Clear

DeviceIPByMAC(r) ==
    /\ At(r, {"lookup"})
    /\ target' = [target EXCEPT ![r].ip = ip[target[r].mac]]
    /\ Drop(r)
    /\ UNCHANGED <<tables, hosts, came, got, tailing, counts, log, cache, dnsCache,
                   primed>>

\* No row, no wipe.
DeleteRow(r) ==
    /\ At(r, {"delete"})
    /\ LET m == target[r].mac
       IN  IF ip[m] = NoIP
             THEN todo' = [todo EXCEPT ![r] = <<>>] /\ UNCHANGED <<ip, ignored>>
             ELSE /\ Drop(r) /\ ip' = [ip EXCEPT ![m] = NoIP]
                  /\ ignored' = ignored \ {m}
    /\ UNCHANGED <<muted, allowed, hosts, came, got, target, tailing, counts, log,
                   cache, dnsCache, primed>>

\* The ids of the rows there are; a DELETE of all but some of them.
Stored == {i \in DOMAIN log : log[i] # Nothing}
Keep(ids) == log' = [i \in DOMAIN log |-> IF i \in ids THEN log[i] ELSE Nothing]

\* Rows with the device's MAC or its address; an error is only logged.
WipeForDevice(r) ==
    /\ At(r, {"wipe"})
    /\ \/ LET Kept(row) == row.event.mac # target[r].mac
                           /\ row.event.ip # target[r].ip
          IN  Keep({i \in Stored : Kept(log[i])}) /\ NoFault
       \/ Fault /\ UNCHANGED log
    /\ Drop(r)
    /\ UNCHANGED <<tables, hosts, came, got, target, tailing, crashes, cache,
                   dnsCache, primed>>

\* Rows older than the retention time go.
cleanOldEntries ==
    /\ \E k \in Stored : Keep({i \in Stored : i > k})
    /\ UNCHANGED <<tables, hosts, work, tailing, counts, cache, dnsCache, primed>>

-----------------------------------------------------------------------------
(* Reading the log, a page at a time.                                      *)

\* DNS sinkholes count as blocked.
Selected(row, action) ==
    \/ action = "all"
    \/ action = "blocked" /\ row.event.action \in {"blocked", "sinkholed"}
    \/ row.event.action = action

MutOffset(page, per) == page * per
Offset(page, per) == (page - 1) * per

\* The ids of the rows that match, newest first, cut into pages; a page out
\* of range is brought into it.  Ids grow, so newest first is by id.
QueryPaginated(action, page, perPage) ==
    LET match == {i \in Stored : Selected(log[i], action)}
        newer(i) == Cardinality({j \in match : j > i})
        per   == IF perPage \in 1 .. 500 THEN perPage ELSE 50
        pages == Max({(Cardinality(match) + per - 1) \div per, 1})
        shown == Min({Max({page, 1}), pages})
        from  == Offset(shown, per)
    IN  [entries |-> {i \in match : newer(i) \in from .. from + per - 1},
         pages |-> pages, page |-> shown, perPage |-> per]

-----------------------------------------------------------------------------
(* Addresses, the scanner and the crash.                                   *)

\* dnsmasq leases a to m: no address to two devices, and the device may keep
\* older leases.  A lease granted later does not expire earlier.
Lease(m, a) ==
    /\ Event /\ \A l \in leases : l.ip = a => l.mac = m
    /\ \E x \in {events, events + 1} :
         leases' = {l \in leases : l.ip # a} \cup {[expiry |-> x, mac |-> m, ip |-> a]}
    /\ UNCHANGED <<tables, work, tailing, log, cache, dnsCache, primed, arp, found,
                   crashes, faults>>

Expire(l) ==
    /\ Event /\ leases' = leases \ {l}
    /\ UNCHANGED <<tables, work, tailing, log, cache, dnsCache, primed, arp, found,
                   crashes, faults>>

\* The kernel hears from the device at a, or forgets it.
Neighbour(a) ==
    /\ Event
    /\ \E m \in {l.mac : l \in {k \in leases : k.ip = a}} \cup {NoMAC} :
         arp' = [arp EXCEPT ![a] = m]
    /\ UNCHANGED <<tables, work, tailing, log, cache, dnsCache, primed, leases, found,
                   crashes, faults>>

\* scan reads the lease file, in whatever order dnsmasq has written it, or
\* finds that it cannot, and the ARP table.
scan ==
    /\ Event /\ \A m \in Devices : found[m] = NoIP
    /\ \E file \in SetToSeqs(leases) \cup {<<>>} : found' \in mergeARP(mergeLeases(file), arp)
    /\ UNCHANGED <<tables, work, tailing, log, cache, dnsCache, primed, leases, arp,
                   crashes, faults>>

\* The devices follow one by one, in the order of a Go map; an error is only
\* logged.
upsertDevice(m) ==
    /\ found[m] # NoIP
    /\ \/ ip' = [ip EXCEPT ![m] = found[m]] /\ NoFault
       \/ Fault /\ UNCHANGED ip
    /\ found' = [found EXCEPT ![m] = NoIP]
    /\ UNCHANGED <<ignored, muted, allowed, work, tailing, log, cache, dnsCache,
                   primed, leases, arp, crashes>>

\* The daemon is gone, and is started again: tables and cursors stay.
Restart ==
    /\ Event /\ crashes' = crashes + 1
    /\ cache' = EmptyCache /\ dnsCache' = {} /\ primed' = FALSE
    /\ todo' = [r \in Actors |-> IF r = Ticker THEN Refresh ELSE <<>>]
    /\ got' = [r \in Actors |-> Nothing]
    /\ tail' = [t \in Tails |-> Idle] /\ pend' = [w \in Writers |-> Nothing]
    /\ found' = [m \in Devices |-> NoIP]
    /\ UNCHANGED <<tables, leases, came, target, cursor, lines, aged, missed, done,
                   log, faults>>

\* It has died alone,
Crash == Restart /\ UNCHANGED <<arp, prior>>

\* or with the Pi, and journalctl -k will not show what the kernel has
\* written until now.
Reboot ==
    /\ Restart
    /\ arp' = [a \in IPs |-> NoMAC]
    /\ prior' = [t \in Tails |-> IF t = "kernel" THEN Len(lines[t]) ELSE prior[t]]

Work(r) ==
    \/ Query(r) \/ QueryFails(r) \/ Swap(r)
    \/ DeviceIPByMAC(r) \/ DeleteRow(r) \/ WipeForDevice(r)

\* What moves a tail on.
Follow(t) == Open(t) \/ ReadLine(t) \/ insertEntry(t)

Next ==
    \/ \E l \in Lines : Write(l) \/ LogSNIEvent(l)
    \/ \E t \in Tails : Age(t) \/ Follow(t) \/ SaveCursor(t) \/ StreamEnd(t)
    \/ insertEntry("sni")
    \/ \E r \in Actors : Work(r)
    \/ refreshCachesLoop \/ Request \/ cleanOldEntries
    \/ \E m \in Devices, a \in IPs : Lease(m, a)
    \/ \E l \in leases : Expire(l)
    \/ \E a \in IPs : Neighbour(a)
    \/ scan
    \/ \E m \in Devices : upsertDevice(m)
    \/ Crash \/ Reboot

Spec == Init /\ [][Next]_vars

\* Goroutines run, statements return, the 30 s ticker ticks and a tail that
\* has ended is started again after two seconds.
Fairness ==
    /\ \A r \in Actors : WF_vars(Work(r))
    /\ \A t \in Tails : WF_vars(Follow(t))
    /\ WF_vars(refreshCachesLoop)

FairSpec == Spec /\ Fairness

-----------------------------------------------------------------------------
TypeOK ==
    /\ ip \in [Devices -> IPs \cup {NoIP}] /\ ignored \subseteq Devices
    /\ muted \subseteq Names /\ allowed \subseteq Names /\ dnsCache \subseteq Names
    /\ cursor \in [Tails -> Nat]
    /\ log \in Seq(Rows \cup {Nothing})
    /\ found \in [Devices -> IPs \cup {NoIP}]
    /\ todo \in [Actors -> Seq(Jobs)]
    /\ \A t \in Tails : /\ lines[t] \in Seq(LineSpace)
                        /\ done[t] \in Seq(Nat) /\ Len(done[t]) = Len(lines[t])
                        /\ tail[t].last <= tail[t].pos /\ tail[t].pos <= Len(lines[t])
                        /\ cursor[t] <= Len(lines[t])
                        /\ missed[t] \subseteq 1 .. Len(lines[t])
    /\ pend \in [Writers -> Rows \cup {Nothing}]

\* Line i of t has been dealt with, or could not be seen any more.
Past(t, i) == done[t][i] > 0 \/ i \in missed[t]

\* A line of the journal at or before the saved cursor has been dealt with,
\* unless journalctl did not show it: the cursor runs ahead of no INSERT, and
\* a tail skips nothing by itself.
NoGaps ==
    \A t \in Journalled : \A i \in 1 .. cursor[t] : Past(t, i)

\* Reading the journals is at-least-once delivery, through crashes, reboots,
\* restarts and failing statements, of every line but two kinds: those of an
\* earlier boot, which journalctl -k leaves out, and those of more than a day
\* ago when there is no cursor or it cannot be read.
Journal == INSTANCE Delivery WITH
    Streams   <- Journalled,
    written   <- [t \in Journalled |-> Len(lines[t])],
    delivered <- [t \in Journalled |-> {i \in 1 .. Len(lines[t]) : done[t][i] > 0}],
    acked     <- [t \in Journalled |-> cursor[t]],
    aged      <- [t \in Journalled |-> aged[t]],
    shut      <- [t \in Journalled |-> prior[t]],
    lost      <- [t \in Journalled |-> missed[t]],
    failures  <- faults

DeliversJournal == Journal!Spec

\* Only a crash or a failing statement makes a tail deal with a line again;
\* the restarts of journalctl and tail do not.
RepeatsExcused ==
    \A t \in Tails : \A i \in 1 .. Len(lines[t]) : done[t][i] <= 1 + crashes + faults

\* The address mergeLeases gives a device is one of its leases that expires
\* last, in whatever order dnsmasq has written the file.
NewestLease ==
    \A file \in SetToSeqs(leases), m \in Devices :
        LET mine == {l \in leases : l.mac = m}
            best == mergeLeases(file)[m]
        IN  IF mine = {} THEN best.ip = NoIP
            ELSE \E l \in mine : l.ip = best.ip /\ \A k \in mine : k.expiry <= l.expiry

\* The SNI proxy takes a client for the device dnsmasq has leased its
\* address to, on every lease of it and although the ARP table still names
\* the previous holder: a device is served its own policy from the first
\* packet, as long as the lease file can be read.
Recognised ==
    \A l \in leases : clientMAC(leases, arp, l.ip) = {l.mac}

\* Walking the pages of the traffic view shows every matching row once,
\* newest first, on pages of which only the last may be short, whatever the
\* page size; a page past the end is the last.
PagesCover ==
    \A action \in {"all", "blocked"}, per \in PageSizes :
        LET PageAt(p) == QueryPaginated(action, p, per)
            pages == PageAt(1).pages
        IN  /\ UNION {PageAt(p).entries : p \in 1 .. pages}
                 = {i \in Stored : Selected(log[i], action)}
            /\ \A p, q \in 1 .. pages : p < q =>
                 \A i \in PageAt(p).entries, j \in PageAt(q).entries : i > j
            /\ \A p \in 1 .. pages - 1 :
                 Cardinality(PageAt(p).entries) = PageAt(p).perPage
            /\ PageAt(pages + 1) = PageAt(pages)

\* Once requests stop, every cache is that of the tables for good, although
\* a slow refresh can overwrite a newer one.
CachesConverge == <>[](cache = Views)

\* Every line of the journal is dealt with in the end, unless a tail has
\* started without being shown it.
CaughtUp ==
    \A t \in Journalled : <>[](\A i \in 1 .. Len(lines[t]) : Past(t, i))
=============================================================================
