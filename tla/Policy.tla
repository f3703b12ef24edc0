------------------------------- MODULE Policy -------------------------------
(***************************************************************************)
(* What the daemon's tables mean: the pure half of firewall.go, dns.go,    *)
(* sniproxy.go, protected.go and bandwidth.go.                             *)
(*                                                                         *)
(* A database is a record of tables; a configuration is what a service's   *)
(* Apply renders from the views of the database it has read.  The text of  *)
(* the files is abstracted to the decisions nftables, dnsmasq, tc and      *)
(* hostapd take from it.                                                   *)
(***************************************************************************)
EXTENDS Integers, FiniteSets

CONSTANTS
    Devices,        \* MAC addresses
    IPs,            \* LAN addresses
    NoIP,           \* no row, hence no address
    Rules,          \* ids of firewall_rules rows, numbers
    RuleRows,       \* what an operator may put in a row
    NoRow,          \* the row does not exist
    SysFilters,     \* filters seeded by the migrations (is_system = 1)
    UserFilters,    \* filters an operator creates
    UDPPorts,       \* filter_udp_ports: the ports of each filter
    TCPPorts,       \* filter_tcp_ports
    Names,          \* DNS names
    Zones,          \* of each name, the names it equals or is a sub-domain of
    protectedDeny,  \* the floor of protected.go
    assistantExempt,
    spoofConnManHost

Filters == SysFilters \cup UserFilters
Status  == {"none", "blocked", "filtered", "open"}
Row     == {"none", "off", "on"}

\* Keys of the AP settings; a passphrase is "short" below eight characters.
APSettings == [pass : {"seed", "chosen", "short"}, country : {"00", "xx"}]
APDefaults == [pass |-> "seed", country |-> "00"]

Database ==
    [devices : [Devices -> Status],
     ip      : [Devices -> IPs \cup {NoIP}],
     rules   : [Rules -> RuleRows \cup {NoRow}],
     filters : [Filters -> Row],
     domains : [Filters -> [Names -> Row]],
     limits  : [Devices -> Row],
     ap      : APSettings]

NoPort == 0

\* A rule row: whether it is enabled, its priority and chain, the device,
\* protocol and port it matches ("any", NoPort: the column is empty), whether it
\* has an address or, as its destination, a host name, and its action.
RuleRow ==
    [enabled : BOOLEAN, prio : Int, direction : {"forward", "outbound"},
     device : Devices \cup {"any"}, protocol : {"all", "tcp", "udp"},
     port : Nat, dest : {"any", "address", "host"}, action : {"accept", "drop"}]

\* What nft can have loaded; see generateConfig.
Ruleset ==
    [rules : SUBSET (Rules \X RuleRows), redirect : SUBSET Devices,
     ports : SUBSET (Devices \X {"udp", "tcp"} \X Nat),
     open : SUBSET Devices, blocked : SUBSET Devices]

\* The names a name is below are suffixes of it, hence below one another.
ASSUME PolicyAssumption ==
    /\ Rules \subseteq Int /\ IsFiniteSet(Rules) /\ RuleRows \subseteq RuleRow
    /\ SysFilters \cap UserFilters = {}
    /\ UDPPorts \in [Filters -> SUBSET Nat]
    /\ TCPPorts \in [Filters -> SUBSET Nat]
    /\ \A f \in UserFilters : UDPPorts[f] = {} /\ TCPPorts[f] = {}
    /\ Zones \in [Names -> SUBSET Names] /\ \A n \in Names : n \in Zones[n]
    /\ \A n \in Names : \A a, b \in Zones[n] : a \in Zones[b] \/ b \in Zones[a]
    /\ protectedDeny \cup assistantExempt \cup {spoofConnManHost} \subseteq Names
    /\ NoIP \notin IPs /\ NoRow \notin RuleRows

-----------------------------------------------------------------------------
(* protected.go                                                            *)

\* n equals d or is a sub-domain of it.
Under(n, d) == d \in Zones[n]

Exempt == assistantExempt \cup {spoofConnManHost}

isProtectedDenied(n) ==
    n \notin Exempt /\ \E p \in protectedDeny : Under(n, p)

isProtectedAncestor(n) == \E p \in protectedDeny : p # n /\ Under(p, n)

-----------------------------------------------------------------------------
(* Views: what one SELECT of an Apply or of RefreshCache returns.          *)

MutLegacyColumn(d) ==
    [filtered |-> {m \in Devices : d.devices[m] = "filtered"},
     open     |-> {m \in Devices : d.devices[m] = "open"},
     blocked  |-> {}]

deviceSnapshot(d) ==
    [filtered |-> {m \in Devices : d.devices[m] = "filtered"},
     open     |-> {m \in Devices : d.devices[m] = "open"},
     blocked  |-> {m \in Devices : d.devices[m] = "blocked"}]

filterUDPPorts(d) == UNION {UDPPorts[f] : f \in {g \in Filters : d.filters[g] = "on"}}
filterTCPPorts(d) == UNION {TCPPorts[f] : f \in {g \in Filters : d.filters[g] = "on"}}

allowedDomains(d) ==
    {n \in Names : \E f \in Filters :
        d.filters[f] = "on" /\ d.domains[f][n] = "on"}

ListRules(d)  == {r \in Rules : d.rules[r] # NoRow}
rulesOf(d)    == [r \in ListRules(d) |-> d.rules[r]]
openMACs(d)   == deviceSnapshot(d).open
ListLimits(d) == {m \in Devices : d.limits[m] = "on"}

-----------------------------------------------------------------------------
(* firewall.go                                                             *)

\* The rules for which buildRuleLines emits a line (hosts that do not
\* resolve have been taken out of rules).
generateConfig(rules, snap, udp, tcp) ==
    [rules    |-> {<<r, rules[r]>> : r \in {q \in DOMAIN rules : rules[q].enabled}},
     redirect |-> snap.filtered,
     ports    |-> {<<m, "udp", p>> : m \in snap.filtered, p \in udp}
                  \cup {<<m, "tcp", p>> : m \in snap.filtered, p \in tcp},
     open     |-> snap.open,
     blocked  |-> snap.blocked]

\* nft -f takes a file as a whole or not at all.  Neither "tcp accept" nor
\* "tcp ip daddr X dport 22 accept" is a rule of its grammar: the port must
\* follow the protocol.
Loads(conf) ==
    \A e \in conf.rules :
        e[2].protocol # "all" => e[2].port # NoPort /\ e[2].dest = "any"

\* Does the first packet of a flow match the line buildRuleLines renders?  One
\* that has an address is taken to be the rule's.
Matches(row, p) ==
    /\ row.direction = "forward"
    /\ row.device \in {"any", p.src}
    /\ \/ row.protocol = "all"
       \/ row.protocol = p.protocol /\ row.port = p.port

\* ORDER BY priority ASC, id ASC.
Precedes(e, f) ==
    \/ e[2].prio < f[2].prio
    \/ e[2].prio = f[2].prio /\ e[1] < f[1]

\* The chains prerouting and forward on the first packet of a flow to an
\* address beyond the Pi.
Fate(conf, p) ==
    LET hits == {e \in conf.rules : Matches(e[2], p)}
    IN  IF p.src \in conf.redirect /\ p.protocol = "tcp" /\ p.port = 443
          THEN "proxy"
        ELSE IF p.src \in conf.redirect /\ p.port \in IF p.protocol = "tcp" THEN {53, 80} ELSE {53}
          THEN "pi"
        ELSE IF p.src \in conf.blocked THEN "drop"
        ELSE IF p.src \in conf.open THEN "accept"
        ELSE IF hits # {}
          THEN (CHOOSE e \in hits : \A f \in hits \ {e} : Precedes(e, f))[2].action
        ELSE IF <<p.src, p.protocol, p.port>> \in conf.ports THEN "accept"
        ELSE "drop"

MutPolicyOnly(nat, fwd, filtered) == fwd # "accept" /\ filtered # {}

\* The gate of SetEnabled, on what nft lists and the devices read before.
verifyOutput(nat, fwd, filtered) ==
    /\ fwd = "drop"
    /\ filtered # {}
    /\ filtered \subseteq nat

-----------------------------------------------------------------------------
(* dns.go, sniproxy.go, bandwidth.go                                       *)

buildDNSConfig(domains, open) ==
    [servers |-> {spoofConnManHost} \cup {n \in domains : ~isProtectedDenied(n)},
     open    |-> open]

\* server=/n/ forwards n and every name below it; the rest is sinkholed.
Resolves(conf, n) == \E s \in conf.servers : Under(n, s)

matchSNI(n, suffixes) == \E s \in suffixes : Under(n, s)

sniAllowed(n, suffixes) == ~isProtectedDenied(n) /\ matchSNI(n, suffixes)

\* handle: splice the connection of a device that asks for n.
Spliced(cache, m, n) == m \in cache.filtered /\ sniAllowed(n, cache.suffixes)

\* A limit binds to the address its device has; without one it is skipped.
shaped(active, ip) == {<<m, ip[m]>> : m \in {q \in active : ip[q] # NoIP}}

=============================================================================
