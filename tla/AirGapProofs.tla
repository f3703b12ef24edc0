---------------------------- MODULE AirGapProofs ----------------------------
(***************************************************************************)
(* Proofs about AirGap: whatever the order of requests, Applies, failures, *)
(* crashes and reboots, a policy with nothing outstanding is that of the   *)
(* tables, the forward chain treats each class of device as promised, the  *)
(* protected names stay sealed and the access point is raised only over a  *)
(* kernel with rules; for any devices, rules, filters, names and number of *)
(* events.                                                                 *)
(***************************************************************************)
EXTENDS AirGap, SequenceTheorems, FiniteSetTheorems, WellFoundedInduction, TLAPS

-----------------------------------------------------------------------------
(* The inductive invariant.                                                *)

\* What an actor can have left to do: ApplyAll, the Applies of a handler,
\* SetEnabled, the ticker's refresh, and what remains of each.
Plans ==
    {<<>>, ApplyAll, <<"dns", "bw", "ap">>, <<"bw", "ap">>, <<"fw", "dns">>,
     <<"dns", "fw">>, <<"fw", "verify">>, <<"fw">>, <<"dns">>, <<"bw">>, <<"ap">>,
     <<"raise">>, <<"lower">>, <<"verify">>, <<"sni">>}

Width(s) == IF s = "fw" THEN 4 ELSE IF s = "ap" THEN 1 ELSE 2

\* Who holds a service's mutex applies that service, or is in SetEnabled,
\* which may apply the firewall under the hotspot's mutex.
InApply(s) ==
    /\ todo[lock[s]] # <<>> /\ Head(todo[lock[s]]) = s
    /\ \/ phase[s] = "read" /\ Len(got[s]) \in 1 .. Width(s)
       \/ phase[s] = "written" /\ Len(got[s]) = Width(s)

InSwitch ==
    /\ phase["ap"] = "switch" /\ Len(got["ap"]) <= 3
    /\ todo[lock["ap"]] \in {<<"raise">>, <<"verify">>, <<"fw", "verify">>}

Locked(s) ==
    \/ lock[s] = Free /\ phase[s] = "idle" /\ got[s] = <<>>
    \/ lock[s] \in Actors /\ InApply(s)
    \/ lock[s] \in Actors /\ s = "ap" /\ InSwitch

\* g is a tuple of n values of any kind, as the views of a service are.
Tuple(g, n) == n \in Nat /\ g = [i \in 1 .. n |-> g[i]]

\* Requests not yet come have nothing to do, and only the ticker refreshes.
Running ==
    /\ todo \in [Actors -> Plans]
    /\ \A r \in Actors : "sni" \in Range(todo[r]) => r = Refresher
    /\ \A h \in Handlers : came < h => todo[h] = <<>>
    /\ lock \in [Services -> Actors \cup {Free}]
    /\ phase \in [Services -> {"idle", "read", "written", "switch"}]
    /\ DOMAIN got = Services
    /\ \A s \in Services : Tuple(got[s], Len(got[s])) /\ Len(got[s]) <= 4
    /\ \A s \in Services : Locked(s)

Stored ==
    /\ db \in Database /\ DOMAIN live = Services /\ DOMAIN file = OnDisk
    /\ stale \subseteq Services
    /\ came \in Nat /\ faults \in Nat /\ events \in Nat
    /\ came <= events /\ faults <= events /\ events <= MaxEvents

\* Nobody but r has still to apply s.
Alone(r, s) == \A q \in Actors \ {r} : s \notin Range(todo[q])

\* What the holder of s has read is what the tables say, unless somebody who
\* changed them since is waiting to apply s too.
ReadsHold(s) ==
    lock[s] \in Actors /\ phase[s] \in {"read", "written"} /\ Alone(lock[s], s)
        => \A i \in 1 .. Len(got[s]) : got[s][i] = Views(db, s)[i]

Outstanding(s) == \E r \in Actors : s \in Range(todo[r])

Current(s) == s \notin stale =>
    ReadsHold(s) /\ (~Outstanding(s) => live[s] = Gen(s, Views(db, s)))

Fresh == \A s \in Services : Current(s)

\* Only names that may be listed are in the tables, and so in what Apply has
\* read, in dnsmasq's file and in dnsmasq.
Safe(domains) == \A n \in domains : n \in Names /\ Listable(n)
SafeConf(c) == Safe(c.servers \ {spoofConnManHost})
Sealed ==
    /\ \A f \in Filters, n \in Names : db.domains[f][n] # "none" => Listable(n)
    /\ got["dns"] # <<>> => Safe(got["dns"][1])
    /\ file["dns"] # Torn => SafeConf(file["dns"])
    /\ live["dns"] # Down => SafeConf(live["dns"])

\* What Firewall.Apply has read makes a ruleset.
Tables    == UNION {[Q -> RuleRows] : Q \in SUBSET Rules}
Snapshots == [filtered : SUBSET Devices, open : SUBSET Devices, blocked : SUBSET Devices]
FwView(i) == IF i = 1 THEN Tables ELSE IF i = 2 THEN Snapshots ELSE SUBSET Nat
FwReads == \A i \in 1 .. Len(got["fw"]) : got["fw"][i] \in FwView(i)

\* A forward chain that Verify has seen is still there: nothing but a reboot,
\* which ends SetEnabled, takes the rules away.
Seen == Len(got["ap"]) = 3 /\ got["ap"][3] = "drop" => live["fw"] # NoRules

IInv == Running /\ Stored /\ Fresh /\ Sealed /\ FwReads /\ Seen

-----------------------------------------------------------------------------
(* Plans and tuples.                                                       *)

(* Every plan is a sequence of jobs, and what is left of one is a plan.    *)
LEMMA PlanFacts ==
    ASSUME NEW q \in Plans
    PROVE  /\ q \in Seq(Jobs)
           /\ q # <<>> => /\ Head(q) \in Jobs /\ Tail(q) \in Plans
                          /\ Tail(q) = <<"verify">> => q = <<"fw", "verify">>
                          /\ Tail(q) \in Seq(Services) \/ Tail(q) = <<"verify">>
                          /\ Head(q) \in {"raise", "lower", "verify"} => q = <<Head(q)>>
<1>1. \/ q = <<>> \/ q = <<"fw", "dns", "bw", "ap">> \/ q = <<"dns", "bw", "ap">>
      \/ q \in {<<"bw", "ap">>, <<"fw", "dns">>, <<"dns", "fw">>, <<"fw", "verify">>}
      \/ q \in {<<"fw">>, <<"dns">>, <<"bw">>, <<"ap">>, <<"raise">>, <<"lower">>,
               <<"verify">>, <<"sni">>}
  BY DEF Plans, ApplyAll
<1>2. CASE q = <<>>
  BY <1>2
<1>3. CASE q = <<"fw", "dns", "bw", "ap">>
  <2>1. Head(q) = "fw" /\ Tail(q) = <<"dns", "bw", "ap">> /\ q \in Seq(Jobs)
    BY <1>3 DEF Jobs, Services
  <2>2. <<"dns", "bw", "ap">> \in Seq(Services)
    BY DEF Services
  <2>3. <<"dns", "bw", "ap">> \in Plans /\ <<"dns", "bw", "ap">> # <<"verify">>
    BY DEF Plans
  <2>4. Head(q) \in Jobs /\ Head(q) \notin {"raise", "lower", "verify"}
    BY <2>1 DEF Jobs, Services
  <2> QED BY <2>1, <2>2, <2>3, <2>4, Zenon
<1>4. CASE q = <<"dns", "bw", "ap">>
  <2>1. Head(q) = "dns" /\ Tail(q) = <<"bw", "ap">> /\ q \in Seq(Jobs)
    BY <1>4 DEF Jobs, Services
  <2>2. <<"bw", "ap">> \in Seq(Services)
    BY DEF Services
  <2>3. <<"bw", "ap">> \in Plans /\ <<"bw", "ap">> # <<"verify">>
    BY DEF Plans
  <2>4. Head(q) \in Jobs /\ Head(q) \notin {"raise", "lower", "verify"}
    BY <2>1 DEF Jobs, Services
  <2> QED BY <2>1, <2>2, <2>3, <2>4, Zenon
<1>5. CASE q \in {<<"bw", "ap">>, <<"fw", "dns">>, <<"dns", "fw">>, <<"fw", "verify">>}
  <2>1. PICK x \in Services, y \in {"ap", "dns", "fw", "verify"} :
          q = <<x, y>> /\ (y = "verify" => x = "fw")
    BY <1>5 DEF Services
  <2>2. Head(q) = x /\ Tail(q) = <<y>> /\ q \in Seq(Jobs)
    BY <2>1 DEF Jobs, Services
  <2>3. <<y>> \in Plans /\ (<<y>> = <<"verify">> => y = "verify")
    BY <2>1 DEF Plans
  <2>4. <<y>> \in Seq(Services) \/ <<y>> = <<"verify">>
    BY DEF Services
  <2> QED BY <2>1, <2>2, <2>3, <2>4 DEF Jobs, Services
<1>6. CASE q \in {<<"fw">>, <<"dns">>, <<"bw">>, <<"ap">>, <<"raise">>, <<"lower">>,
                  <<"verify">>, <<"sni">>}
  <2>1. PICK x \in Jobs : q = <<x>>
    BY <1>6 DEF Jobs, Services
  <2>2. Head(q) = x /\ Tail(q) = <<>> /\ q \in Seq(Jobs) /\ <<>> # <<"verify">>
        /\ <<>> \in Seq(Services)
    BY <2>1
  <2> QED BY <2>1, <2>2 DEF Plans
<1> QED BY <1>1, <1>2, <1>3, <1>4, <1>5, <1>6

(* What is to be done is the head and what is left.                        *)
LEMMA RangeSplit ==
    ASSUME NEW S, NEW q \in Seq(S), q # <<>>
    PROVE  Range(q) = {Head(q)} \cup Range(Tail(q))
<1>1. /\ Tail(q) \in Seq(S) /\ Len(Tail(q)) = Len(q) - 1 /\ Len(q) \in Nat \ {0}
      /\ Head(q) = q[1]
      /\ \A i \in 1 .. Len(Tail(q)) : Tail(q)[i] = q[i + 1]
  BY HeadTailProperties, EmptySeq, LenProperties
<1>2. DOMAIN q = 1 .. Len(q) /\ DOMAIN Tail(q) = 1 .. (Len(q) - 1)
  BY <1>1, LenProperties
<1>3. ASSUME NEW x \in Range(q) PROVE x = Head(q) \/ x \in Range(Tail(q))
  <2>1. PICK i \in 1 .. Len(q) : q[i] = x
    BY <1>2 DEF Range
  <2>2. CASE i = 1
    BY <2>1, <2>2, <1>1
  <2>3. CASE i # 1
    <3>1. i - 1 \in 1 .. (Len(q) - 1) /\ Tail(q)[i - 1] = x
      BY <1>1, <2>1, <2>3
    <3> QED BY <3>1, <1>2 DEF Range
  <2> QED BY <2>2, <2>3
<1>4. ASSUME NEW x \in Range(Tail(q)) PROVE x \in Range(q)
  <2>1. PICK i \in 1 .. (Len(q) - 1) : Tail(q)[i] = x
    BY <1>2 DEF Range
  <2>2. i + 1 \in DOMAIN q /\ q[i + 1] = x
    BY <1>1, <1>2, <2>1
  <2> QED BY <2>2 DEF Range
<1>5. Head(q) \in Range(q)
  BY <1>1, <1>2 DEF Range
<1> QED BY <1>3, <1>4, <1>5

(* The plans that occur, and what they apply.                              *)
LEMMA PlanRange ==
    ASSUME NEW q \in Plans
    PROVE  /\ q = <<>> => Range(q) = {}
           /\ q # <<>> => Range(q) = {Head(q)} \cup Range(Tail(q))
           /\ Range(q) \subseteq Jobs
           /\ q # <<>> /\ Tail(q) # <<"verify">> => Range(Tail(q)) \subseteq Services
<1>1. Range(<<>>) = {}
  BY DEF Range
<1>2. q # <<>> => Range(q) = {Head(q)} \cup Range(Tail(q))
  BY PlanFacts, RangeSplit
<1>3. Range(q) \subseteq Jobs
  BY PlanFacts, LenProperties DEF Range
<1>4. ASSUME NEW p \in Seq(Services) PROVE Range(p) \subseteq Services
  BY LenProperties DEF Range
<1>5. q # <<>> /\ Tail(q) # <<"verify">> => Range(Tail(q)) \subseteq Services
  BY PlanFacts, <1>4
<1> QED BY <1>1, <1>2, <1>3, <1>5

(* The plans that are installed as a whole.                                *)
LEMMA RangeOf ==
    /\ Range(<<>>) = {} /\ Range(ApplyAll) = {"fw", "dns", "bw", "ap"}
    /\ \A x : Range(<<x>>) = {x}
    /\ \A x, y : Range(<<x, y>>) = {x, y}
<1>1. Range(<<>>) = {}
  BY DEF Range
<1>2. ASSUME NEW x PROVE Range(<<x>>) = {x}
  BY DEF Range
<1>3. ASSUME NEW x, NEW y PROVE Range(<<x, y>>) = {x, y}
  <2>1. DOMAIN <<x, y>> = {1, 2} /\ <<x, y>>[1] = x /\ <<x, y>>[2] = y
    OBVIOUS
  <2> QED BY <2>1 DEF Range
<1>4. Range(ApplyAll) = {"fw", "dns", "bw", "ap"}
  <2>1. /\ DOMAIN ApplyAll = {1, 2, 3, 4} /\ ApplyAll[1] = "fw" /\ ApplyAll[2] = "dns"
        /\ ApplyAll[3] = "bw" /\ ApplyAll[4] = "ap"
    BY DEF ApplyAll
  <2> QED BY <2>1 DEF Range
<1> QED BY <1>1, <1>2, <1>3, <1>4

(* Its length.                                                             *)
LEMMA TupleLen ==
    ASSUME NEW g, NEW n, Tuple(g, n)
    PROVE  Len(g) = n
<1> DEFINE S == {g[i] : i \in 1 .. n}
<1>1. g \in Seq(S)
  BY DEF Tuple
<1>2. DOMAIN g = 1 .. n
  BY DEF Tuple
<1> QED BY <1>1, <1>2, LenProperties DEF Tuple

(* Every sequence is such a tuple.                                         *)
LEMMA SeqTuple ==
    ASSUME NEW S, NEW g \in Seq(S)
    PROVE  Tuple(g, Len(g))
<1>1. Len(g) \in Nat /\ g \in [1 .. Len(g) -> S]
  BY LenProperties
<1>2. PICK m \in Nat : m = Len(g) /\ g \in [1 .. m -> S]
  BY <1>1
<1>3. g = [i \in 1 .. m |-> g[i]]
  BY <1>2
<1> QED BY <1>2, <1>3 DEF Tuple

\* h is g with v at its end.
Extends(h, g, n, v) ==
    Tuple(h, n + 1) /\ h[n + 1] = v /\ \A i \in 1 .. n : h[i] = g[i]

(* One more value at its end.                                              *)
LEMMA TupleAppend ==
    ASSUME NEW g, NEW n, Tuple(g, n), NEW v
    PROVE  Extends(Append(g, v), g, n, v)
<1> DEFINE S == {g[i] : i \in 1 .. n} \cup {v}
<1>1. g \in Seq(S) /\ v \in S /\ n \in Nat
  BY DEF Tuple
<1>2. Len(g) = n
  BY TupleLen
<1>3. /\ Append(g, v) \in Seq(S) /\ Len(Append(g, v)) = n + 1
      /\ Append(g, v)[n + 1] = v /\ \A i \in 1 .. n : Append(g, v)[i] = g[i]
  <2> HIDE DEF S
  <2> QED BY <1>1, <1>2, AppendProperties
<1>4. Tuple(Append(g, v), n + 1)
  <2> HIDE DEF S
  <2> QED BY <1>3, SeqTuple
<1> QED BY <1>3, <1>4 DEF Extends

(* The empty tuple has length 0, and no other has.                         *)
LEMMA TupleEmpty ==
    /\ Tuple(<<>>, 0) /\ Len(<<>>) = 0
    /\ \A g, n : Tuple(g, n) => (g = <<>> <=> n = 0)
<1>1. Tuple(<<>>, 0) /\ Len(<<>>) = 0
  BY DEF Tuple
<1>2. ASSUME NEW g, NEW n, Tuple(g, n) PROVE g = <<>> <=> n = 0
  <2>1. g = <<>> => n = 0
    BY <1>1, <1>2, TupleLen
  <2>2. n = 0 => g = <<>>
    BY <1>2 DEF Tuple
  <2> QED BY <2>1, <2>2
<1> QED BY <1>1, <1>2

-----------------------------------------------------------------------------
(* Views and what is made of them.                                         *)

(* How many queries each service asks.                                     *)
LEMMA ViewsLen ==
    ASSUME NEW d, NEW s \in Services
    PROVE  Len(Views(d, s)) = Width(s) /\ Width(s) \in 1 .. 4
<1>1. s = "fw" => Views(d, s) = <<rulesOf(d), deviceSnapshot(d), filterUDPPorts(d),
                                  filterTCPPorts(d)>>
  BY DEF Views
<1>2. s = "dns" => Views(d, s) = <<allowedDomains(d), openMACs(d)>>
  BY DEF Views
<1>3. s = "bw" => Views(d, s) = <<ListLimits(d), d.ip>>
  BY DEF Views
<1>4. s = "ap" => Views(d, s) = <<d.ap>>
  BY DEF Views
<1>5. s = "sni" => Views(d, s) = <<allowedDomains(d), deviceSnapshot(d).filtered>>
  BY DEF Views
<1> QED BY <1>1, <1>2, <1>3, <1>4, <1>5 DEF Services, Width

(* A configuration is a function of the views.                             *)
LEMMA GenOfViews ==
    ASSUME NEW s \in Services, NEW v, NEW w, \A i \in 1 .. Width(s) : v[i] = w[i]
    PROVE  Gen(s, v) = Gen(s, w)
<1>1. CASE s = "fw"
  <2>1. v[1] = w[1] /\ v[2] = w[2] /\ v[3] = w[3] /\ v[4] = w[4]
    BY <1>1 DEF Width
  <2> QED BY <1>1, <2>1 DEF Gen
<1>2. CASE s = "ap"
  <2>1. v[1] = w[1]
    BY <1>2 DEF Width
  <2> QED BY <1>2, <2>1 DEF Gen
<1>3. CASE s \in {"dns", "bw", "sni"}
  <2>1. v[1] = w[1] /\ v[2] = w[2]
    BY <1>3 DEF Width
  <2> QED BY <1>3, <2>1 DEF Gen
<1> QED BY <1>1, <1>2, <1>3 DEF Services

(* The views of Firewall.Apply have the types its ruleset is built from.   *)
LEMMA FwViewTypes ==
    ASSUME NEW d \in Database, NEW i \in 1 .. 4
    PROVE  Views(d, "fw")[i] \in FwView(i)
<1>1. Views(d, "fw") = <<rulesOf(d), deviceSnapshot(d), filterUDPPorts(d),
                         filterTCPPorts(d)>>
  BY DEF Views
<1>2. rulesOf(d) \in Tables
  <2>1. d.rules \in [Rules -> RuleRows \cup {NoRow}]
    BY DEF Database
  <2>2. ListRules(d) \in SUBSET Rules
    BY DEF ListRules
  <2>3. rulesOf(d) \in [ListRules(d) -> RuleRows]
    BY <2>1 DEF rulesOf, ListRules
  <2> QED BY <2>2, <2>3 DEF Tables
<1>3. deviceSnapshot(d) \in Snapshots
  BY DEF deviceSnapshot, Snapshots
<1>4. filterUDPPorts(d) \subseteq Nat
  BY PolicyAssumption DEF filterUDPPorts
<1>5. filterTCPPorts(d) \subseteq Nat
  BY PolicyAssumption DEF filterTCPPorts
<1> QED BY <1>1, <1>2, <1>3, <1>4, <1>5 DEF FwView

(* So have the answers the code makes do with.                             *)
LEMMA FwFallbackTypes ==
    ASSUME db \in Database, NEW i \in 1 .. 4, NEW v \in Fallback("fw", i)
    PROVE  v \in FwView(i)
<1>1. CASE i = 1
  <2> DEFINE Q == {p \in ListRules(db) : db.rules[p].dest # "host"}
  <2>1. v = [q \in Q |-> db.rules[q]]
    BY <1>1 DEF Fallback
  <2>2. Q \in SUBSET Rules /\ \A q \in Q : db.rules[q] \in RuleRows
    BY DEF Database, ListRules
  <2>3. v \in [Q -> RuleRows]
    BY <2>1, <2>2
  <2> QED BY <1>1, <2>2, <2>3 DEF FwView, Tables
<1>2. CASE i \in {3, 4}
  BY <1>2 DEF Fallback, FwView
<1>3. CASE i = 2
  BY <1>3 DEF Fallback
<1> QED BY <1>1, <1>2, <1>3

(* What nft loads is a ruleset.                                            *)
LEMMA GenIsRuleset ==
    ASSUME NEW v, \A i \in 1 .. 4 : v[i] \in FwView(i)
    PROVE  Gen("fw", v) \in Ruleset /\ Gen("fw", v) # NoRules
<1>1. v[1] \in Tables /\ v[2] \in Snapshots /\ v[3] \subseteq Nat /\ v[4] \subseteq Nat
  BY DEF FwView
<1>2. Gen("fw", v) = generateConfig(v[1], v[2], v[3], v[4])
  BY DEF Gen
<1>3. PICK t \in Tables, n \in Snapshots, u \in SUBSET Nat, c \in SUBSET Nat :
        Gen("fw", v) = generateConfig(t, n, u, c)
  BY <1>1, <1>2
<1>4. n.filtered \subseteq Devices /\ n.open \subseteq Devices /\ n.blocked \subseteq Devices
  BY DEF Snapshots
<1>5. {<<r, t[r]>> : r \in {q \in DOMAIN t : t[q].enabled}} \subseteq Rules \X RuleRows
  <2>1. PICK Q \in SUBSET Rules : t \in [Q -> RuleRows]
    BY DEF Tables
  <2> QED BY <2>1
<1>6. {<<m, "udp", p>> : m \in n.filtered, p \in u} \subseteq Devices \X {"udp", "tcp"} \X Nat
  BY <1>4
<1>7. {<<m, "tcp", p>> : m \in n.filtered, p \in c} \subseteq Devices \X {"udp", "tcp"} \X Nat
  BY <1>4
<1>8. generateConfig(t, n, u, c) \in Ruleset
  BY <1>4, <1>5, <1>6, <1>7 DEF generateConfig, Ruleset
<1> QED BY <1>3, <1>8, AirGapAssumption

(* The floor: a name below a protected one is not below a listable one,    *)
(* for two names another is below are below one another.                   *)
LEMMA FloorHolds ==
    ASSUME NEW conf, SafeConf(conf), NEW n \in Names, isProtectedDenied(n),
           ~(\E e \in Exempt : Under(n, e))
    PROVE  ~Resolves(conf, n)
<1> SUFFICES ASSUME NEW s \in conf.servers, s \in Zones[n] PROVE FALSE
  BY DEF Resolves, Under
<1>1. s # spoofConnManHost
  BY DEF Exempt, Under
<1>2. s \in Names /\ ~isProtectedDenied(s) /\ ~isProtectedAncestor(s)
  BY <1>1 DEF SafeConf, Safe, Listable
<1>3. PICK p \in protectedDeny : p \in Zones[n]
  BY DEF isProtectedDenied, Under
<1>4. s \notin Exempt
  BY DEF Under
<1>5. p \in Zones[s] \/ s \in Zones[p]
  BY <1>3, PolicyAssumption
<1>6. p \notin Zones[s]
  BY <1>2, <1>4, <1>3 DEF isProtectedDenied, Under
<1>7. p # s
  BY <1>2, <1>6, PolicyAssumption
<1> QED BY <1>2, <1>3, <1>5, <1>6, <1>7 DEF isProtectedAncestor, Under

(* dnsmasq is given safe names when Apply has read them.                   *)
LEMMA SafeGen ==
    ASSUME NEW v, Safe(v[1])
    PROVE  SafeConf(Gen("dns", v))
<1>1. Gen("dns", v) = buildDNSConfig(v[1], v[2])
  BY DEF Gen
<1> QED BY <1>1 DEF buildDNSConfig, SafeConf, Safe

-----------------------------------------------------------------------------
(* The forward chain.                                                      *)

(* A nonempty set of naturals has a least element.                         *)
LEMMA LeastNat ==
    ASSUME NEW S \in SUBSET Nat, S # {}
    PROVE  \E x \in S : \A y \in S : x <= y
<1>1. PICK R : IsWellFoundedOn(R, Nat) /\ \A x, y \in Nat : y < x => <<y, x>> \in R
  <2> DEFINE L == OpToRel(<, Nat)
  <2>1. IsWellFoundedOn(L, Nat)
    BY NatLessThanWellFounded, Zenon
  <2>2. \A x, y \in Nat : y < x => <<y, x>> \in L
    BY DEF OpToRel
  <2> HIDE DEF L
  <2> QED BY <2>1, <2>2
<1>2. PICK x \in S : \A y \in S : ~(<<y, x>> \in R)
  BY <1>1, WFMin
<1>3. ASSUME NEW y \in S PROVE x <= y
  <2>1. ~(y < x)
    BY <1>1, <1>2, Zenon
  <2> QED BY <2>1
<1> QED BY <1>3

\* The rules of a ruleset: at most one row for an id, in a finite set of ids.
Entries(E) ==
    /\ IsFiniteSet(E)
    /\ \A e \in E : e[1] \in Int /\ e[2].prio \in Int
    /\ \A e, f \in E : e[1] = f[1] => e = f

First(e, H) == e \in H /\ \A f \in H \ {e} : Precedes(e, f)

(* Priority and id put any of them in an order: one comes first.  By       *)
(* induction on their number, as a least counterexample.                   *)
LEMMA SomeRuleFirst ==
    ASSUME NEW E, Entries(E), E # {}
    PROVE  \E e \in E : First(e, E)
<1> DEFINE Bad(H) == H # {} /\ ~(\E e \in H : First(e, H))
           B == {n \in Nat : \E H \in SUBSET E : Cardinality(H) = n /\ Bad(H)}
<1> SUFFICES ASSUME Bad(E) PROVE FALSE
  OBVIOUS
<1>1. \A H \in SUBSET E : IsFiniteSet(H) /\ Cardinality(H) \in Nat
  BY FS_Subset, FS_CardinalityType DEF Entries
<1>2. B # {}
  <2>1. Cardinality(E) \in Nat /\ E \in SUBSET E
    BY <1>1
  <2> HIDE DEF Bad
  <2> QED BY <2>1
<1>3. PICK n \in B : \A m \in B : n <= m
  <2>1. B \in SUBSET Nat
    OBVIOUS
  <2> HIDE DEF B
  <2> QED BY <1>2, <2>1, LeastNat
<1>4. PICK H \in SUBSET E : Cardinality(H) = n /\ Bad(H)
  <2> HIDE DEF Bad
  <2> QED BY <1>3
<1>5. PICK e \in H : TRUE
  BY <1>4
<1> DEFINE G == H \ {e}
<1>6. G # {}
  <2> SUFFICES ASSUME G = {} PROVE FALSE
    OBVIOUS
  <2>1. First(e, H)
    BY DEF First
  <2> QED BY <2>1, <1>4
<1>7. PICK f \in G : First(f, G)
  <2>1. G \in SUBSET E /\ Cardinality(G) = n - 1 /\ n \in Nat
    BY <1>1, <1>3, <1>4, <1>5, FS_RemoveElement
  <2>2. Cardinality(G) \in Nat /\ ~(n <= n - 1)
    BY <1>1, <2>1
  <2>3. ~Bad(G)
    <3> HIDE DEF Bad, G
    <3> QED BY <1>3, <2>1, <2>2
  <2> QED BY <2>3, <1>6
<1>8. /\ e \in E /\ f \in E /\ e # f
      /\ e[1] \in Int /\ f[1] \in Int /\ e[1] # f[1]
      /\ e[2].prio \in Int /\ f[2].prio \in Int
  BY <1>4, <1>5, <1>7 DEF Entries
<1>9. CASE Precedes(f, e)
  <2>1. First(f, H)
    BY <1>7, <1>9 DEF First
  <2> QED BY <2>1, <1>4 DEF First
<1>10. CASE ~Precedes(f, e)
  <2>1. Precedes(e, f)
    BY <1>8, <1>10 DEF Precedes
  <2>2. ASSUME NEW g \in H \ {e} PROVE Precedes(e, g)
    <3>1. CASE g = f
      BY <3>1, <2>1
    <3>2. CASE g # f
      <4>1. Precedes(f, g)
        BY <1>7, <3>2 DEF First
      <4>2. g[1] \in Int /\ g[2].prio \in Int
        BY DEF Entries
      <4> QED BY <2>1, <4>1, <4>2, <1>8 DEF Precedes
    <3> QED BY <3>1, <3>2
  <2>3. First(e, H)
    BY <2>2, <1>5 DEF First
  <2> QED BY <2>3, <1>4 DEF First
<1> QED BY <1>9, <1>10

(* What the ruleset of the tables does to each class of device.            *)
LEMMA ClassesOfTables ==
    ASSUME db \in Database, NEW p \in Packets
    PROVE  LET class == db.devices[p.src]
               fate  == Fate(Gen("fw", Views(db, "fw")), p)
               tls   == p.protocol = "tcp" /\ p.port = 443
           IN  /\ class = "blocked" => fate = "drop"
               /\ class = "open" => fate = "accept"
               /\ fate = "proxy" <=> class = "filtered" /\ tls
               /\ class \in {"filtered", "none"} /\ fate = "accept" => Opened(p)
<1> DEFINE class == db.devices[p.src]
           rows  == rulesOf(db)
           conf  == Gen("fw", Views(db, "fw"))
           fate  == Fate(conf, p)
           tls   == p.protocol = "tcp" /\ p.port = 443
           hits  == {e \in conf.rules : Matches(e[2], p)}
           first == CHOOSE e \in hits : \A f \in hits \ {e} : Precedes(e, f)
<1>1. conf = generateConfig(rows, deviceSnapshot(db), filterUDPPorts(db), filterTCPPorts(db))
  BY DEF Gen, Views
<1>2. /\ conf.rules = {<<r, rows[r]>> : r \in {q \in DOMAIN rows : rows[q].enabled}}
      /\ conf.redirect = {m \in Devices : db.devices[m] = "filtered"}
      /\ conf.open = {m \in Devices : db.devices[m] = "open"}
      /\ conf.blocked = {m \in Devices : db.devices[m] = "blocked"}
      /\ conf.ports = {<<m, "udp", k>> : m \in conf.redirect, k \in filterUDPPorts(db)}
                      \cup {<<m, "tcp", k>> : m \in conf.redirect, k \in filterTCPPorts(db)}
  BY <1>1 DEF generateConfig, deviceSnapshot
<1>3. p.src \in Devices /\ p.protocol \in {"tcp", "udp"} /\ class \in Status
  BY DEF Packets, Database
<1>4. /\ p.src \in conf.redirect <=> class = "filtered"
      /\ p.src \in conf.open <=> class = "open"
      /\ p.src \in conf.blocked <=> class = "blocked"
  BY <1>2, <1>3
<1>5. ASSUME NEW e \in conf.rules
      PROVE  /\ e[1] \in Rules /\ e[1] \in Int /\ e[2] = db.rules[e[1]]
             /\ e = <<e[1], e[2]>> /\ e[2] # NoRow
             /\ e[2].enabled /\ e[2].action \in {"accept", "drop"} /\ e[2].prio \in Int
  <2>1. PICK r \in DOMAIN rows : rows[r].enabled /\ e = <<r, rows[r]>>
    BY <1>2
  <2>2. r \in Rules /\ rows[r] = db.rules[r] /\ db.rules[r] # NoRow
    BY DEF rulesOf, ListRules
  <2>3. db.rules[r] \in RuleRows
    BY <2>2 DEF Database
  <2>4. db.rules[r] \in RuleRow /\ r \in Int
    BY <2>2, <2>3, PolicyAssumption
  <2>5. db.rules[r].action \in {"accept", "drop"} /\ db.rules[r].prio \in Int
    BY <2>4 DEF RuleRow
  <2> QED BY <2>1, <2>2, <2>4, <2>5
<1>6. Entries(hits)
  <2>1. IsFiniteSet(hits)
    <3> DEFINE T == {<<q, db.rules[q]>> : q \in Rules}
    <3>1. IsFiniteSet(T)
      <4> DEFINE f == [q \in Rules |-> <<q, db.rules[q]>>]
      <4>1. IsFiniteSet(Rules)
        BY PolicyAssumption
      <4>2. f \in Surjection(Rules, T)
        BY DEF Surjection
      <4> HIDE DEF f, T
      <4> QED BY <4>1, <4>2, FS_Surjection
    <3>2. hits \subseteq T
      <4> SUFFICES ASSUME NEW e \in hits PROVE e \in T
        OBVIOUS
      <4> QED BY <1>5
    <3> QED BY <3>1, <3>2, FS_Subset
  <2> HIDE DEF conf
  <2>2. ASSUME NEW e \in hits PROVE e[1] \in Int /\ e[2].prio \in Int
    BY <1>5
  <2>3. ASSUME NEW e \in hits, NEW f \in hits, e[1] = f[1] PROVE e = f
    <3>1. e[2] = f[2]
      BY <2>3, <1>5
    <3> QED BY <2>3, <3>1, <1>5
  <2> HIDE DEF hits
  <2> QED BY <2>1, <2>2, <2>3 DEF Entries
<1>7. hits # {} => first \in hits
  <2> HIDE DEF hits
  <2> SUFFICES ASSUME hits # {} PROVE first \in hits
    OBVIOUS
  <2>1. \E e \in hits : \A f \in hits \ {e} : Precedes(e, f)
    BY <1>6, SomeRuleFirst DEF First
  <2> QED BY <2>1
<1>8. fate = IF p.src \in conf.redirect /\ tls THEN "proxy"
             ELSE IF p.src \in conf.redirect /\ p.port \in IF p.protocol = "tcp" THEN {53, 80} ELSE {53}
               THEN "pi"
             ELSE IF p.src \in conf.blocked THEN "drop"
             ELSE IF p.src \in conf.open THEN "accept"
             ELSE IF hits # {} THEN first[2].action
             ELSE IF <<p.src, p.protocol, p.port>> \in conf.ports THEN "accept"
             ELSE "drop"
  <2> HIDE DEF conf
  <2> QED BY DEF Fate
<1>9. hits # {} => first[2].action \in {"accept", "drop"}
  <2> HIDE DEF conf, first
  <2> QED BY <1>5, <1>7
<1>10. ASSUME hits # {}, first[2].action = "accept" PROVE Opened(p)
  <2> HIDE DEF conf, first
  <2>1. first \in conf.rules /\ Matches(first[2], p)
    BY <1>7, <1>10
  <2>2. /\ first[1] \in Rules /\ first[2] = db.rules[first[1]]
        /\ first[2] # NoRow /\ first[2].enabled
    BY <1>5, <2>1
  <2> QED BY <2>1, <2>2, <1>10 DEF Opened
<1>11. ASSUME <<p.src, p.protocol, p.port>> \in conf.ports PROVE Opened(p)
  <2>1. /\ p.src \in conf.redirect
        /\ \/ p.protocol = "udp" /\ p.port \in filterUDPPorts(db)
           \/ p.protocol = "tcp" /\ p.port \in filterTCPPorts(db)
    <3> HIDE DEF conf
    <3> QED BY <1>2, <1>11
  <2>2. class = "filtered"
    BY <2>1, <1>4
  <2>3. CASE p.protocol = "udp"
    <3>1. PICK f \in Filters : db.filters[f] = "on" /\ p.port \in UDPPorts[f]
      BY <2>1, <2>3 DEF filterUDPPorts
    <3> QED BY <2>2, <2>3, <3>1 DEF Opened
  <2>4. CASE p.protocol = "tcp"
    <3>1. PICK f \in Filters : db.filters[f] = "on" /\ p.port \in TCPPorts[f]
      BY <2>1, <2>4 DEF filterTCPPorts
    <3> QED BY <2>2, <2>4, <3>1 DEF Opened
  <2> QED BY <2>3, <2>4, <1>3
<1> HIDE DEF conf, hits, first, fate, class, tls
<1>12. class = "blocked" => fate = "drop"
  BY <1>4, <1>8
<1>13. class = "open" => fate = "accept"
  BY <1>4, <1>8
<1>14. fate = "proxy" <=> class = "filtered" /\ tls
  BY <1>4, <1>8, <1>9
<1>15. class \in {"filtered", "none"} /\ fate = "accept" => Opened(p)
  BY <1>4, <1>8, <1>10, <1>11
<1> QED BY <1>12, <1>13, <1>14, <1>15 DEF class, fate, conf, tls

-----------------------------------------------------------------------------
(* Whose turn it is.                                                       *)

(* A reader of s is at its head, and has its mutex or finds it free.       *)
LEMMA WhenReading ==
    ASSUME Running, NEW r \in Actors, NEW s \in Services, Reading(r, s)
    PROVE  /\ todo[r] \in Plans /\ todo[r] # <<>> /\ Head(todo[r]) = s
           /\ Tuple(got[s], Len(got[s])) /\ Len(got[s]) \in 0 .. Width(s) - 1
           /\ Len(got[s]) + 1 \in 1 .. Width(s) /\ Width(s) \in 1 .. 4
           /\ \/ lock[s] = Free /\ got[s] = <<>> /\ Len(got[s]) = 0
              \/ lock[s] = r /\ phase[s] = "read" /\ got[s] # <<>> /\ Len(got[s]) # 0
<1>1. todo[r] \in Plans /\ todo[r] # <<>> /\ Head(todo[r]) = s /\ lock[s] \in {Free, r}
  BY DEF Reading, Turn, NextJob, Running
<1>2. Tuple(got[s], Len(got[s])) /\ Len(got[s]) \in Nat /\ Locked(s)
  BY DEF Running, Tuple
<1>3. Len(got[s]) < Width(s) /\ Width(s) \in 1 .. 4
  BY ViewsLen DEF Reading
<1>4. got[s] = <<>> <=> Len(got[s]) = 0
  BY <1>2, TupleEmpty
<1>5. phase[s] \in {"idle", "read"} /\ Free \notin Actors
  BY AirGapAssumption DEF Reading
<1>6. \/ lock[s] = Free /\ got[s] = <<>> /\ Len(got[s]) = 0
      \/ lock[s] = r /\ phase[s] = "read" /\ got[s] # <<>> /\ Len(got[s]) # 0
  <2>1. CASE lock[s] = Free
    BY <1>2, <1>4, <1>5, <2>1 DEF Locked
  <2>2. CASE lock[s] = r
    BY <1>2, <1>3, <1>4, <1>5, <2>2 DEF Locked, InApply, InSwitch
  <2> QED BY <1>1, <2>1, <2>2
<1> QED BY <1>1, <1>2, <1>3, <1>6

(* Who has read all of s holds its mutex.                                  *)
LEMMA WhenRead ==
    ASSUME Running, NEW r \in Actors, NEW s \in Services, HasRead(r, s)
    PROVE  /\ todo[r] \in Plans /\ todo[r] # <<>> /\ Head(todo[r]) = s
           /\ lock[s] = r /\ phase[s] = "read" /\ Len(got[s]) = Width(s)
           /\ got[s] # <<>>
<1>1. todo[r] \in Plans /\ todo[r] # <<>> /\ Head(todo[r]) = s /\ lock[s] \in {Free, r}
  BY DEF HasRead, Turn, NextJob, Running
<1>2. phase[s] = "read" /\ Len(got[s]) = Width(s) /\ Width(s) \in 1 .. 4
  BY ViewsLen DEF HasRead
<1>3. Locked(s) /\ Tuple(got[s], Len(got[s]))
  BY DEF Running
<1>4. lock[s] = r
  BY <1>1, <1>2, <1>3, AirGapAssumption DEF Locked
<1>5. got[s] # <<>>
  BY <1>2, <1>3, TupleEmpty
<1> QED BY <1>1, <1>2, <1>4, <1>5

(* So does who loads it.                                                   *)
LEMMA WhenLoading ==
    ASSUME Running, NEW r \in Actors, NEW s \in Services, ReadyToLoad(r, s)
    PROVE  /\ todo[r] \in Plans /\ todo[r] # <<>> /\ Head(todo[r]) = s
           /\ lock[s] = r /\ phase[s] \in {"read", "written"} /\ Len(got[s]) = Width(s)
           /\ got[s] # <<>>
<1>1. CASE HasRead(r, s)
  BY <1>1, WhenRead
<1>2. CASE Turn(r, s) /\ phase[s] = "written"
  <2>1. todo[r] \in Plans /\ todo[r] # <<>> /\ Head(todo[r]) = s /\ lock[s] \in {Free, r}
    BY <1>2 DEF Turn, NextJob, Running
  <2>2. Locked(s) /\ Tuple(got[s], Len(got[s]))
    BY DEF Running
  <2>3. lock[s] = r /\ Len(got[s]) = Width(s)
    BY <2>1, <2>2, <1>2, AirGapAssumption DEF Locked, InApply, InSwitch
  <2>4. got[s] # <<>>
    BY <2>2, <2>3, TupleEmpty DEF Width
  <2> QED BY <1>2, <2>1, <2>3, <2>4
<1> QED BY <1>1, <1>2 DEF ReadyToLoad

(* Who switches the hotspot has nothing else to do, and has the mutex of   *)
(* the hotspot or finds it free.                                           *)
LEMMA WhenSwitching ==
    ASSUME Running, NEW r \in Actors, NEW jobs \in SUBSET {"raise", "lower", "verify"},
           Switching(r, jobs)
    PROVE  /\ todo[r] \in Plans /\ todo[r] # <<>> /\ todo[r] = <<Head(todo[r])>>
           /\ Head(todo[r]) \in jobs
           /\ \/ lock["ap"] = Free /\ got["ap"] = <<>> /\ Len(got["ap"]) = 0
              \/ lock["ap"] = r /\ phase["ap"] = "switch"
           /\ Tuple(got["ap"], Len(got["ap"])) /\ Len(got["ap"]) \in Nat
<1>1. /\ todo[r] \in Plans /\ todo[r] # <<>> /\ Head(todo[r]) \in jobs
      /\ lock["ap"] \in {Free, r}
  BY DEF Switching, Running
<1>2. todo[r] = <<Head(todo[r])>>
  BY <1>1, PlanFacts
<1>3. Locked("ap") /\ Tuple(got["ap"], Len(got["ap"])) /\ Len(got["ap"]) \in Nat
  BY DEF Running, Services, Tuple
<1>4. Free \notin Actors
  BY AirGapAssumption
<1>5. CASE lock["ap"] = Free
  BY <1>1, <1>2, <1>3, <1>4, <1>5, TupleEmpty DEF Locked
<1>6. CASE lock["ap"] = r
  BY <1>1, <1>2, <1>3, <1>4, <1>6 DEF Locked, InApply, InSwitch
<1> QED BY <1>1, <1>2, <1>3, <1>5, <1>6

-----------------------------------------------------------------------------
(* What a step does to plans and mutexes.                                  *)

(* Unlock by the actor whose job is done or given up.                      *)
LEMMA Release ==
    ASSUME Running, NEW r \in Actors, NEW s \in Services,
           todo[r] # <<>>, lock[s] \in {Free, r},
           Head(todo[r]) = s \/ (s = "ap" /\ Head(todo[r]) \in {"raise", "lower", "verify"}),
           NEW q, q = Tail(todo[r]) \/ (q = <<>> /\ Tail(todo[r]) # <<"verify">>),
           Unlock(s), todo' = [todo EXCEPT ![r] = q], came' = came
    PROVE  Running'
<1>1. todo[r] \in Plans /\ Tail(todo[r]) \in Plans
  BY PlanFacts DEF Running
<1>2. q \in Plans /\ Range(q) \subseteq Range(todo[r])
  <2>1. <<>> \in Plans
    BY DEF Plans
  <2>2. Range(<<>>) = {}
    BY <2>1, PlanRange
  <2>3. Range(Tail(todo[r])) \subseteq Range(todo[r])
    BY <1>1, PlanRange
  <2> QED BY <1>1, <2>1, <2>2, <2>3
<1>3. todo' \in [Actors -> Plans]
  BY <1>2 DEF Running
<1>4. \A x \in Actors : "sni" \in Range(todo'[x]) => x = Refresher
  BY <1>2 DEF Running
<1>5. \A h \in Handlers : came' < h => todo'[h] = <<>>
  <2> SUFFICES ASSUME NEW h \in Handlers, came < h PROVE todo'[h] = <<>>
    OBVIOUS
  <2>1. h \in Actors /\ todo[h] = <<>>
    BY DEF Running, Actors
  <2> QED BY <2>1 DEF Running
<1>6. /\ lock' \in [Services -> Actors \cup {Free}]
      /\ phase' \in [Services -> {"idle", "read", "written", "switch"}]
      /\ DOMAIN got' = Services
  BY DEF Running, Unlock
<1>7. ASSUME NEW t \in Services PROVE Tuple(got'[t], Len(got'[t])) /\ Len(got'[t]) <= 4
  <2>1. CASE t = s
    BY <2>1, TupleEmpty DEF Running, Unlock
  <2>2. CASE t # s
    BY <2>2 DEF Running, Unlock
  <2> QED BY <2>1, <2>2
<1>8. ASSUME NEW t \in Services PROVE Locked(t)'
  <2>1. CASE t = s
    BY <2>1 DEF Running, Unlock, Locked
  <2>2. CASE t # s
    <3>1. lock'[t] = lock[t] /\ phase'[t] = phase[t] /\ got'[t] = got[t]
      BY <2>2 DEF Running, Unlock
    <3>2. Locked(t)
      BY DEF Running
    <3>3. CASE lock[t] # r
      <4>1. lock[t] \in Actors => todo'[lock[t]] = todo[lock[t]]
        BY <3>3 DEF Running
      <4> QED BY <3>1, <3>2, <4>1 DEF Locked, InApply, InSwitch
    <3>4. CASE lock[t] = r
      <4>1. r # Free /\ todo[r] \in Plans
        BY AirGapAssumption DEF Running
      <4>2. t = "ap" /\ InSwitch
        <5>1. ~InApply(t)
          BY <2>2, <3>4 DEF InApply, Services
        <5> QED BY <4>1, <5>1, <3>2, <3>4 DEF Locked
      <4>3. Head(todo[r]) = s /\ s # "ap"
        BY <2>2, <4>2
      <4>4. todo[r] = <<"fw", "verify">>
        <5>1. todo[r] \in {<<"raise">>, <<"verify">>, <<"fw", "verify">>}
          BY <4>2, <3>4 DEF InSwitch
        <5>2. Head(<<"raise">>) = "raise" /\ Head(<<"verify">>) = "verify"
          OBVIOUS
        <5> QED BY <5>1, <5>2, <4>3 DEF Services
      <4>5. Tail(todo[r]) = <<"verify">>
        BY <4>4
      <4>6. todo'[r] = <<"verify">>
        BY <4>5, <1>3 DEF Running
      <4> QED BY <4>2, <4>6, <3>1, <3>4 DEF Locked, InSwitch
    <3> QED BY <3>3, <3>4
  <2> QED BY <2>1, <2>2
<1> QED BY <1>3, <1>4, <1>5, <1>6, <1>7, <1>8 DEF Running

(* Fail and Done are such steps.                                           *)
LEMMA FailRuns ==
    ASSUME Running, NEW r \in Actors, NEW s \in Services, todo[r] # <<>>,
           lock[s] \in {Free, r}, Head(todo[r]) = s, Fail(r, s), came' = came
    PROVE  Running'
<1> DEFINE rest == Tail(todo[r])
           q == IF r = Main \/ rest = <<"verify">> THEN rest ELSE <<>>
<1>1. Unlock(s) /\ todo' = [todo EXCEPT ![r] = q]
  BY DEF Fail
<1>2. q = Tail(todo[r]) \/ (q = <<>> /\ Tail(todo[r]) # <<"verify">>)
  BY Zenon
<1> HIDE DEF q, rest
<1> QED BY <1>1, <1>2, Release, Zenon

LEMMA DoneRuns ==
    ASSUME Running, NEW r \in Actors, NEW s \in Services, todo[r] # <<>>,
           lock[s] \in {Free, r},
           Head(todo[r]) = s \/ (s = "ap" /\ Head(todo[r]) \in {"raise", "lower", "verify"}),
           Done(r, s), came' = came
    PROVE  Running'
<1>1. Unlock(s) /\ todo' = [todo EXCEPT ![r] = Tail(todo[r])]
  BY DEF Done, Running
<1> QED BY <1>1, Release, Zenon

(* An answer is noted under the mutex.                                     *)
LEMMA AnswerRuns ==
    ASSUME Running, NEW r \in Actors, NEW s \in Services, Reading(r, s),
           NEW v, Answer(r, s, v), todo' = todo, came' = came
    PROVE  /\ Running' /\ lock'[s] = r
           /\ Tuple(got'[s], Len(got[s]) + 1) /\ Len(got'[s]) = Len(got[s]) + 1
           /\ got'[s][Len(got[s]) + 1] = v
           /\ \A i \in 1 .. Len(got[s]) : got'[s][i] = got[s][i]
           /\ \A t \in Services \ {s} :
                lock'[t] = lock[t] /\ phase'[t] = phase[t] /\ got'[t] = got[t]
<1> DEFINE n == Len(got[s])
<1>1. /\ todo[r] \in Plans /\ todo[r] # <<>> /\ Head(todo[r]) = s
      /\ Tuple(got[s], n) /\ n \in 0 .. Width(s) - 1 /\ Width(s) \in 1 .. 4
  BY WhenReading
<1>0. /\ lock' = [lock EXCEPT ![s] = r] /\ phase' = [phase EXCEPT ![s] = "read"]
      /\ got' = [got EXCEPT ![s] = Append(got[s], v)]
  BY DEF Answer, Running
<1>2. /\ lock'[s] = r /\ phase'[s] = "read" /\ got'[s] = Append(got[s], v)
      /\ lock' \in [Services -> Actors \cup {Free}]
      /\ phase' \in [Services -> {"idle", "read", "written", "switch"}]
      /\ DOMAIN got' = Services
      /\ \A t \in Services \ {s} :
           lock'[t] = lock[t] /\ phase'[t] = phase[t] /\ got'[t] = got[t]
  BY <1>0 DEF Running
<1> HIDE DEF n
<1>3. /\ Tuple(got'[s], n + 1) /\ got'[s][n + 1] = v
      /\ \A i \in 1 .. n : got'[s][i] = got[s][i]
  <2>1. PICK g : g = got[s] /\ Tuple(g, n)
    BY <1>1
  <2>2. Extends(Append(g, v), g, n, v)
    BY <2>1, TupleAppend
  <2> QED BY <1>2, <2>1, <2>2 DEF Extends
<1>4. Len(got'[s]) = n + 1
  BY <1>3, TupleLen
<1>5. ASSUME NEW t \in Services PROVE Tuple(got'[t], Len(got'[t])) /\ Len(got'[t]) <= 4
  <2>1. CASE t = s
    BY <1>1, <1>3, <1>4, <2>1
  <2>2. CASE t # s
    BY <1>2, <2>2 DEF Running
  <2> QED BY <2>1, <2>2
<1>6. ASSUME NEW t \in Services PROVE Locked(t)'
  <2>1. CASE t = s
    <3>1. n + 1 \in 1 .. Width(s)
      BY <1>1
    <3>2. InApply(s)'
      BY <1>1, <1>2, <1>4, <3>1 DEF InApply
    <3> QED BY <2>1, <3>2, <1>2 DEF Locked
  <2>2. CASE t # s
    BY <1>2, <2>2 DEF Running, Locked, InApply, InSwitch
  <2> QED BY <2>1, <2>2
<1>7. Running'
  BY <1>2, <1>5, <1>6 DEF Running
<1> QED BY <1>2, <1>3, <1>4, <1>7 DEF n

-----------------------------------------------------------------------------
(* What keeps a policy current.                                            *)

(* Its views, its Apply and its effect are left alone, and nobody who had  *)
(* to apply it is let off unless it counts as stale.                       *)
LEMMA CurrentKept ==
    ASSUME NEW t \in Services, Current(t), t \in stale => t \in stale',
           t \notin stale' =>
              /\ Views(db', t) = Views(db, t)
              /\ lock'[t] = lock[t] /\ phase'[t] = phase[t] /\ got'[t] = got[t]
              /\ live'[t] = live[t]
              /\ \A x \in Actors : t \in Range(todo[x]) => t \in Range(todo'[x])
    PROVE  Current(t)'
<1> SUFFICES ASSUME t \notin stale'
             PROVE  ReadsHold(t)' /\ (~Outstanding(t)' => live'[t] = Gen(t, Views(db', t)))
  BY DEF Current
<1>1. ReadsHold(t) /\ (~Outstanding(t) => live[t] = Gen(t, Views(db, t)))
  BY DEF Current
<1>2. ReadsHold(t)'
  <2>1. Alone(lock[t], t)' => Alone(lock[t], t)
    BY DEF Alone
  <2> QED BY <1>1, <2>1 DEF ReadsHold
<1>3. Outstanding(t) => Outstanding(t)'
  BY DEF Outstanding
<1> QED BY <1>1, <1>2, <1>3

(* When r is done with s, or gives up, and what it skips is stale, every   *)
(* other service is as it was.                                             *)
LEMMA CurrentReleased ==
    ASSUME Running, Fresh, NEW r \in Actors, NEW s \in Services, todo[r] # <<>>,
           Head(todo[r]) = s \/ (s = "ap" /\ Head(todo[r]) \notin Services),
           NEW q, q = Tail(todo[r]) \/ (q = <<>> /\ Range(Tail(todo[r])) \subseteq stale'),
           Unlock(s), todo' = [todo EXCEPT ![r] = q],
           db' = db, stale \subseteq stale', NEW t \in Services \ {s}, live'[t] = live[t]
    PROVE  Current(t)'
<1>1. todo[r] \in Plans
  BY DEF Running
<1>2. Range(todo[r]) = {Head(todo[r])} \cup Range(Tail(todo[r]))
  BY <1>1, PlanRange
<1>3. t # Head(todo[r])
  OBVIOUS
<1>4. ASSUME t \notin stale', NEW x \in Actors, t \in Range(todo[x])
      PROVE  t \in Range(todo'[x])
  <2>1. CASE x = r
    <3>1. t \in Range(Tail(todo[r]))
      BY <1>2, <1>3, <1>4, <2>1
    <3>2. q = Tail(todo[r])
      BY <1>4, <3>1
    <3> QED BY <2>1, <3>1, <3>2 DEF Running
  <2>2. CASE x # r
    BY <1>4, <2>2 DEF Running
  <2> QED BY <2>1, <2>2
<1>5. lock'[t] = lock[t] /\ phase'[t] = phase[t] /\ got'[t] = got[t]
  BY DEF Unlock, Running
<1>6. Current(t)
  BY DEF Fresh
<1> QED BY <1>4, <1>5, <1>6, CurrentKept

(* A failed Apply leaves no service current that is not.                   *)
LEMMA FailFresh ==
    ASSUME Running, Fresh, NEW r \in Actors, NEW s \in Services, todo[r] # <<>>,
           Head(todo[r]) = s, Fail(r, s), db' = db,
           \A t \in Services \ {s} : live'[t] = live[t]
    PROVE  Fresh'
<1> DEFINE rest == Tail(todo[r])
           goOn == r = Main \/ rest = <<"verify">>
           q == IF goOn THEN rest ELSE <<>>
<1>1. /\ Unlock(s) /\ todo' = [todo EXCEPT ![r] = q]
      /\ stale' = stale \cup {s} \cup (IF goOn THEN {} ELSE Range(rest))
  BY DEF Fail
<1>2. q = rest \/ (q = <<>> /\ Range(rest) \subseteq stale')
  <2>1. CASE goOn
    BY <2>1
  <2>2. CASE ~goOn
    <3> HIDE DEF goOn, rest
    <3> QED BY <1>1, <2>2
  <2> QED BY <2>1, <2>2
<1>3. s \in stale' /\ stale \subseteq stale'
  BY <1>1
<1>4. ASSUME NEW t \in Services PROVE Current(t)'
  <2>1. CASE t = s
    BY <1>3, <2>1 DEF Current
  <2>2. CASE t # s
    <3> HIDE DEF q, goOn
    <3> QED BY <1>1, <1>2, <1>3, <2>2, CurrentReleased
  <2> QED BY <2>1, <2>2
<1> QED BY <1>4 DEF Fresh

-----------------------------------------------------------------------------
(* The steps of an Apply.                                                  *)

(* An answer of the right kind keeps names, ruleset and gate as they are.  *)
LEMMA AnswerKeeps ==
    ASSUME IInv, NEW r \in Actors, NEW s \in Services, Reading(r, s),
           NEW v, Answer(r, s, v),
           s = "fw" => v \in FwView(Len(got[s]) + 1),
           s = "dns" /\ Len(got[s]) = 0 => Safe(v),
           UNCHANGED <<db, came, todo, file>>
    PROVE  /\ Running' /\ Sealed' /\ FwReads' /\ Seen'
           /\ DOMAIN live' = Services /\ \A t \in Services \ {s} : live'[t] = live[t]
<1>1. /\ Running' /\ Len(got'[s]) = Len(got[s]) + 1 /\ got'[s][Len(got[s]) + 1] = v
      /\ \A i \in 1 .. Len(got[s]) : got'[s][i] = got[s][i]
      /\ \A t \in Services \ {s} : got'[t] = got[t]
  BY AnswerRuns DEF IInv
<1>2. /\ Len(got[s]) \in 0 .. Width(s) - 1 /\ Width(s) \in 1 .. 4
      /\ got[s] = <<>> <=> Len(got[s]) = 0
  BY WhenReading, TupleEmpty DEF IInv
<1>3. DOMAIN live' = Services /\ \A t \in Services \ {s} : live'[t] = live[t]
  <2>1. DOMAIN live = Services
    BY DEF IInv, Stored
  <2>2. CASE s = "bw"
    <3>1. live' = [live EXCEPT !["bw"] = {}]
      BY <2>2 DEF Answer
    <3> QED BY <2>1, <2>2, <3>1
  <2>3. CASE s # "bw"
    BY <2>1, <2>3 DEF Answer
  <2> QED BY <2>2, <2>3
<1>4. live'["dns"] = live["dns"] /\ live'["fw"] = live["fw"]
  BY DEF Answer, Services, IInv, Stored
<1>5. Sealed'
  <2>1. Sealed /\ "dns" \in Services
    BY DEF IInv, Services
  <2>2. got'["dns"] # <<>> => Safe(got'["dns"][1])
    <3>1. CASE s # "dns"
      BY <1>1, <2>1, <3>1 DEF Sealed
    <3>2. CASE s = "dns" /\ Len(got[s]) = 0
      <4>1. got'["dns"][1] = v
        BY <1>1, <3>2
      <4> QED BY <3>2, <4>1
    <3>3. CASE s = "dns" /\ Len(got[s]) # 0
      <4>1. got'["dns"][1] = got["dns"][1] /\ got["dns"] # <<>>
        BY <1>1, <1>2, <3>3
      <4> QED BY <4>1, <2>1 DEF Sealed
    <3> QED BY <3>1, <3>2, <3>3
  <2> QED BY <1>4, <2>1, <2>2 DEF Sealed
<1>6. FwReads'
  <2>1. FwReads /\ "fw" \in Services
    BY DEF IInv, Services
  <2>2. CASE s # "fw"
    BY <1>1, <2>1, <2>2 DEF FwReads
  <2>3. CASE s = "fw"
    <3> SUFFICES ASSUME NEW i \in 1 .. Len(got'["fw"]) PROVE got'["fw"][i] \in FwView(i)
      BY DEF FwReads
    <3>1. CASE i \in 1 .. Len(got["fw"])
      BY <1>1, <2>1, <2>3, <3>1 DEF FwReads
    <3>2. CASE i = Len(got["fw"]) + 1
      BY <1>1, <2>3, <3>2
    <3>3. i \in 1 .. Len(got["fw"]) \/ i = Len(got["fw"]) + 1
      BY <1>1, <1>2, <2>3
    <3> QED BY <3>1, <3>2, <3>3
  <2> QED BY <2>2, <2>3
<1>7. Seen'
  <2>1. Seen /\ "ap" \in Services
    BY DEF IInv, Services
  <2>2. CASE s # "ap"
    BY <1>1, <1>4, <2>1, <2>2 DEF Seen
  <2>3. CASE s = "ap"
    <3>1. Width(s) = 1
      BY <2>3 DEF Width
    <3>2. Len(got[s]) = 0
      BY <1>2, <3>1
    <3>3. Len(got'["ap"]) = 1
      BY <1>1, <2>3, <3>2
    <3> QED BY <3>3 DEF Seen
  <2> QED BY <2>2, <2>3
<1> QED BY <1>1, <1>3, <1>5, <1>6, <1>7

(* One more view of the tables.                                            *)
LEMMA ReadStep ==
    ASSUME IInv, NEW r \in Actors, NEW s \in Services, Read(r, s)
    PROVE  IInv'
<1> DEFINE n == Len(got[s])
           v == Views(db, s)[n + 1]
<1>1. /\ Reading(r, s) /\ Answer(r, s, v)
      /\ stale' = IF got[s] = <<>> THEN stale \ {s} ELSE stale
      /\ UNCHANGED <<db, came, todo, file, faults, events>>
  BY DEF Read
<1>2. Running /\ Stored /\ Fresh /\ Sealed /\ db \in Database
  BY DEF IInv, Stored
<1>3. /\ todo[r] \in Plans /\ todo[r] # <<>> /\ Head(todo[r]) = s
      /\ n \in 0 .. Width(s) - 1 /\ n + 1 \in 1 .. Width(s) /\ Width(s) \in 1 .. 4
      /\ \/ lock[s] = Free /\ got[s] = <<>> /\ n = 0
         \/ lock[s] = r /\ phase[s] = "read" /\ got[s] # <<>> /\ n # 0
  BY <1>1, <1>2, WhenReading
<1>4. s = "fw" => v \in FwView(n + 1)
  BY <1>2, <1>3, FwViewTypes DEF Width
<1>5. s = "dns" /\ n = 0 => Safe(v)
  <2> SUFFICES ASSUME s = "dns", n = 0 PROVE Safe(allowedDomains(db))
    BY DEF Views
  <2> QED BY <1>2 DEF Sealed, Safe, allowedDomains
<1> HIDE DEF v
<1>6. /\ Running' /\ Sealed' /\ FwReads' /\ Seen'
      /\ DOMAIN live' = Services /\ \A t \in Services \ {s} : live'[t] = live[t]
  BY <1>1, <1>4, <1>5, AnswerKeeps
<1>7. Stored'
  BY <1>1, <1>2, <1>6 DEF Stored
<1>8. /\ lock'[s] = r /\ Len(got'[s]) = n + 1 /\ got'[s][n + 1] = v
      /\ \A i \in 1 .. n : got'[s][i] = got[s][i]
      /\ \A t \in Services \ {s} :
           lock'[t] = lock[t] /\ phase'[t] = phase[t] /\ got'[t] = got[t]
  BY <1>1, <1>2, AnswerRuns
<1>9. ASSUME NEW t \in Services PROVE Current(t)'
  <2>1. CASE t # s
    <3>1. Current(t) /\ (t \in stale => t \in stale')
      BY <1>1, <1>2, <2>1 DEF Fresh
    <3> QED BY <1>1, <1>6, <1>8, <2>1, <3>1, CurrentKept
  <2>2. CASE t = s
    <3>1. Outstanding(s)'
      <4>1. s \in Range(todo'[r])
        BY <1>1, <1>3, PlanRange
      <4> QED BY <4>1 DEF Outstanding
    <3>2. ASSUME s \notin stale', Alone(r, s)', NEW i \in 1 .. n + 1
          PROVE  got'[s][i] = Views(db', s)[i]
      <4>1. CASE i = n + 1
        BY <1>1, <1>8, <4>1 DEF v
      <4>2. CASE i # n + 1
        <5>1. i \in 1 .. n /\ n # 0
          BY <1>3, <4>2
        <5>2. lock[s] = r /\ phase[s] = "read" /\ s \notin stale /\ Alone(r, s)
          BY <1>1, <1>3, <3>2, <5>1 DEF Alone
        <5>3. ReadsHold(s)
          BY <1>2, <5>2 DEF Fresh, Current
        <5>4. got[s][i] = Views(db, s)[i]
          BY <5>1, <5>2, <5>3 DEF ReadsHold
        <5> QED BY <1>1, <1>8, <5>1, <5>4
      <4> QED BY <4>1, <4>2
    <3>3. s \notin stale' => ReadsHold(s)'
      BY <1>8, <3>2 DEF ReadsHold
    <3> QED BY <2>2, <3>1, <3>3 DEF Current
  <2> QED BY <2>1, <2>2
<1> QED BY <1>6, <1>7, <1>9 DEF IInv, Fresh

(* A query that fails without failing Apply.                               *)
LEMMA MisreadStep ==
    ASSUME IInv, NEW r \in Actors, NEW s \in Services, Misread(r, s)
    PROVE  IInv'
<1>1. PICK v \in Fallback(s, Len(got[s]) + 1) : Answer(r, s, v)
  BY DEF Misread
<1>2. /\ Reading(r, s) /\ stale' = stale \cup {s}
      /\ UNCHANGED <<db, came, todo, file>>
      /\ events < MaxEvents /\ events' = events + 1 /\ faults' = faults + 1
  BY DEF Misread, Fault, Event
<1>3. Running /\ Stored /\ Fresh /\ db \in Database
  BY DEF IInv, Stored
<1>4. Len(got[s]) + 1 \in 1 .. Width(s)
  BY <1>2, <1>3, WhenReading
<1>5. s = "fw" => v \in FwView(Len(got[s]) + 1)
  BY <1>3, <1>4, FwFallbackTypes DEF Width
<1>6. s # "dns"
  BY DEF Fallback
<1>7. /\ Running' /\ Sealed' /\ FwReads' /\ Seen'
      /\ DOMAIN live' = Services /\ \A t \in Services \ {s} : live'[t] = live[t]
  BY <1>1, <1>2, <1>5, <1>6, AnswerKeeps
<1>8. Stored'
  BY <1>2, <1>3, <1>7, AirGapAssumption DEF Stored
<1>9. \A t \in Services \ {s} :
         lock'[t] = lock[t] /\ phase'[t] = phase[t] /\ got'[t] = got[t]
  BY <1>1, <1>2, <1>3, AnswerRuns
<1>10. ASSUME NEW t \in Services PROVE Current(t)'
  <2>1. CASE t # s
    <3>1. Current(t) /\ (t \in stale => t \in stale')
      BY <1>2, <1>3, <2>1 DEF Fresh
    <3> QED BY <1>2, <1>7, <1>9, <2>1, <3>1, CurrentKept
  <2>2. CASE t = s
    BY <1>2, <2>2 DEF Current
  <2> QED BY <2>1, <2>2
<1> QED BY <1>7, <1>8, <1>10 DEF IInv, Fresh

(* Unlock forgets what was read; dnsmasq and the kernel stay safe if what  *)
(* is written and loaded is.                                               *)
LEMMA UnlockKeeps ==
    ASSUME Running, Sealed, FwReads, Seen, NEW s \in Services, Unlock(s), db' = db,
           file'["dns"] # Torn => SafeConf(file'["dns"]),
           live'["dns"] # Down => SafeConf(live'["dns"]),
           live["fw"] # NoRules => live'["fw"] # NoRules
    PROVE  Sealed' /\ FwReads' /\ Seen'
<1>1. \A t \in Services : got'[t] = IF t = s THEN <<>> ELSE got[t]
  BY DEF Unlock, Running
<1>2. Len(<<>>) = 0 /\ {"dns", "fw", "ap"} \subseteq Services
  BY DEF Services
<1>3. got'["dns"] \in {<<>>, got["dns"]} /\ got'["fw"] \in {<<>>, got["fw"]}
      /\ got'["ap"] \in {<<>>, got["ap"]}
  BY <1>1, <1>2
<1>4. Sealed'
  BY <1>3 DEF Sealed
<1>5. FwReads'
  BY <1>2, <1>3 DEF FwReads
<1>6. Seen'
  BY <1>2, <1>3 DEF Seen
<1> QED BY <1>4, <1>5, <1>6

(* An Apply that fails and leaves the other services alone.                *)
LEMMA FailStep ==
    ASSUME IInv, NEW r \in Actors, NEW s \in Services, todo[r] # <<>>,
           Head(todo[r]) = s, lock[s] \in {Free, r}, Fail(r, s),
           UNCHANGED <<db, came>>,
           DOMAIN live' = Services, \A t \in Services \ {s} : live'[t] = live[t],
           DOMAIN file' = OnDisk,
           file'["dns"] # Torn => SafeConf(file'["dns"]),
           live'["dns"] # Down => SafeConf(live'["dns"]),
           live["fw"] # NoRules => live'["fw"] # NoRules,
           UNCHANGED <<faults, events>> \/ Fault
    PROVE  IInv'
<1>1. Running /\ Stored /\ Fresh /\ Sealed /\ FwReads /\ Seen
  BY DEF IInv
<1>2. Running'
  BY <1>1, FailRuns
<1>3. Fresh'
  BY <1>1, FailFresh
<1>4. Unlock(s) /\ db' = db
  BY DEF Fail
<1>5. Sealed' /\ FwReads' /\ Seen'
  BY <1>1, <1>4, UnlockKeeps
<1>6. stale' \subseteq Services
  <2>1. todo[r] \in Plans /\ stale \subseteq Services
    BY <1>1 DEF Running, Stored
  <2>2. \/ stale' = stale \cup {s}
        \/ stale' = stale \cup {s} \cup Range(Tail(todo[r])) /\ Tail(todo[r]) # <<"verify">>
    BY DEF Fail
  <2> QED BY <2>1, <2>2, PlanRange
<1>7. Stored'
  <2>1. /\ db' \in Database /\ came' = came
        /\ came \in Nat /\ faults \in Nat /\ events \in Nat
        /\ came <= events /\ faults <= events /\ events <= MaxEvents /\ MaxEvents \in Nat
    BY <1>1, AirGapAssumption DEF Stored
  <2>2. CASE UNCHANGED <<faults, events>>
    BY <2>1, <2>2, <1>6 DEF Stored
  <2>3. CASE Fault
    BY <2>1, <2>3, <1>6 DEF Stored, Fault, Event
  <2> QED BY <2>2, <2>3
<1> QED BY <1>2, <1>3, <1>5, <1>7 DEF IInv

(* A query that fails Apply.                                               *)
LEMMA ReadFailsStep ==
    ASSUME IInv, NEW r \in Actors, NEW s \in Services, ReadFails(r, s)
    PROVE  IInv'
<1>1. /\ Reading(r, s) /\ Fault /\ Fail(r, s) /\ UNCHANGED <<db, came, file>>
      /\ live' = IF s = "bw" THEN [live EXCEPT !["bw"] = {}] ELSE live
  BY DEF ReadFails
<1>2. Running /\ Stored /\ Sealed
  BY DEF IInv
<1>3. todo[r] # <<>> /\ Head(todo[r]) = s /\ lock[s] \in {Free, r}
  BY <1>1, <1>2, WhenReading
<1>4. DOMAIN live = Services /\ DOMAIN file' = OnDisk
  BY <1>1, <1>2 DEF Stored
<1>5. /\ DOMAIN live' = Services /\ \A t \in Services \ {s} : live'[t] = live[t]
      /\ live'["dns"] = live["dns"] /\ live'["fw"] = live["fw"]
  <2>1. {"dns", "fw"} \subseteq Services
    BY DEF Services
  <2> QED BY <1>1, <1>4, <2>1
<1>6. /\ file'["dns"] # Torn => SafeConf(file'["dns"])
      /\ live'["dns"] # Down => SafeConf(live'["dns"])
  BY <1>1, <1>2, <1>5 DEF Sealed
<1> QED BY <1>1, <1>3, <1>4, <1>5, <1>6, FailStep

(* A passphrase that Apply refuses.                                        *)
LEMMA RefuseStep ==
    ASSUME IInv, NEW r \in Actors, Refuse(r)
    PROVE  IInv'
<1>1. /\ HasRead(r, "ap") /\ Fail(r, "ap") /\ "ap" \in Services
      /\ UNCHANGED <<db, came, file, live, faults, events>>
  BY DEF Refuse, Services
<1>2. Running /\ Stored /\ Sealed
  BY DEF IInv
<1>3. todo[r] # <<>> /\ Head(todo[r]) = "ap" /\ lock["ap"] \in {Free, r}
  BY <1>1, <1>2, WhenRead
<1>4. DOMAIN live' = Services /\ DOMAIN file' = OnDisk
  BY <1>1, <1>2 DEF Stored
<1>5. /\ file'["dns"] # Torn => SafeConf(file'["dns"])
      /\ live'["dns"] # Down => SafeConf(live'["dns"])
  BY <1>1, <1>2 DEF Sealed
<1> QED BY <1>1, <1>3, <1>4, <1>5, FailStep

(* os.WriteFile.                                                           *)
LEMMA WriteFileStep ==
    ASSUME IInv, NEW r \in Actors, NEW s \in Services, WriteFile(r, s)
    PROVE  IInv'
<1>1. /\ HasRead(r, s) /\ s \in OnDisk
      /\ phase' = [phase EXCEPT ![s] = "written"]
      /\ file' = [file EXCEPT ![s] = Gen(s, got[s])]
      /\ UNCHANGED <<db, came, todo, lock, got, live, stale, faults, events>>
  BY DEF WriteFile
<1>2. Running /\ Stored /\ Fresh /\ Sealed /\ FwReads /\ Seen
  BY DEF IInv
<1>3. /\ todo[r] # <<>> /\ Head(todo[r]) = s /\ lock[s] = r /\ phase[s] = "read"
      /\ Len(got[s]) = Width(s) /\ got[s] # <<>>
  BY <1>1, <1>2, WhenRead
<1>4. /\ phase' \in [Services -> {"idle", "read", "written", "switch"}]
      /\ phase'[s] = "written" /\ \A t \in Services \ {s} : phase'[t] = phase[t]
  BY <1>1, <1>2 DEF Running
<1>5. ASSUME NEW t \in Services PROVE Locked(t)'
  <2>1. CASE t = s
    <3>1. InApply(s)'
      BY <1>1, <1>3, <1>4 DEF InApply
    <3> QED BY <1>1, <1>3, <2>1, <3>1 DEF Locked
  <2>2. CASE t # s
    BY <1>1, <1>2, <1>4, <2>2 DEF Running, Locked, InApply, InSwitch
  <2> QED BY <2>1, <2>2
<1>6. Running'
  BY <1>1, <1>2, <1>4, <1>5 DEF Running
<1>7. Stored'
  BY <1>1, <1>2 DEF Stored
<1>8. ASSUME NEW t \in Services PROVE Current(t)'
  <2>1. Current(t)
    BY <1>2 DEF Fresh
  <2>2. ReadsHold(t) => ReadsHold(t)'
    <3>1. phase'[t] \in {"read", "written"} => phase[t] \in {"read", "written"}
      BY <1>3, <1>4
    <3>2. Alone(lock[t], t)' => Alone(lock[t], t)
      BY <1>1 DEF Alone
    <3> QED BY <1>1, <3>1, <3>2 DEF ReadsHold
  <2>3. Outstanding(t) => Outstanding(t)'
    BY <1>1 DEF Outstanding
  <2> QED BY <1>1, <2>1, <2>2, <2>3 DEF Current
<1>9. Sealed'
  <2>1. file'["dns"] # Torn => SafeConf(file'["dns"])
    <3>1. CASE s = "dns"
      <4>1. file'["dns"] = Gen("dns", got["dns"])
        BY <1>1, <1>2, <3>1 DEF Stored
      <4>2. Safe(got["dns"][1])
        BY <1>2, <1>3, <3>1 DEF Sealed
      <4> QED BY <4>1, <4>2, SafeGen
    <3>2. CASE s # "dns"
      <4>1. file'["dns"] = file["dns"]
        BY <1>1, <1>2, <3>2 DEF Stored, OnDisk
      <4> QED BY <4>1, <1>2 DEF Sealed
    <3> QED BY <3>1, <3>2
  <2> QED BY <1>1, <1>2, <2>1 DEF Sealed
<1>10. FwReads' /\ Seen'
  BY <1>1, <1>2 DEF FwReads, Seen
<1> QED BY <1>6, <1>7, <1>8, <1>9, <1>10 DEF IInv, Fresh

(* One that is cut short.                                                  *)
LEMMA WriteFailsStep ==
    ASSUME IInv, NEW r \in Actors, NEW s \in Services, WriteFails(r, s)
    PROVE  IInv'
<1>1. /\ HasRead(r, s) /\ Fault /\ Fail(r, s) /\ UNCHANGED <<db, came, live>>
      /\ file' = [file EXCEPT ![s] = Torn]
  BY DEF WriteFails
<1>2. Running /\ Stored /\ Sealed
  BY DEF IInv
<1>3. todo[r] # <<>> /\ Head(todo[r]) = s /\ lock[s] \in {Free, r}
  BY <1>1, <1>2, WhenRead
<1>4. /\ DOMAIN live' = Services /\ DOMAIN file' = OnDisk
      /\ file'["dns"] = file["dns"] \/ file'["dns"] = Torn
  BY <1>1, <1>2 DEF Stored, OnDisk
<1>5. /\ file'["dns"] # Torn => SafeConf(file'["dns"])
      /\ live'["dns"] # Down => SafeConf(live'["dns"])
  BY <1>1, <1>2, <1>4 DEF Sealed
<1> QED BY <1>1, <1>3, <1>4, <1>5, FailStep

(* The new policy takes effect.                                            *)
LEMMA LoadStep ==
    ASSUME IInv, NEW r \in Actors, NEW s \in Services, Load(r, s)
    PROVE  IInv'
<1>1. /\ ReadyToLoad(r, s) /\ live' = [live EXCEPT ![s] = Gen(s, got[s])]
      /\ Unlock(s) /\ UNCHANGED <<db, came, file, stale, faults, events>>
      /\ Done(r, s)
  BY DEF Load, Done
<1>2. Running /\ Stored /\ Fresh /\ Sealed /\ FwReads /\ Seen
  BY DEF IInv
<1>3. /\ todo[r] \in Plans /\ todo[r] # <<>> /\ Head(todo[r]) = s /\ lock[s] = r
      /\ phase[s] \in {"read", "written"} /\ Len(got[s]) = Width(s) /\ got[s] # <<>>
  BY <1>1, <1>2, WhenLoading
<1>4. todo' = [todo EXCEPT ![r] = Tail(todo[r])]
  BY <1>1, <1>2 DEF Done, Running
<1>5. Running'
  BY <1>1, <1>2, <1>3, DoneRuns
<1>6. /\ DOMAIN live' = Services /\ live'[s] = Gen(s, got[s])
      /\ \A t \in Services \ {s} : live'[t] = live[t]
  BY <1>1, <1>2 DEF Stored
<1>7. Stored'
  BY <1>1, <1>2, <1>6 DEF Stored
<1>8. ASSUME NEW t \in Services PROVE Current(t)'
  <2>1. CASE t # s
    BY <1>1, <1>2, <1>3, <1>4, <1>6, <2>1, CurrentReleased
  <2>2. CASE t = s
    <3>1. ReadsHold(s)'
      <4>1. lock'[s] = Free
        BY <1>1, <1>2 DEF Unlock, Running
      <4> QED BY <4>1, AirGapAssumption DEF ReadsHold
    <3>2. ASSUME s \notin stale, ~Outstanding(s)' PROVE live'[s] = Gen(s, Views(db', s))
      <4>1. Alone(r, s)
        <5> SUFFICES ASSUME NEW x \in Actors \ {r} PROVE s \notin Range(todo[x])
          BY DEF Alone
        <5>1. todo'[x] = todo[x]
          BY <1>2, <1>4 DEF Running
        <5> QED BY <3>2, <5>1 DEF Outstanding
      <4>2. ReadsHold(s)
        BY <1>2, <3>2 DEF Fresh, Current
      <4>3. \A i \in 1 .. Width(s) : got[s][i] = Views(db, s)[i]
        BY <1>3, <4>1, <4>2 DEF ReadsHold
      <4>4. Gen(s, got[s]) = Gen(s, Views(db, s))
        BY <4>3, GenOfViews
      <4> QED BY <1>1, <1>6, <4>4
    <3> QED BY <1>1, <2>2, <3>1, <3>2 DEF Current
  <2> QED BY <2>1, <2>2
<1>9. live'["dns"] # Down => SafeConf(live'["dns"])
  <2>1. CASE s = "dns"
    <3>1. Safe(got["dns"][1])
      BY <1>2, <1>3, <2>1 DEF Sealed
    <3> QED BY <1>6, <2>1, <3>1, SafeGen
  <2>2. CASE s # "dns"
    <3>1. live'["dns"] = live["dns"]
      BY <1>6, <2>2 DEF Services
    <3> QED BY <3>1, <1>2 DEF Sealed
  <2> QED BY <2>1, <2>2
<1>10. live["fw"] # NoRules => live'["fw"] # NoRules
  <2>1. CASE s = "fw"
    <3>1. \A i \in 1 .. 4 : got["fw"][i] \in FwView(i)
      BY <1>2, <1>3, <2>1 DEF FwReads, Width
    <3> QED BY <1>6, <2>1, <3>1, GenIsRuleset
  <2>2. CASE s # "fw"
    BY <1>6, <2>2 DEF Services
  <2> QED BY <2>1, <2>2
<1>11. file'["dns"] # Torn => SafeConf(file'["dns"])
  BY <1>1, <1>2 DEF Sealed
<1>12. Sealed' /\ FwReads' /\ Seen'
  BY <1>1, <1>2, <1>9, <1>10, <1>11, UnlockKeeps
<1> QED BY <1>5, <1>7, <1>8, <1>12 DEF IInv, Fresh

(* A command that fails.                                                   *)
LEMMA LoadFailsStep ==
    ASSUME IInv, NEW r \in Actors, NEW s \in Services, LoadFails(r, s)
    PROVE  IInv'
<1>1. /\ ReadyToLoad(r, s) /\ Fail(r, s) /\ UNCHANGED <<db, came, file>>
      /\ UNCHANGED <<faults, events>> \/ Fault
  BY DEF LoadFails
<1>2. PICK v : /\ live' = [live EXCEPT ![s] = v]
               /\ s = "fw" => v = live.fw
               /\ s = "dns" => v \in {live["dns"], Down}
  BY DEF LoadFails
<1>3. Running /\ Stored /\ Sealed
  BY DEF IInv
<1>4. todo[r] # <<>> /\ Head(todo[r]) = s /\ lock[s] \in {Free, r}
  BY <1>1, <1>3, WhenLoading
<1>5. /\ DOMAIN live' = Services /\ DOMAIN file' = OnDisk
      /\ \A t \in Services \ {s} : live'[t] = live[t]
      /\ live'["dns"] \in {live["dns"], Down} /\ live'["fw"] = live["fw"]
  BY <1>1, <1>2, <1>3 DEF Stored, Services
<1>6. /\ file'["dns"] # Torn => SafeConf(file'["dns"])
      /\ live'["dns"] # Down => SafeConf(live'["dns"])
  BY <1>1, <1>3, <1>5 DEF Sealed
<1> QED BY <1>1, <1>4, <1>5, <1>6, FailStep

-----------------------------------------------------------------------------
(* The steps of SetEnabled.                                                *)

(* Done with the hotspot: at most the hotspot has changed, and it is stale *)
(* or was current.                                                         *)
LEMMA SwitchDone ==
    ASSUME IInv, NEW r \in Actors,
           NEW jobs \in SUBSET {"raise", "lower", "verify"}, Switching(r, jobs),
           Done(r, "ap"), UNCHANGED <<db, came, file>>,
           stale' \in {stale, stale \cup {"ap"}},
           live' = live \/ (\E v : live' = [live EXCEPT !["ap"] = v]),
           "ap" \notin stale' /\ live'["ap"] # live["ap"] => live["ap"] = Down,
           UNCHANGED <<faults, events>> \/ Fault
    PROVE  IInv'
<1>1. Running /\ Stored /\ Fresh /\ Sealed /\ FwReads /\ Seen /\ "ap" \in Services
  BY DEF IInv, Services
<1>2. /\ todo[r] \in Plans /\ todo[r] # <<>> /\ todo[r] = <<Head(todo[r])>>
      /\ Head(todo[r]) \in jobs /\ lock["ap"] \in {Free, r}
  BY <1>1, WhenSwitching
<1>3. Unlock("ap") /\ todo' = [todo EXCEPT ![r] = Tail(todo[r])]
  BY <1>1 DEF Done, Running
<1>4. Running'
  BY <1>1, <1>2, DoneRuns
<1>5. /\ DOMAIN live' = Services /\ \A t \in Services \ {"ap"} : live'[t] = live[t]
      /\ live'["dns"] = live["dns"] /\ live'["fw"] = live["fw"]
  BY <1>1 DEF Stored, Services
<1>6. Stored'
  <2>1. /\ came \in Nat /\ faults \in Nat /\ events \in Nat
        /\ came <= events /\ faults <= events /\ events <= MaxEvents /\ MaxEvents \in Nat
        /\ stale' \subseteq Services
    BY <1>1, AirGapAssumption DEF Stored
  <2>2. CASE UNCHANGED <<faults, events>>
    BY <1>1, <1>5, <2>1, <2>2 DEF Stored
  <2>3. CASE Fault
    BY <1>1, <1>5, <2>1, <2>3 DEF Stored, Fault, Event
  <2> QED BY <2>2, <2>3
<1>7. ASSUME NEW t \in Services PROVE Current(t)'
  <2>1. Head(todo[r]) \notin Services
    BY <1>2 DEF Services
  <2>2. CASE t # "ap"
    <3>1. db' = db /\ stale \subseteq stale' /\ live'[t] = live[t]
      BY <1>5, <2>2
    <3>2. t \in Services \ {"ap"} /\ Running /\ Fresh /\ todo[r] # <<>> /\ "ap" \in Services
      BY <1>1, <1>2, <2>2
    <3> DEFINE q == Tail(todo[r])
    <3>3. q = Tail(todo[r]) /\ todo' = [todo EXCEPT ![r] = q]
      BY <1>3
    <3> HIDE DEF q
    <3> QED BY <1>3, <2>1, <3>1, <3>2, <3>3, CurrentReleased
  <2>3. CASE t = "ap"
    <3>1. ReadsHold("ap")'
      <4>1. lock'["ap"] = Free
        BY <1>1, <1>3 DEF Unlock, Running
      <4> QED BY <4>1, AirGapAssumption DEF ReadsHold
    <3>2. ASSUME "ap" \notin stale', ~Outstanding("ap")'
          PROVE  live'["ap"] = Gen("ap", Views(db', "ap"))
      <4>1. ~Outstanding("ap")
        <5> SUFFICES ASSUME NEW x \in Actors, "ap" \in Range(todo[x]) PROVE FALSE
          BY DEF Outstanding
        <5>1. x # r
          <6>1. Range(todo[r]) = {Head(todo[r])}
            BY <1>2, RangeOf
          <6> QED BY <6>1, <2>1, <1>1
        <5>2. todo'[x] = todo[x]
          BY <1>1, <1>3, <5>1 DEF Running
        <5> QED BY <3>2, <5>2 DEF Outstanding
      <4>2. live["ap"] = Gen("ap", Views(db, "ap"))
        BY <1>1, <3>2, <4>1 DEF Fresh, Current
      <4>3. Gen("ap", Views(db, "ap")) = db.ap /\ db.ap \in APSettings
        BY <1>1 DEF Gen, Views, Stored, Database
      <4>4. live["ap"] # Down
        BY <4>2, <4>3, AirGapAssumption
      <4> QED BY <3>2, <4>2, <4>4
    <3> QED BY <2>3, <3>1, <3>2 DEF Current
  <2> QED BY <2>2, <2>3
<1>8. /\ file'["dns"] # Torn => SafeConf(file'["dns"])
      /\ live'["dns"] # Down => SafeConf(live'["dns"])
  BY <1>1, <1>5 DEF Sealed
<1>9. Sealed' /\ FwReads' /\ Seen'
  BY <1>1, <1>3, <1>5, <1>8, UnlockKeeps
<1> QED BY <1>4, <1>6, <1>7, <1>9 DEF IInv, Fresh

(* systemctl stop.                                                         *)
LEMMA LowerStep ==
    ASSUME IInv, NEW r \in Actors, Lower(r)
    PROVE  IInv'
<1>1. /\ Switching(r, {"lower"}) /\ Done(r, "ap") /\ UNCHANGED <<db, came, file>>
      /\ stale' = stale \cup {"ap"}
      /\ live' = live \/ live' = [live EXCEPT !["ap"] = Down]
      /\ UNCHANGED <<faults, events>> \/ Fault
  BY DEF Lower
<1>2. {"lower"} \in SUBSET {"raise", "lower", "verify"}
  OBVIOUS
<1> QED BY <1>1, <1>2, SwitchDone

(* systemctl start, over a kernel with rules: a running unit is left alone. *)
LEMMA RaiseStep ==
    ASSUME IInv, NEW r \in Actors, Raise(r)
    PROVE  IInv' /\ live.fw # NoRules
<1>1. /\ Switching(r, {"raise", "verify"}) /\ Verified /\ Done(r, "ap")
      /\ UNCHANGED <<db, came, file, stale>>
      /\ live' = live \/ (live["ap"] = Down /\ \E v : live' = [live EXCEPT !["ap"] = v])
      /\ UNCHANGED <<faults, events>> \/ Fault
  BY DEF Raise
<1>2. {"raise", "verify"} \in SUBSET {"raise", "lower", "verify"}
  OBVIOUS
<1>3. IInv'
  BY <1>1, <1>2, SwitchDone
<1>4. Len(got["ap"]) = 3 /\ got["ap"][3] = "drop"
  BY <1>1 DEF Verified, verifyOutput
<1> QED BY <1>3, <1>4 DEF IInv, Seen

(* The kernel's chains, as the third answer of Verify.                     *)
LEMMA ThirdAnswer ==
    ASSUME NEW a, (<<a>> \o Chains)[3] = "drop"
    PROVE  live["fw"] # NoRules
<1> SUFFICES ASSUME live["fw"] = NoRules PROVE FALSE
  OBVIOUS
<1>1. Chains = <<{}, "absent">>
  BY DEF Chains
<1>2. (<<a>> \o <<{}, "absent">>)[3] = "absent"
  OBVIOUS
<1> QED BY <1>1, <1>2

(* A step of SetEnabled that holds or takes the hotspot's mutex.           *)
LEMMA SwitchHeld ==
    ASSUME Running, NEW r \in Actors, NEW q \in {<<"raise">>, <<"verify">>, <<"fw", "verify">>},
           NEW jobs \in SUBSET {"raise", "lower", "verify"}, Switching(r, jobs),
           NEW g, Tuple(g, Len(g)), Len(g) <= 3,
           todo' = [todo EXCEPT ![r] = q], lock' = [lock EXCEPT !["ap"] = r],
           phase' = [phase EXCEPT !["ap"] = "switch"],
           got' = [got EXCEPT !["ap"] = g], came' = came
    PROVE  Running' /\ \A x \in Actors, t \in Services :
                          t \in Range(todo[x]) => t \in Range(todo'[x])
<1>1. /\ todo[r] \in Plans /\ todo[r] # <<>> /\ todo[r] = <<Head(todo[r])>>
      /\ Head(todo[r]) \in jobs /\ lock["ap"] \in {Free, r}
  BY WhenSwitching
<1>2. /\ q \in Plans /\ q # <<>> /\ "sni" \notin Range(q) /\ "ap" \in Services
      /\ Range(todo[r]) \cap Services = {}
  <2>1. Range(todo[r]) = {Head(todo[r])}
    BY <1>1, RangeOf
  <2>2. Range(q) \in {{"raise"}, {"verify"}, {"fw", "verify"}}
    <3>1. /\ Range(<<"raise">>) = {"raise"} /\ Range(<<"verify">>) = {"verify"}
          /\ Range(<<"fw", "verify">>) = {"fw", "verify"}
      BY RangeOf
    <3> QED BY <3>1
  <2> QED BY <1>1, <2>1, <2>2 DEF Plans, Services
<1>3. /\ todo' \in [Actors -> Plans] /\ todo'[r] = q
      /\ \A x \in Actors \ {r} : todo'[x] = todo[x]
      /\ lock' \in [Services -> Actors \cup {Free}] /\ lock'["ap"] = r
      /\ phase' \in [Services -> {"idle", "read", "written", "switch"}]
      /\ phase'["ap"] = "switch"
      /\ DOMAIN got' = Services /\ got'["ap"] = g
      /\ \A t \in Services \ {"ap"} :
           lock'[t] = lock[t] /\ phase'[t] = phase[t] /\ got'[t] = got[t]
  BY <1>2 DEF Running
<1>4. \A x \in Actors : "sni" \in Range(todo'[x]) => x = Refresher
  BY <1>2, <1>3 DEF Running
<1>5. ASSUME NEW h \in Handlers, came' < h PROVE todo'[h] = <<>>
  <2>1. h \in Actors /\ todo[h] = <<>>
    BY <1>5 DEF Running, Actors
  <2> QED BY <1>1, <1>3, <2>1
<1>6. ASSUME NEW t \in Services PROVE Tuple(got'[t], Len(got'[t])) /\ Len(got'[t]) <= 4
  <2>1. CASE t = "ap"
    <3>1. Len(g) \in Nat
      BY DEF Tuple
    <3> QED BY <1>3, <2>1, <3>1
  <2>2. CASE t # "ap"
    BY <1>3, <2>2 DEF Running
  <2> QED BY <2>1, <2>2
<1>7. ASSUME NEW t \in Services PROVE Locked(t)'
  <2>1. CASE t = "ap"
    <3>1. InSwitch'
      BY <1>3 DEF InSwitch
    <3> QED BY <1>3, <2>1, <3>1 DEF Locked
  <2>2. CASE t # "ap"
    <3>1. Locked(t) /\ lock'[t] = lock[t] /\ phase'[t] = phase[t] /\ got'[t] = got[t]
      BY <1>3, <2>2 DEF Running
    <3>2. lock[t] # r
      <4>1. Head(todo[r]) # t
        BY <1>1 DEF Services
      <4> QED BY <4>1, <3>1, <2>2, AirGapAssumption DEF Locked, InApply
    <3>3. lock[t] \in Actors => todo'[lock[t]] = todo[lock[t]]
      BY <1>3, <3>2
    <3> QED BY <2>2, <3>1, <3>3 DEF Locked, InApply
  <2> QED BY <2>1, <2>2
<1>8. Running'
  BY <1>3, <1>4, <1>5, <1>6, <1>7 DEF Running
<1>9. ASSUME NEW x \in Actors, NEW t \in Services, t \in Range(todo[x])
      PROVE  t \in Range(todo'[x])
  BY <1>2, <1>3, <1>9
<1> QED BY <1>8, <1>9

(* Fresh, where no service but the hotspot is touched, and that only in    *)
(* SetEnabled.                                                             *)
LEMMA SwitchFresh ==
    ASSUME Running, Fresh, UNCHANGED <<db, live, stale>>, phase'["ap"] = "switch",
           \A t \in Services \ {"ap"} :
              lock'[t] = lock[t] /\ phase'[t] = phase[t] /\ got'[t] = got[t],
           \A x \in Actors, t \in Services : t \in Range(todo[x]) => t \in Range(todo'[x])
    PROVE  Fresh'
<1>1. ASSUME NEW t \in Services PROVE Current(t)'
  <2>1. Current(t)
    BY DEF Fresh
  <2>2. CASE t # "ap"
    BY <2>1, <2>2, CurrentKept
  <2>3. CASE t = "ap"
    <3>1. ReadsHold("ap")'
      BY DEF ReadsHold
    <3>2. Outstanding("ap") => Outstanding("ap")'
      BY <2>3 DEF Outstanding
    <3> QED BY <2>1, <2>3, <3>1, <3>2 DEF Current
  <2> QED BY <2>2, <2>3
<1> QED BY <1>1 DEF Fresh

(* Verify asks once more.                                                  *)
LEMMA VerifyStep ==
    ASSUME IInv, NEW r \in Actors, Verify(r)
    PROVE  IInv'
<1> DEFINE n == Len(got["ap"])
           v == (<<deviceSnapshot(db).filtered>> \o Chains)[n + 1]
           g == Append(got["ap"], v)
<1>1. /\ Switching(r, {"raise", "verify"}) /\ n < 3
      /\ lock' = [lock EXCEPT !["ap"] = r]
      /\ phase' = [phase EXCEPT !["ap"] = "switch"]
      /\ UNCHANGED <<db, came, todo, file, live, stale, faults, events>>
  BY DEF Verify
<1>2. Running /\ Stored /\ Fresh /\ Sealed /\ FwReads /\ Seen /\ {"fw", "dns", "ap"} \subseteq Services
  BY DEF IInv, Services
<1>3. got' = [got EXCEPT !["ap"] = g]
  BY <1>2 DEF Verify, Running
<1>4. {"raise", "verify"} \in SUBSET {"raise", "lower", "verify"}
  OBVIOUS
<1>5. /\ todo[r] \in Plans /\ todo[r] = <<Head(todo[r])>> /\ Head(todo[r]) \in {"raise", "verify"}
      /\ Tuple(got["ap"], n) /\ n \in Nat
  BY <1>1, <1>2, <1>4, WhenSwitching
<1>6. todo[r] \in {<<"raise">>, <<"verify">>, <<"fw", "verify">>}
  BY <1>5
<1>7. todo' = [todo EXCEPT ![r] = todo[r]]
  BY <1>1, <1>2 DEF Running
<1>8. Tuple(g, n + 1) /\ g[n + 1] = v
  <2> HIDE DEF n, v
  <2>1. PICK h : h = got["ap"] /\ Tuple(h, n)
    BY <1>5
  <2>2. Extends(Append(h, v), h, n, v)
    BY <2>1, TupleAppend
  <2> QED BY <2>1, <2>2 DEF Extends
<1> HIDE DEF g
<1>9. Len(g) = n + 1
  BY <1>8, TupleLen
<1>10. Running' /\ \A x \in Actors, t \in Services : t \in Range(todo[x]) => t \in Range(todo'[x])
  <2>1. Tuple(g, Len(g)) /\ Len(g) <= 3
    BY <1>1, <1>5, <1>8, <1>9
  <2> QED BY <1>1, <1>2, <1>3, <1>4, <1>6, <1>7, <2>1, SwitchHeld
<1>11. Stored'
  BY <1>1, <1>2 DEF Stored
<1>12. /\ phase'["ap"] = "switch" /\ got'["ap"] = g
       /\ \A t \in Services \ {"ap"} :
            lock'[t] = lock[t] /\ phase'[t] = phase[t] /\ got'[t] = got[t]
  BY <1>1, <1>2, <1>3 DEF Running
<1>13. Fresh'
  BY <1>1, <1>2, <1>10, <1>12, SwitchFresh
<1>14. Sealed' /\ FwReads'
  <2>1. got'["dns"] = got["dns"] /\ got'["fw"] = got["fw"]
    BY <1>2, <1>12
  <2> QED BY <1>1, <1>2, <2>1 DEF Sealed, FwReads
<1>15. Seen'
  <2> SUFFICES ASSUME Len(g) = 3, g[3] = "drop" PROVE live["fw"] # NoRules
    BY <1>1, <1>12 DEF Seen
  <2> HIDE DEF n, v
  <2>1. n + 1 = 3
    BY <1>5, <1>9
  <2>2. v = "drop"
    BY <1>8, <2>1
  <2>3. (<<deviceSnapshot(db).filtered>> \o Chains)[3] = "drop"
    BY <2>1, <2>2, Zenon DEF v
  <2> QED BY <2>3, ThirdAnswer
<1> QED BY <1>10, <1>11, <1>13, <1>14, <1>15 DEF IInv

(* Verify has failed: reapply under the hotspot's mutex, or refuse.        *)
LEMMA GateShutStep ==
    ASSUME IInv, NEW r \in Actors, GateShut(r)
    PROVE  IInv'
<1>1. /\ Switching(r, {"raise", "verify"}) /\ UNCHANGED <<db, came, file, live, stale>>
      /\ UNCHANGED <<faults, events>> \/ Fault
  BY DEF GateShut
<1>2. Running /\ Stored /\ Fresh /\ Sealed /\ FwReads /\ Seen /\ {"fw", "dns", "ap"} \subseteq Services
  BY DEF IInv, Services
<1>3. {"raise", "verify"} \in SUBSET {"raise", "lower", "verify"}
  OBVIOUS
<1>4. CASE Head(todo[r]) # "raise"
  <2>1. Done(r, "ap")
    BY <1>4 DEF GateShut
  <2> QED BY <1>1, <1>3, <2>1, SwitchDone
<1>5. CASE Head(todo[r]) = "raise"
  <2>1. /\ todo' = [todo EXCEPT ![r] = <<"fw", "verify">>]
        /\ lock' = [lock EXCEPT !["ap"] = r]
        /\ phase' = [phase EXCEPT !["ap"] = "switch"]
        /\ got' = [got EXCEPT !["ap"] = <<>>]
    BY <1>5 DEF GateShut
  <2>2. Tuple(<<>>, Len(<<>>)) /\ Len(<<>>) <= 3 /\ Len(<<>>) = 0
    BY TupleEmpty
  <2>3. PICK q \in {<<"raise">>, <<"verify">>, <<"fw", "verify">>} : q = <<"fw", "verify">>
    OBVIOUS
  <2>4. todo' = [todo EXCEPT ![r] = q]
    BY <2>1, <2>3
  <2>5. Running' /\ \A x \in Actors, t \in Services : t \in Range(todo[x]) => t \in Range(todo'[x])
    BY <1>1, <1>2, <1>3, <2>1, <2>2, <2>4, SwitchHeld
  <2>6. /\ phase'["ap"] = "switch" /\ got'["ap"] = <<>>
        /\ \A t \in Services \ {"ap"} :
             lock'[t] = lock[t] /\ phase'[t] = phase[t] /\ got'[t] = got[t]
    BY <1>2, <2>1 DEF Running
  <2>7. Fresh'
    BY <1>1, <1>2, <2>5, <2>6, SwitchFresh
  <2>8. Stored'
    <3>1. /\ came \in Nat /\ faults \in Nat /\ events \in Nat
          /\ came <= events /\ faults <= events /\ events <= MaxEvents /\ MaxEvents \in Nat
      BY <1>2, AirGapAssumption DEF Stored
    <3>2. CASE UNCHANGED <<faults, events>>
      BY <1>1, <1>2, <3>2 DEF Stored
    <3>3. CASE Fault
      BY <1>1, <1>2, <3>1, <3>3 DEF Stored, Fault, Event
    <3> QED BY <1>1, <3>2, <3>3
  <2>9. Sealed' /\ FwReads' /\ Seen'
    <3>1. got'["dns"] = got["dns"] /\ got'["fw"] = got["fw"]
      BY <1>2, <2>6
    <3> QED BY <1>1, <1>2, <2>2, <2>6, <3>1 DEF Sealed, FwReads, Seen
  <2> QED BY <2>5, <2>7, <2>8, <2>9 DEF IInv
<1> QED BY <1>4, <1>5

-----------------------------------------------------------------------------
(* Requests.                                                               *)

\* What every request sees to: tables of the right type, no unlistable name,
\* and each view that changes has its service applied or counted as stale.
Serves(e, jobs, lag) ==
    /\ e \in Database /\ jobs \in Plans /\ "sni" \notin Range(jobs) /\ lag \subseteq Services
    /\ \A t \in Services : t \notin Range(jobs) \cup lag => Views(e, t) = Views(db, t)
    /\ \A f \in Filters, n \in Names : e.domains[f][n] # "none" => Listable(n)

(* A request writes the tables and queues its Applies.                     *)
LEMMA ServeStep ==
    ASSUME IInv, Event, NEW e, NEW jobs, NEW lag, Serves(e, jobs, lag), Serve(e, jobs, lag)
    PROVE  IInv'
<1>1. Running /\ Stored /\ Fresh /\ Sealed /\ FwReads /\ Seen
  BY DEF IInv
<1> DEFINE h == came + 1
<1>2. /\ db' = e /\ came' = h /\ todo' = [todo EXCEPT ![h] = jobs] /\ stale' = stale \cup lag
      /\ UNCHANGED <<lock, phase, got, file, live, faults>>
      /\ events < MaxEvents /\ events' = events + 1
  BY DEF Serve, Event, runVars
<1>3. /\ came \in Nat /\ faults \in Nat /\ events \in Nat /\ MaxEvents \in Nat
      /\ came <= events /\ faults <= events /\ stale \subseteq Services
  BY <1>1, AirGapAssumption DEF Stored
<1>4. h \in Handlers /\ h \in Actors /\ came < h /\ todo[h] = <<>>
  <2>1. h \in Handlers /\ came < h
    BY <1>2, <1>3 DEF Handlers
  <2> QED BY <1>1, <2>1 DEF Running, Actors
<1>5. Stored'
  BY <1>1, <1>2, <1>3 DEF Stored, Serves
<1> HIDE DEF h
<1>6. /\ todo' \in [Actors -> Plans] /\ todo'[h] = jobs
      /\ \A x \in Actors \ {h} : todo'[x] = todo[x]
  BY <1>1, <1>2, <1>4 DEF Running, Serves
<1>7. ASSUME NEW t \in Services, lock[t] \in Actors PROVE lock[t] # h
  <2>1. Locked(t) /\ lock[t] # Free
    BY <1>1, <1>7, AirGapAssumption DEF Running
  <2>2. todo[lock[t]] # <<>>
    <3>1. CASE InApply(t)
      BY <3>1 DEF InApply
    <3>2. CASE t = "ap" /\ InSwitch
      <4>1. <<>> \notin {<<"raise">>, <<"verify">>, <<"fw", "verify">>}
        OBVIOUS
      <4> QED BY <3>2, <4>1 DEF InSwitch
    <3> QED BY <2>1, <3>1, <3>2 DEF Locked
  <2> QED BY <1>4, <2>2
<1>8. Running'
  <2>1. ASSUME NEW x \in Actors, "sni" \in Range(todo'[x]) PROVE x = Refresher
    BY <1>1, <1>6, <2>1 DEF Running, Serves
  <2>2. ASSUME NEW k \in Handlers, came' < k PROVE todo'[k] = <<>>
    <3>1. k # h /\ came < k /\ k \in Actors
      BY <1>2, <1>3, <2>2 DEF h, Handlers, Actors
    <3> QED BY <1>1, <1>6, <3>1 DEF Running
  <2>3. ASSUME NEW t \in Services PROVE Locked(t)'
    <3>1. lock[t] \in Actors => todo'[lock[t]] = todo[lock[t]]
      BY <1>6, <1>7
    <3> QED BY <1>1, <1>2, <3>1 DEF Running, Locked, InApply, InSwitch
  <2> QED BY <1>1, <1>2, <1>6, <2>1, <2>2, <2>3 DEF Running
<1>9. ASSUME NEW t \in Services PROVE Current(t)'
  <2>1. Current(t) /\ (t \in stale => t \in stale')
    BY <1>1, <1>2 DEF Fresh
  <2>2. \A x \in Actors : t \in Range(todo[x]) => t \in Range(todo'[x])
    <3>1. Range(todo[h]) = {}
      BY <1>4, RangeOf
    <3> QED BY <1>6, <3>1
  <2>3. CASE t \in Range(jobs)
    <3>1. Outstanding(t)'
      BY <1>4, <1>6, <2>3 DEF Outstanding
    <3>2. ReadsHold(t)'
      <4>1. lock[t] \in Actors => ~Alone(lock[t], t)'
        BY <1>2, <1>4, <1>6, <1>7, <2>3 DEF Alone
      <4> QED BY <1>2, <4>1 DEF ReadsHold
    <3> QED BY <3>1, <3>2 DEF Current
  <2>4. CASE t \notin Range(jobs)
    <3>1. t \notin stale' => Views(db', t) = Views(db, t)
      BY <1>2, <2>4 DEF Serves
    <3> QED BY <1>2, <2>1, <2>2, <3>1, CurrentKept
  <2> QED BY <2>3, <2>4
<1>10. Sealed' /\ FwReads' /\ Seen'
  BY <1>1, <1>2 DEF Serves, Sealed, FwReads, Seen
<1> QED BY <1>5, <1>8, <1>9, <1>10 DEF IInv, Fresh

\* The parts of the tables a service's views are taken from.
Alike(t, d, e) ==
    /\ t = "fw" => /\ e.rules = d.rules /\ deviceSnapshot(e) = deviceSnapshot(d)
                   /\ filterUDPPorts(e) = filterUDPPorts(d)
                   /\ filterTCPPorts(e) = filterTCPPorts(d)
    /\ t \in {"dns", "sni"} => allowedDomains(e) = allowedDomains(d)
    /\ t = "dns" => deviceSnapshot(e).open = deviceSnapshot(d).open
    /\ t = "sni" => deviceSnapshot(e).filtered = deviceSnapshot(d).filtered
    /\ t = "bw" => e.limits = d.limits /\ e.ip = d.ip
    /\ t = "ap" => e.ap = d.ap

(* Where they agree the views do.                                          *)
LEMMA AlikeViews ==
    ASSUME NEW d, NEW e, NEW t \in Services, Alike(t, d, e)
    PROVE  Views(e, t) = Views(d, t)
<1>1. CASE t = "fw"
  <2>1. rulesOf(e) = rulesOf(d)
    BY <1>1 DEF Alike, rulesOf, ListRules
  <2> QED BY <1>1, <2>1 DEF Alike, Views
<1>2. CASE t = "dns"
  BY <1>2 DEF Alike, Views, openMACs
<1>3. CASE t = "bw"
  BY <1>3 DEF Alike, Views, ListLimits
<1>4. CASE t \in {"ap", "sni"}
  BY <1>4 DEF Alike, Views
<1> QED BY <1>1, <1>2, <1>3, <1>4 DEF Services

(* Equal tables give equal views.                                          *)
LEMMA SameTables ==
    ASSUME NEW d, NEW e
    PROVE  /\ e.devices = d.devices => deviceSnapshot(e) = deviceSnapshot(d)
           /\ e.filters = d.filters => /\ filterUDPPorts(e) = filterUDPPorts(d)
                                       /\ filterTCPPorts(e) = filterTCPPorts(d)
           /\ e.filters = d.filters /\ e.domains = d.domains
                => allowedDomains(e) = allowedDomains(d)
  BY DEF deviceSnapshot, filterUDPPorts, filterTCPPorts, allowedDomains

(* The plans of the handlers.                                              *)
LEMMA HandlerPlans ==
    /\ {<<>>, <<"fw", "dns">>, <<"dns", "fw">>, <<"fw">>, <<"dns">>, <<"bw">>, <<"ap">>,
        <<"raise">>, <<"lower">>} \subseteq Plans
    /\ Range(<<"fw", "dns">>) = {"fw", "dns"} /\ Range(<<"dns", "fw">>) = {"fw", "dns"}
    /\ Range(<<"fw">>) = {"fw"} /\ Range(<<"dns">>) = {"dns"} /\ Range(<<"bw">>) = {"bw"}
    /\ Range(<<"ap">>) = {"ap"} /\ Range(<<>>) = {}
    /\ Range(<<"raise">>) = {"raise"} /\ Range(<<"lower">>) = {"lower"}
  BY RangeOf DEF Plans

\* e differs from the tables in those of ks only.
Differs(e, ks) ==
    /\ e \in Database
    /\ "devices" \notin ks => e.devices = db.devices
    /\ "ip" \notin ks => e.ip = db.ip
    /\ "rules" \notin ks => e.rules = db.rules
    /\ "filters" \notin ks => e.filters = db.filters
    /\ "domains" \notin ks => e.domains = db.domains
    /\ "limits" \notin ks => e.limits = db.limits
    /\ "ap" \notin ks => e.ap = db.ap

\* The services that read some of those tables.
Readers(ks) ==
    (IF ks \cap {"rules", "devices", "filters"} # {} THEN {"fw"} ELSE {})
    \cup (IF ks \cap {"filters", "domains", "devices"} # {} THEN {"dns", "sni"} ELSE {})
    \cup (IF ks \cap {"limits", "ip"} # {} THEN {"bw"} ELSE {})
    \cup (IF "ap" \in ks THEN {"ap"} ELSE {})

(* Applying them, or counting them as stale, serves the request.           *)
LEMMA ServesReaders ==
    ASSUME IInv, NEW e, NEW ks, Differs(e, ks), NEW jobs \in Plans, NEW lag \in SUBSET Services,
           "sni" \notin Range(jobs), Readers(ks) \subseteq Range(jobs) \cup lag,
           "domains" \in ks =>
              \A f \in Filters, n \in Names : e.domains[f][n] # "none" => Listable(n)
    PROVE  Serves(e, jobs, lag)
<1>1. ASSUME NEW t \in Services, t \notin Readers(ks) PROVE Views(e, t) = Views(db, t)
  <2>1. /\ t = "fw" => e.rules = db.rules /\ e.devices = db.devices /\ e.filters = db.filters
        /\ t \in {"dns", "sni"} => /\ e.filters = db.filters /\ e.domains = db.domains
                                   /\ e.devices = db.devices
        /\ t = "bw" => e.limits = db.limits /\ e.ip = db.ip
        /\ t = "ap" => e.ap = db.ap
    BY <1>1 DEF Differs, Readers
  <2>2. Alike(t, db, e)
    BY <2>1, SameTables DEF Alike
  <2> QED BY <2>2, AlikeViews
<1>2. \A f \in Filters, n \in Names : e.domains[f][n] # "none" => Listable(n)
  BY DEF IInv, Sealed, Differs
<1>3. e \in Database
  BY DEF Differs
<1> QED BY <1>1, <1>2, <1>3 DEF Serves

(* The requests that change the devices.                                   *)
LEMMA DeviceRequests ==
    ASSUME IInv, Event, SetStatus \/ DeleteDevice
    PROVE  IInv'
<1>1. db \in Database
  BY DEF IInv, Stored
<1>2. CASE SetStatus
  <2>1. PICK m \in Devices, st \in {"blocked", "filtered", "open"} :
          Serve([db EXCEPT !.devices[m] = Put(@, st)], <<"fw", "dns">>, {"sni"})
    BY <1>2 DEF SetStatus
  <2>2. PICK e : e = [db EXCEPT !.devices[m] = Put(@, st)]
    OBVIOUS
  <2>3. Differs(e, {"devices"})
    BY <1>1, <2>2 DEF Differs, Database, Put, Status
  <2>4. Serves(e, <<"fw", "dns">>, {"sni"})
    <3>1. Readers({"devices"}) \subseteq {"fw", "dns", "sni"}
      BY DEF Readers
    <3> QED BY <2>3, <3>1, HandlerPlans, ServesReaders DEF Services
  <2> QED BY <2>1, <2>2, <2>4, ServeStep
<1>3. CASE DeleteDevice
  <2>1. PICK m \in Devices :
          Serve([db EXCEPT !.devices[m] = "none", !.ip[m] = NoIP], <<"fw", "dns">>, {"bw", "sni"})
    BY <1>3 DEF DeleteDevice
  <2>2. PICK e : e = [db EXCEPT !.devices[m] = "none", !.ip[m] = NoIP]
    OBVIOUS
  <2>3. Differs(e, {"devices", "ip"})
    BY <1>1, <2>2 DEF Differs, Database, Status
  <2>4. Serves(e, <<"fw", "dns">>, {"bw", "sni"})
    <3>1. Readers({"devices", "ip"}) \subseteq {"fw", "dns", "sni", "bw"}
      BY DEF Readers
    <3> QED BY <2>3, <3>1, HandlerPlans, ServesReaders DEF Services
  <2> QED BY <2>1, <2>2, <2>4, ServeStep
<1> QED BY <1>2, <1>3

(* The requests that change the rules.                                     *)
LEMMA RuleRequests ==
    ASSUME IInv, Event, CreateRule \/ UpdateRule \/ DeleteRule
    PROVE  IInv'
<1>1. db \in Database
  BY DEF IInv, Stored
<1>2. PICK q \in Rules, row \in RuleRows \cup {NoRow} :
        Serve([db EXCEPT !.rules[q] = row], <<"fw">>, {})
  <2>1. CASE CreateRule
    BY <2>1 DEF CreateRule
  <2>2. CASE UpdateRule
    <3>1. PICK q \in Rules, row \in RuleRows :
            Serve([db EXCEPT !.rules[q] = IF @ = NoRow THEN NoRow ELSE row], <<"fw">>, {})
      BY <2>2 DEF UpdateRule
    <3>2. PICK x \in RuleRows \cup {NoRow} : x = IF db.rules[q] = NoRow THEN NoRow ELSE row
      OBVIOUS
    <3>3. [db EXCEPT !.rules[q] = IF @ = NoRow THEN NoRow ELSE row] = [db EXCEPT !.rules[q] = x]
      BY <3>2
    <3> QED BY <3>1, <3>3
  <2>3. CASE DeleteRule
    BY <2>3 DEF DeleteRule
  <2> QED BY <2>1, <2>2, <2>3
<1>3. PICK e : e = [db EXCEPT !.rules[q] = row]
  OBVIOUS
<1>4. Differs(e, {"rules"})
  BY <1>1, <1>3 DEF Differs, Database
<1>5. Serves(e, <<"fw">>, {})
  <2>1. Readers({"rules"}) \subseteq {"fw"}
    BY DEF Readers
  <2> QED BY <1>4, <2>1, HandlerPlans, ServesReaders DEF Services
<1> QED BY <1>2, <1>3, <1>5, ServeStep

(* The requests that change the limits.                                    *)
LEMMA LimitRequests ==
    ASSUME IInv, Event, CreateLimit \/ UpdateLimit \/ DeleteLimit
    PROVE  IInv'
<1>1. db \in Database
  BY DEF IInv, Stored
<1>2. PICK m \in Devices, v \in Row : Serve([db EXCEPT !.limits[m] = v], <<"bw">>, {})
  <2>1. CASE CreateLimit
    BY <2>1 DEF CreateLimit, Row
  <2>2. CASE UpdateLimit
    <3>1. PICK m \in Devices, v \in {"off", "on"} :
            Serve([db EXCEPT !.limits[m] = Put(@, v)], <<"bw">>, {})
      BY <2>2 DEF UpdateLimit
    <3>2. PICK x \in Row : x = Put(db.limits[m], v)
      BY DEF Put, Row
    <3>3. [db EXCEPT !.limits[m] = Put(@, v)] = [db EXCEPT !.limits[m] = x]
      BY <3>2
    <3> QED BY <3>1, <3>3
  <2>3. CASE DeleteLimit
    BY <2>3 DEF DeleteLimit, Row
  <2> QED BY <2>1, <2>2, <2>3
<1>3. PICK e : e = [db EXCEPT !.limits[m] = v]
  OBVIOUS
<1>4. Differs(e, {"limits"})
  BY <1>1, <1>3 DEF Differs, Database
<1>5. Serves(e, <<"bw">>, {})
  <2>1. Readers({"limits"}) \subseteq {"bw"}
    BY DEF Readers
  <2> QED BY <1>4, <2>1, HandlerPlans, ServesReaders DEF Services
<1> QED BY <1>2, <1>3, <1>5, ServeStep

(* The requests that change the hotspot's settings, or no table.           *)
LEMMA HotspotRequests ==
    ASSUME IInv, Event, UpdatePassphrase \/ UpdateCountry \/ UpdateUpstream \/ Switch
    PROVE  IInv'
<1>1. db \in Database
  BY DEF IInv, Stored
<1>2. Readers({"ap"}) \subseteq {"ap"} /\ Readers({}) = {} /\ "ap" \in Services
  BY DEF Readers, Services
<1>3. CASE UpdatePassphrase
  <2>1. PICK p \in {"seed", "chosen", "short"} : Serve([db EXCEPT !.ap.pass = p], <<"ap">>, {})
    BY <1>3 DEF UpdatePassphrase
  <2>2. PICK e : e = [db EXCEPT !.ap.pass = p]
    OBVIOUS
  <2>3. Differs(e, {"ap"})
    BY <1>1, <2>2 DEF Differs, Database, APSettings
  <2>4. Serves(e, <<"ap">>, {})
    BY <1>2, <2>3, HandlerPlans, ServesReaders
  <2> QED BY <2>1, <2>2, <2>4, ServeStep
<1>4. CASE UpdateCountry
  <2>1. PICK c \in {"00", "xx"} : Serve([db EXCEPT !.ap.country = c], <<>>, {"ap"})
    BY <1>4 DEF UpdateCountry
  <2>2. PICK e : e = [db EXCEPT !.ap.country = c]
    OBVIOUS
  <2>3. Differs(e, {"ap"})
    BY <1>1, <2>2 DEF Differs, Database, APSettings
  <2>4. Serves(e, <<>>, {"ap"})
    BY <1>2, <2>3, HandlerPlans, ServesReaders
  <2> QED BY <2>1, <2>2, <2>4, ServeStep
<1>5. CASE UpdateUpstream \/ Switch
  <2>1. PICK jobs \in {<<"dns">>, <<"raise">>, <<"lower">>} : Serve(db, jobs, {})
    BY <1>5 DEF UpdateUpstream, Switch
  <2>2. jobs \in Plans /\ "sni" \notin Range(jobs)
    BY HandlerPlans
  <2>3. Serves(db, jobs, {})
    <3>1. Differs(db, {})
      BY <1>1 DEF Differs
    <3> QED BY <1>2, <2>2, <3>1, ServesReaders
  <2> QED BY <2>1, <2>3, ServeStep
<1> QED BY <1>3, <1>4, <1>5

(* The requests that change the filters.  A new one is disabled, and one   *)
(* that may be deleted opens no ports.                                     *)
LEMMA FilterRequests ==
    ASSUME IInv, Event, CreateFilter \/ SetFilterEnabled \/ DeleteFilter
    PROVE  IInv'
<1>1. db \in Database /\ db.filters \in [Filters -> Row] /\ UserFilters \subseteq Filters
  BY DEF IInv, Stored, Database, Filters
<1>2. CASE CreateFilter
  <2>1. PICK f \in UserFilters : /\ db.filters[f] = "none"
                                 /\ Serve([db EXCEPT !.filters[f] = "off"], <<>>, {})
    BY <1>2 DEF CreateFilter
  <2>2. PICK e : e = [db EXCEPT !.filters[f] = "off"]
    OBVIOUS
  <2>3. Differs(e, {"filters"}) /\ e.filters = [db.filters EXCEPT ![f] = "off"]
    BY <1>1, <2>2 DEF Differs, Database, Row
  <2>4. \A g \in Filters : e.filters[g] = "on" <=> db.filters[g] = "on"
    BY <1>1, <2>1, <2>3
  <2>5. /\ filterUDPPorts(e) = filterUDPPorts(db) /\ filterTCPPorts(e) = filterTCPPorts(db)
    <3>1. {g \in Filters : e.filters[g] = "on"} = {g \in Filters : db.filters[g] = "on"}
      BY <2>4
    <3> QED BY <3>1 DEF filterUDPPorts, filterTCPPorts
  <2>6. allowedDomains(e) = allowedDomains(db)
    <3>1. e.domains = db.domains
      BY <2>3 DEF Differs
    <3> QED BY <2>4, <3>1 DEF allowedDomains
  <2>7. ASSUME NEW t \in Services PROVE Views(e, t) = Views(db, t)
    <3>1. Alike(t, db, e)
      BY <2>3, <2>5, <2>6, SameTables DEF Alike, Differs
    <3> QED BY <3>1, AlikeViews
  <2>8. Serves(e, <<>>, {})
    <3>1. e \in Database /\ e.domains = db.domains
      BY <2>3 DEF Differs
    <3> QED BY <2>7, <3>1, HandlerPlans DEF Serves, IInv, Sealed
  <2> QED BY <2>1, <2>2, <2>8, ServeStep
<1>3. CASE SetFilterEnabled
  <2>1. PICK f \in Filters, v \in {"off", "on"} :
          Serve([db EXCEPT !.filters[f] = v], <<"dns", "fw">>, {"sni"})
    BY <1>3 DEF SetFilterEnabled
  <2>2. PICK e : e = [db EXCEPT !.filters[f] = v]
    OBVIOUS
  <2>3. Differs(e, {"filters"})
    BY <1>1, <2>2 DEF Differs, Database, Row
  <2>4. Serves(e, <<"dns", "fw">>, {"sni"})
    <3>1. Readers({"filters"}) \subseteq {"fw", "dns", "sni"}
      BY DEF Readers
    <3> QED BY <2>3, <3>1, HandlerPlans, ServesReaders DEF Services
  <2> QED BY <2>1, <2>2, <2>4, ServeStep
<1>4. CASE DeleteFilter
  <2>1. PICK f \in Filters :
          /\ f \notin SysFilters
          /\ Serve([db EXCEPT !.filters[f] = "none",
                              !.domains[f] = [n \in Names |-> "none"]], <<"dns">>, {"sni"})
    BY <1>4 DEF DeleteFilter, Deletable
  <2>2. PICK e : e = [db EXCEPT !.filters[f] = "none", !.domains[f] = [n \in Names |-> "none"]]
    OBVIOUS
  <2>3. /\ Differs(e, {"filters", "domains"})
        /\ e.filters = [db.filters EXCEPT ![f] = "none"]
        /\ e.domains = [db.domains EXCEPT ![f] = [n \in Names |-> "none"]]
    BY <1>1, <2>2 DEF Differs, Database, Row
  <2>4. UDPPorts[f] = {} /\ TCPPorts[f] = {}
    BY <2>1, PolicyAssumption DEF Filters
  <2>5. \A g \in Filters \ {f} : e.filters[g] = "on" <=> db.filters[g] = "on"
    BY <1>1, <2>3
  <2>6. filterUDPPorts(e) = filterUDPPorts(db)
    BY <2>4, <2>5 DEF filterUDPPorts
  <2>7. filterTCPPorts(e) = filterTCPPorts(db)
    BY <2>4, <2>5 DEF filterTCPPorts
  <2>8. ASSUME NEW t \in Services, t \notin {"dns", "sni"} PROVE Views(e, t) = Views(db, t)
    <3>1. Alike(t, db, e)
      BY <2>3, <2>6, <2>7, <2>8, SameTables DEF Alike, Differs
    <3> QED BY <3>1, AlikeViews
  <2>9. ASSUME NEW g \in Filters, NEW n \in Names, e.domains[g][n] # "none" PROVE Listable(n)
    <3>1. db.domains[g][n] # "none"
      BY <1>1, <2>3, <2>9 DEF Database
    <3> QED BY <3>1 DEF IInv, Sealed
  <2>10. Serves(e, <<"dns">>, {"sni"})
    <3>1. e \in Database
      BY <2>3 DEF Differs
    <3> QED BY <2>8, <2>9, <3>1, HandlerPlans DEF Serves, Services
  <2> QED BY <2>1, <2>2, <2>10, ServeStep
<1> QED BY <1>2, <1>3, <1>4

\* e is the tables with one row of filter_domains set to v.
RowSet(e, f, n, v) ==
    /\ Differs(e, {"domains"}) /\ e.domains[f][n] = v
    /\ \A g \in Filters, k \in Names :
         <<g, k>> # <<f, n>> => e.domains[g][k] = db.domains[g][k]

(* The requests that change the domains.  A new one is disabled, and may   *)
(* be listed.                                                              *)
LEMMA DomainRequests ==
    ASSUME IInv, Event, CreateDomain \/ SetDomainEnabled \/ DeleteDomain
    PROVE  IInv'
<1>1. db \in Database /\ db.domains \in [Filters -> [Names -> Row]]
  BY DEF IInv, Stored, Database
<1>2. \A f \in Filters, n \in Names : db.domains[f][n] # "none" => Listable(n)
  BY DEF IInv, Sealed
<1>3. ASSUME NEW f \in Filters, NEW n \in Names, NEW v \in Row,
             NEW e, e = [db EXCEPT !.domains[f][n] = v]
      PROVE  RowSet(e, f, n, v)
  <2>1. Differs(e, {"domains"}) /\ e.domains = [db.domains EXCEPT ![f][n] = v]
    BY <1>1, <1>3 DEF Differs, Database
  <2> QED BY <1>1, <2>1 DEF RowSet
<1>4. CASE CreateDomain
  <2>1. PICK f \in Filters, n \in Names :
          /\ Listable(n)
          /\ Serve([db EXCEPT !.domains[f][n] = IF @ = "none" THEN "off" ELSE @], <<"dns">>, {})
    BY <1>4 DEF CreateDomain
  <2>2. PICK v \in Row : v = IF db.domains[f][n] = "none" THEN "off" ELSE db.domains[f][n]
    BY <1>1 DEF Row
  <2>3. PICK e : e = [db EXCEPT !.domains[f][n] = v]
    OBVIOUS
  <2>4. e = [db EXCEPT !.domains[f][n] = IF @ = "none" THEN "off" ELSE @]
    BY <2>2, <2>3
  <2>5. /\ Differs(e, {"domains"}) /\ e.domains[f][n] = v
        /\ \A g \in Filters, k \in Names :
             <<g, k>> # <<f, n>> => e.domains[g][k] = db.domains[g][k]
    <3>1. RowSet(e, f, n, v)
      BY <1>3, <2>3
    <3> QED BY <3>1 DEF RowSet
  <2>6. \A g \in Filters, k \in Names : e.domains[g][k] = "on" <=> db.domains[g][k] = "on"
    BY <1>1, <2>2, <2>5
  <2>7. allowedDomains(e) = allowedDomains(db)
    BY <2>5, <2>6 DEF allowedDomains, Differs
  <2>8. ASSUME NEW t \in Services PROVE Views(e, t) = Views(db, t)
    <3>1. Alike(t, db, e)
      BY <2>5, <2>7, SameTables DEF Alike, Differs
    <3> QED BY <3>1, AlikeViews
  <2>9. ASSUME NEW g \in Filters, NEW k \in Names, e.domains[g][k] # "none" PROVE Listable(k)
    <3>1. CASE k = n
      BY <2>1, <3>1
    <3>2. CASE k # n
      BY <1>2, <2>5, <2>9, <3>2
    <3> QED BY <3>1, <3>2
  <2>10. Serves(e, <<"dns">>, {})
    <3>1. e \in Database
      BY <2>5 DEF Differs
    <3> QED BY <2>8, <2>9, <3>1, HandlerPlans DEF Serves
  <2> QED BY <2>1, <2>4, <2>10, ServeStep
<1>5. CASE SetDomainEnabled \/ DeleteDomain
  <2>1. PICK f \in Filters, n \in Names, v \in Row :
          /\ Serve([db EXCEPT !.domains[f][n] = v], <<"dns">>, {"sni"})
          /\ v # "none" => db.domains[f][n] # "none"
    <3>1. CASE SetDomainEnabled
      <4>1. PICK f \in Filters, n \in Names, v \in {"off", "on"} :
              Serve([db EXCEPT !.domains[f][n] = Put(@, v)], <<"dns">>, {"sni"})
        BY <3>1 DEF SetDomainEnabled
      <4>2. PICK x \in Row : x = Put(db.domains[f][n], v)
        BY DEF Put, Row
      <4>3. [db EXCEPT !.domains[f][n] = Put(@, v)] = [db EXCEPT !.domains[f][n] = x]
        BY <4>2
      <4>4. x # "none" => db.domains[f][n] # "none"
        BY <4>2 DEF Put
      <4> QED BY <4>1, <4>3, <4>4
    <3>2. CASE DeleteDomain
      BY <3>2 DEF DeleteDomain, Row
    <3> QED BY <1>5, <3>1, <3>2
  <2>2. PICK e : e = [db EXCEPT !.domains[f][n] = v]
    OBVIOUS
  <2>3. /\ Differs(e, {"domains"}) /\ e.domains[f][n] = v
        /\ \A g \in Filters, k \in Names :
             <<g, k>> # <<f, n>> => e.domains[g][k] = db.domains[g][k]
    <3>1. RowSet(e, f, n, v)
      BY <1>3, <2>2
    <3> QED BY <3>1 DEF RowSet
  <2>4. \A g \in Filters, k \in Names : e.domains[g][k] # "none" => Listable(k)
    BY <1>2, <2>1, <2>3
  <2>5. Serves(e, <<"dns">>, {"sni"})
    <3>1. Readers({"domains"}) \subseteq {"dns", "sni"}
      BY DEF Readers
    <3> QED BY <2>3, <2>4, <3>1, HandlerPlans, ServesReaders DEF Services
  <2> QED BY <2>1, <2>2, <2>5, ServeStep
<1> QED BY <1>4, <1>5

(* A request of any kind.                                                  *)
LEMMA RequestStep ==
    ASSUME IInv, Request
    PROVE  IInv'
<1>1. Event
  BY DEF Request
<1> QED BY <1>1, DeviceRequests, RuleRequests, FilterRequests, DomainRequests, LimitRequests,
           HotspotRequests DEF Request

-----------------------------------------------------------------------------
(* The scanner, the ticker, crashes and reboots.                           *)

(* A new device is blocked: dnsmasq and the SNI proxy do not care.         *)
LEMMA ScanStep ==
    ASSUME IInv, NEW m \in Devices, NEW a \in IPs, Scan(m, a)
    PROVE  IInv'
<1>1. Running /\ Stored /\ Fresh /\ Sealed /\ FwReads /\ Seen /\ db \in Database
  BY DEF IInv, Stored
<1>2. /\ db' = [db EXCEPT !.devices[m] = Upserted(@), !.ip[m] = a]
      /\ stale' = stale \cup {"bw"} \cup (IF db.devices[m] = "none" THEN {"fw"} ELSE {})
      /\ UNCHANGED <<came, todo, lock, phase, got, file, live, faults>>
      /\ events < MaxEvents /\ events' = events + 1
  BY DEF Scan, Event, runVars
<1>3. /\ Differs(db', {"devices", "ip"})
      /\ db'.devices = [db.devices EXCEPT ![m] = Upserted(db.devices[m])]
  BY <1>1, <1>2 DEF Differs, Database, Upserted, Status
<1>4. db.devices \in [Devices -> Status]
  BY <1>1 DEF Database
<1>5. /\ \A d \in Devices : db'.devices[d] = "open" <=> db.devices[d] = "open"
      /\ \A d \in Devices : db'.devices[d] = "filtered" <=> db.devices[d] = "filtered"
      /\ db.devices[m] # "none" => db'.devices = db.devices
  BY <1>3, <1>4 DEF Upserted
<1>6. ASSUME NEW t \in Services, t \notin stale' PROVE Views(db', t) = Views(db, t)
  <2>1. t # "bw" /\ (t = "fw" => db'.devices = db.devices)
    BY <1>2, <1>5, <1>6
  <2>2. /\ deviceSnapshot(db').open = deviceSnapshot(db).open
        /\ deviceSnapshot(db').filtered = deviceSnapshot(db).filtered
    BY <1>5 DEF deviceSnapshot
  <2>3. Alike(t, db, db')
    <3>1. PICK e : e = db'
      OBVIOUS
    <3>2. Alike(t, db, e)
      BY <1>3, <2>1, <2>2, <3>1, SameTables DEF Alike, Differs
    <3> QED BY <3>1, <3>2
  <2> QED BY <2>3, AlikeViews
<1>7. Running'
  BY <1>1, <1>2 DEF Running, Locked, InApply, InSwitch
<1>8. Stored'
  BY <1>1, <1>2, <1>3, AirGapAssumption DEF Stored, Services, Differs
<1>9. ASSUME NEW t \in Services PROVE Current(t)'
  <2>1. Current(t) /\ (t \in stale => t \in stale')
    BY <1>1, <1>2 DEF Fresh
  <2> QED BY <1>2, <1>6, <2>1, CurrentKept
<1>10. Sealed' /\ FwReads' /\ Seen'
  BY <1>1, <1>2, <1>3 DEF Sealed, FwReads, Seen, Differs
<1> QED BY <1>7, <1>8, <1>9, <1>10 DEF IInv, Fresh

(* RefreshCache begins, with no other under way.                           *)
LEMMA TickStep ==
    ASSUME IInv, Tick
    PROVE  IInv'
<1> DEFINE v == Views(db, "sni")[1]
<1>1. Running /\ Stored /\ Fresh /\ Sealed /\ FwReads /\ Seen
  BY DEF IInv
<1>2. /\ todo[Refresher] = <<>> /\ todo' = [todo EXCEPT ![Refresher] = <<"sni">>]
      /\ lock' = [lock EXCEPT !["sni"] = Refresher]
      /\ phase' = [phase EXCEPT !["sni"] = "read"]
      /\ got' = [got EXCEPT !["sni"] = Append(got["sni"], v)]
      /\ live' = live /\ stale' = stale \ {"sni"}
      /\ UNCHANGED <<db, came, file, faults, events>>
  BY <1>1 DEF Tick, Answer, Running
<1>3. /\ {"sni", "dns", "fw", "ap"} \subseteq Services /\ Refresher \in Actors
      /\ Refresher \notin Handlers /\ Free \notin Actors
  BY AirGapAssumption DEF Services, Actors
<1>4. Range(<<"sni">>) = {"sni"} /\ Range(<<>>) = {} /\ <<"sni">> \in Plans
  BY RangeOf DEF Plans
<1>5. ASSUME NEW t \in Services, lock[t] \in Actors PROVE lock[t] # Refresher
  <2>1. Locked(t) /\ lock[t] # Free
    BY <1>1, <1>3, <1>5 DEF Running
  <2>2. todo[lock[t]] # <<>>
    <3>1. CASE InApply(t)
      BY <3>1 DEF InApply
    <3>2. CASE t = "ap" /\ InSwitch
      <4>1. <<>> \notin {<<"raise">>, <<"verify">>, <<"fw", "verify">>}
        OBVIOUS
      <4> QED BY <3>2, <4>1 DEF InSwitch
    <3> QED BY <2>1, <3>1, <3>2 DEF Locked
  <2> QED BY <1>2, <2>2
<1>6. got["sni"] = <<>>
  <2>1. Locked("sni")
    BY <1>1, <1>3 DEF Running
  <2>2. CASE lock["sni"] \in Actors
    <3>1. InApply("sni")
      BY <1>3, <2>1, <2>2 DEF Locked
    <3>2. "sni" \in Range(todo[lock["sni"]])
      <4>1. todo[lock["sni"]] \in Plans
        BY <1>1, <2>2 DEF Running
      <4> QED BY <3>1, <4>1, PlanRange DEF InApply
    <3>3. lock["sni"] = Refresher
      BY <1>1, <2>2, <3>2 DEF Running
    <3> QED BY <1>3, <1>5, <2>2, <3>3
  <2>3. CASE lock["sni"] \notin Actors
    BY <2>1, <2>3 DEF Locked
  <2> QED BY <2>2, <2>3
<1>7. /\ todo' \in [Actors -> Plans] /\ todo'[Refresher] = <<"sni">>
      /\ \A x \in Actors \ {Refresher} : todo'[x] = todo[x]
      /\ lock' \in [Services -> Actors \cup {Free}] /\ lock'["sni"] = Refresher
      /\ phase' \in [Services -> {"idle", "read", "written", "switch"}]
      /\ phase'["sni"] = "read" /\ DOMAIN got' = Services
      /\ got'["sni"] = Append(<<>>, v)
      /\ \A t \in Services \ {"sni"} :
           lock'[t] = lock[t] /\ phase'[t] = phase[t] /\ got'[t] = got[t]
  BY <1>1, <1>2, <1>3, <1>4, <1>6 DEF Running
<1> HIDE DEF v
<1>8. Tuple(got'["sni"], 1) /\ Len(got'["sni"]) = 1 /\ got'["sni"][1] = v
  <2>1. Tuple(<<>>, 0)
    BY TupleEmpty
  <2>2. Extends(Append(<<>>, v), <<>>, 0, v)
    BY <2>1, TupleAppend
  <2>3. Tuple(got'["sni"], 1) /\ got'["sni"][1] = v
    BY <1>7, <2>2 DEF Extends
  <2> QED BY <2>3, TupleLen
<1>9. Running'
  <2>1. ASSUME NEW x \in Actors, "sni" \in Range(todo'[x]) PROVE x = Refresher
    BY <1>1, <1>7, <2>1 DEF Running
  <2>2. ASSUME NEW h \in Handlers, came' < h PROVE todo'[h] = <<>>
    BY <1>1, <1>2, <1>3, <1>7, <2>2 DEF Running, Actors
  <2>3. ASSUME NEW t \in Services PROVE Tuple(got'[t], Len(got'[t])) /\ Len(got'[t]) <= 4
    <3>1. CASE t = "sni"
      <4>1. Tuple(got'["sni"], Len(got'["sni"]))
        BY <1>8, Zenon
      <4>2. Len(got'["sni"]) <= 4
        BY <1>8
      <4> QED BY <3>1, <4>1, <4>2, Zenon
    <3>2. CASE t # "sni"
      BY <1>1, <1>7, <3>2 DEF Running
    <3> QED BY <3>1, <3>2
  <2>4. ASSUME NEW t \in Services PROVE Locked(t)'
    <3>1. CASE t = "sni"
      <4>1. Head(<<"sni">>) = "sni" /\ <<"sni">> # <<>> /\ Width("sni") = 2
        BY DEF Width
      <4>2. InApply("sni")'
        BY <1>7, <1>8, <4>1 DEF InApply
      <4> QED BY <1>3, <1>7, <3>1, <4>2 DEF Locked
    <3>2. CASE t # "sni"
      <4>1. lock[t] \in Actors => todo'[lock[t]] = todo[lock[t]]
        BY <1>5, <1>7
      <4> QED BY <1>1, <1>7, <3>2, <4>1 DEF Running, Locked, InApply, InSwitch
    <3> QED BY <3>1, <3>2
  <2> QED BY <1>7, <2>1, <2>2, <2>3, <2>4 DEF Running
<1>10. Stored'
  BY <1>1, <1>2 DEF Stored
<1>11. ASSUME NEW t \in Services PROVE Current(t)'
  <2>1. CASE t # "sni"
    <3>1. Current(t) /\ (t \in stale => t \in stale')
      BY <1>1, <1>2, <2>1 DEF Fresh
    <3>2. \A x \in Actors : t \in Range(todo[x]) => t \in Range(todo'[x])
      BY <1>2, <1>4, <1>7
    <3> QED BY <1>2, <1>7, <2>1, <3>1, <3>2, CurrentKept
  <2>2. CASE t = "sni"
    <3>1. Outstanding("sni")'
      BY <1>3, <1>4, <1>7 DEF Outstanding
    <3>2. ReadsHold("sni")'
      BY <1>2, <1>8 DEF ReadsHold, v
    <3> QED BY <2>2, <3>1, <3>2 DEF Current
  <2> QED BY <2>1, <2>2
<1>12. Sealed' /\ FwReads' /\ Seen'
  <2>1. got'["dns"] = got["dns"] /\ got'["fw"] = got["fw"] /\ got'["ap"] = got["ap"]
    BY <1>3, <1>7
  <2> QED BY <1>1, <1>2, <2>1 DEF Sealed, FwReads, Seen
<1> QED BY <1>9, <1>10, <1>11, <1>12 DEF IInv, Fresh

\* The daemon as it starts: ApplyAll is to be done and no mutex is held.
Start ==
    /\ todo = [r \in Actors |-> IF r = Main THEN ApplyAll ELSE <<>>]
    /\ lock = [s \in Services |-> Free] /\ phase = [s \in Services |-> "idle"]
    /\ got = [s \in Services |-> <<>>] /\ "sni" \in stale

(* Whatever has been before, nothing that starts so claims to be current.  *)
LEMMA Started == Start => Running /\ FwReads /\ Seen /\ Fresh
<1> SUFFICES ASSUME Start PROVE Running /\ FwReads /\ Seen /\ Fresh
  OBVIOUS
<1> USE DEF Start
<1>1. Main \in Actors /\ Main \notin Handlers /\ Handlers \subseteq Actors /\ Free \notin Actors
  BY AirGapAssumption DEF Actors
<1>2. {ApplyAll, <<>>} \subseteq Plans
  BY DEF Plans
<1>3. Range(ApplyAll) = {"fw", "dns", "bw", "ap"} /\ Range(<<>>) = {}
  BY RangeOf
<1>4. Tuple(<<>>, Len(<<>>)) /\ Len(<<>>) = 0
  BY TupleEmpty
<1>5. \A s \in Services : Locked(s)
  BY DEF Locked
<1>6. todo \in [Actors -> Plans]
  BY <1>2
<1>7. \A r \in Actors : "sni" \notin Range(todo[r])
  BY <1>3
<1>8. \A h \in Handlers : todo[h] = <<>>
  BY <1>1
<1>9. Running
  BY <1>4, <1>5, <1>6, <1>7, <1>8 DEF Running
<1>10. FwReads /\ Seen
  BY <1>4 DEF FwReads, Seen, Services
<1>11. ASSUME NEW s \in Services PROVE Current(s)
  <2>1. CASE s = "sni"
    BY <2>1 DEF Current
  <2>2. CASE s # "sni"
    <3>1. Outstanding(s)
      BY <1>1, <1>3, <2>2 DEF Outstanding, Services
    <3>2. ReadsHold(s)
      BY <1>1 DEF ReadsHold
    <3> QED BY <3>1, <3>2 DEF Current
  <2> QED BY <2>1, <2>2
<1> QED BY <1>9, <1>10, <1>11 DEF Fresh

(* The daemon, or the Pi, starts again: files are torn or as they were, and *)
(* dnsmasq runs on, or starts from its file.                               *)
LEMMA RestartStep ==
    ASSUME IInv, Restart, DOMAIN live' = Services,
           live'["dns"] \in {live["dns"], Boot("dns", file'["dns"])}
    PROVE  IInv'
<1>1. Stored /\ Sealed
  BY DEF IInv
<1>2. /\ Start' /\ stale' = stale \cup {"sni"} /\ UNCHANGED <<db, came, faults>>
      /\ events < MaxEvents /\ events' = events + 1
  BY DEF Restart, Event, Start
<1>3. Running' /\ FwReads' /\ Seen' /\ Fresh'
  BY <1>2, Started, PTL
<1>4. PICK torn \in SUBSET TornFiles :
        file' = [s \in OnDisk |-> IF s \in torn THEN Torn ELSE file[s]]
  BY DEF Restart
<1>5. DOMAIN file' = OnDisk /\ file'["dns"] \in {Torn, file["dns"]}
  BY <1>4 DEF OnDisk
<1>6. Stored'
  BY <1>1, <1>2, <1>5, AirGapAssumption DEF Stored, Services
<1>7. file'["dns"] # Torn => SafeConf(file'["dns"])
  BY <1>1, <1>5 DEF Sealed
<1>8. live'["dns"] # Down => SafeConf(live'["dns"])
  BY <1>1, <1>7 DEF Sealed, Boot
<1>9. Sealed'
  <2>1. got'["dns"] = <<>>
    BY <1>2 DEF Start, Services
  <2> QED BY <1>1, <1>2, <1>7, <1>8, <2>1 DEF Sealed
<1> QED BY <1>3, <1>6, <1>9 DEF IInv

(* The daemon dies and is started.                                         *)
LEMMA CrashStep ==
    ASSUME IInv, Crash
    PROVE  IInv'
<1>1. Restart /\ live' = [live EXCEPT !["sni"] = NoCache] /\ DOMAIN live = Services
  BY DEF Crash, IInv, Stored
<1>2. DOMAIN live' = Services /\ live'["dns"] = live["dns"]
  BY <1>1 DEF Services
<1> QED BY <1>1, <1>2, RestartStep

(* So does the Pi.                                                         *)
LEMMA RebootStep ==
    ASSUME IInv, Reboot
    PROVE  IInv'
<1>1. /\ Restart
      /\ live' = [fw |-> Boot("fw", file'.fw), dns |-> Boot("dns", file'.dns),
                  bw |-> {}, ap |-> Boot("ap", file'.ap), sni |-> NoCache]
  BY DEF Reboot
<1>2. DOMAIN live' = Services /\ live'["dns"] = Boot("dns", file'["dns"])
  BY <1>1 DEF Services
<1> QED BY <1>1, <1>2, RestartStep

-----------------------------------------------------------------------------
(* The theorems.                                                           *)

(* The daemon starts within the invariant.                                 *)
LEMMA InitIInv == Init => IInv
<1> SUFFICES ASSUME Init PROVE IInv
  OBVIOUS
<1>1. Start /\ db \in Seeds /\ came = 0 /\ faults = 0 /\ events = 0 /\ stale = {"sni"}
  BY DEF Init, Start
<1>2. Running /\ FwReads /\ Seen /\ Fresh
  BY <1>1, Started
<1>3. PICK f \in {BaseRules, Torn} : file = [BaseFiles EXCEPT !.fw = f]
  BY DEF Init
<1>4. live = [fw |-> Boot("fw", file.fw), dns |-> BaseFiles.dns, bw |-> {},
              ap |-> BaseFiles.ap, sni |-> NoCache]
  BY DEF Init
<1>5. /\ DOMAIN live = Services /\ DOMAIN file = OnDisk
      /\ live["dns"] = buildDNSConfig({}, {}) /\ file["dns"] = buildDNSConfig({}, {})
  BY <1>3, <1>4 DEF BaseFiles, Services, OnDisk
<1>6. db \in Database
  BY <1>1, AirGapAssumption
<1>7. Stored
  BY <1>1, <1>5, <1>6, AirGapAssumption DEF Stored, Services
<1>8. SafeConf(buildDNSConfig({}, {}))
  BY DEF SafeConf, Safe, buildDNSConfig
<1>9. got["dns"] = <<>>
  BY <1>1 DEF Start, Services
<1>10. Sealed
  BY <1>1, <1>5, <1>8, <1>9, SeedAssumption DEF Sealed
<1> QED BY <1>2, <1>7, <1>10 DEF IInv

(* The invariant speaks of the state.                                      *)
LEMMA StutterIInv == ASSUME IInv, UNCHANGED vars PROVE IInv'
<1>1. UNCHANGED <<db, came, todo, lock, phase, got, file, live, stale, faults, events>>
  BY DEF vars, runVars
<1>2. Running' /\ Stored'
  BY <1>1 DEF IInv, Running, Stored, Locked, InApply, InSwitch
<1>3. ASSUME NEW t \in Services PROVE Current(t)'
  <2>1. Current(t)
    BY DEF IInv, Fresh
  <2> QED BY <1>1, <2>1, CurrentKept
<1>4. Sealed' /\ FwReads' /\ Seen'
  BY <1>1 DEF IInv, Sealed, FwReads, Seen
<1> QED BY <1>2, <1>3, <1>4 DEF IInv, Fresh

(* Every step keeps it.                                                    *)
LEMMA NextIInv == ASSUME IInv, [Next]_vars PROVE IInv'
<1>1. ASSUME NEW r \in Actors, Work(r) PROVE IInv'
  <2>1. ASSUME NEW s \in NextJob(r), Read(r, s) \/ WriteFile(r, s) \/ Load(r, s) PROVE IInv'
    <3>1. s \in Services
      BY DEF NextJob
    <3> QED BY <2>1, <3>1, ReadStep, WriteFileStep, LoadStep
  <2> QED BY <1>1, <2>1, RefuseStep, VerifyStep, RaiseStep, GateShutStep, LowerStep DEF Work
<1>2. ASSUME NEW r \in Actors, Trouble(r) PROVE IInv'
  <2>1. PICK s \in NextJob(r) : \/ Misread(r, s) \/ ReadFails(r, s)
                                \/ WriteFails(r, s) \/ LoadFails(r, s)
    BY <1>2 DEF Trouble
  <2>2. s \in Services
    BY DEF NextJob
  <2> QED BY <2>1, <2>2, MisreadStep, ReadFailsStep, WriteFailsStep, LoadFailsStep
<1>3. CASE Request
  BY <1>3, RequestStep
<1>4. CASE \E m \in Devices, a \in IPs : Scan(m, a)
  BY <1>4, ScanStep
<1>5. CASE Tick \/ Crash \/ Reboot
  BY <1>5, TickStep, CrashStep, RebootStep
<1>6. CASE UNCHANGED vars
  BY <1>6, StutterIInv
<1> QED BY <1>1, <1>2, <1>3, <1>4, <1>5, <1>6 DEF Next

(* The invariant holds of every behaviour.                                 *)
THEOREM PolicyInvariant == Spec => []IInv
<1>1. Init => IInv
  BY InitIInv
<1>2. IInv /\ [Next]_vars => IInv'
  BY NextIInv
<1> QED BY <1>1, <1>2, PTL DEF Spec

(* The variables keep their types: the tables, the plans of the actors,    *)
(* the mutexes, the views read so far and the counters.                    *)
THEOREM TypeCorrect == Spec => []TypeOK
<1>1. ASSUME IInv PROVE TypeOK
  <2>1. Running /\ Stored
    BY <1>1 DEF IInv
  <2>2. todo \in [Actors -> Seq(Jobs)]
    BY <2>1, PlanFacts DEF Running
  <2>3. ASSUME NEW s \in Services
        PROVE  \E n \in 0 .. 4 : got[s] = [i \in 1 .. n |-> got[s][i]]
    <3>1. Tuple(got[s], Len(got[s])) /\ Len(got[s]) <= 4
      BY <2>1 DEF Running
    <3>2. Len(got[s]) \in Nat /\ got[s] = [i \in 1 .. Len(got[s]) |-> got[s][i]]
      BY <3>1, Zenon DEF Tuple
    <3>3. PICK n \in Nat : n = Len(got[s])
      BY <3>2, Zenon
    <3>4. n <= 4
      BY <3>1, <3>3, Zenon
    <3>5. n \in 0 .. 4
      BY <3>4
    <3> QED BY <3>2, <3>3, <3>5, Zenon
  <2>4. came \in 0 .. MaxEvents /\ {faults, events} \subseteq 0 .. MaxEvents
    BY <2>1, AirGapAssumption DEF Stored
  <2> QED BY <2>1, <2>2, <2>3, <2>4 DEF TypeOK, Running, Stored
<1>2. IInv => TypeOK
  BY <1>1
<1> QED BY <1>2, PolicyInvariant, PTL

(* InForce: with no Apply of a service outstanding and no error reported   *)
(* for it, kernel, dnsmasq, tc, hostapd and the SNI proxy act on the       *)
(* tables as they are.                                                     *)
THEOREM PolicyInForce == Spec => []InForce
<1>1. IInv => InForce
  BY DEF IInv, Fresh, Current, Outstanding, InForce, InEffect
<1> QED BY <1>1, PolicyInvariant, PTL

(* ClassesHold: the ruleset in force drops what blocked devices send,      *)
(* accepts what open ones do, sends filtered devices' TLS to the proxy and *)
(* accepts of filtered and unknown devices only what was opened.           *)
THEOREM ClassesTreated == Spec => []ClassesHold
<1>1. ASSUME IInv PROVE ClassesHold
  <2>1. SUFFICES ASSUME InEffect("fw") PROVE ClassesHold
    BY DEF ClassesHold
  <2>2. live["fw"] = Gen("fw", Views(db, "fw")) /\ db \in Database
    BY <1>1, <2>1 DEF IInv, Fresh, Current, Outstanding, InEffect, Services, Stored
  <2> QED BY <2>2, ClassesOfTables DEF ClassesHold
<1>2. IInv => ClassesHold
  BY <1>1
<1> QED BY <1>2, PolicyInvariant, PTL

(* SealedNames: no name of the protected floor is resolved or spliced,     *)
(* whatever operators list, and whatever fails or lags.                    *)
THEOREM NamesStaySealed == Spec => []SealedNames
<1>1. ASSUME IInv PROVE SealedNames
  <2>1. live["dns"] # Down => SafeConf(live["dns"])
    BY <1>1 DEF IInv, Sealed
  <2>2. ASSUME NEW n \in Names, isProtectedDenied(n), ~(\E e \in Exempt : Under(n, e))
        PROVE  /\ live.dns # Down => ~Resolves(live.dns, n)
               /\ \A m \in Devices : ~Spliced(live.sni, m, n)
    <3>1. live.dns # Down => ~Resolves(live.dns, n)
      BY <2>1, <2>2, FloorHolds
    <3>2. \A m \in Devices : ~Spliced(live.sni, m, n)
      BY <2>2 DEF Spliced, sniAllowed
    <3> QED BY <3>1, <3>2
  <2> QED BY <2>2 DEF SealedNames
<1>2. IInv => SealedNames
  BY <1>1
<1> QED BY <1>2, PolicyInvariant, PTL

(* GateHolds: SetEnabled never starts hostapd over a kernel without rules, *)
(* although Verify reads at three moments and takes no mutex of Firewall's. *)
THEOREM GateIsKept == Spec => GateHolds
<1>1. IInv /\ [Next]_vars => [\A r \in Actors : Raise(r) => live.fw # NoRules]_vars
  BY RaiseStep
<1> QED BY <1>1, PolicyInvariant, PTL DEF Spec, GateHolds

=============================================================================
