---------------------------- MODULE LeasesProofs ----------------------------
(***************************************************************************)
(* What the loop of mergeLeases computes for every lease file: each device *)
(* gets the address of one of its leases that expires last.                *)
(*                                                                         *)
(* The loop is a fold, so this is an induction over the length of the      *)
(* file.  It is done with sets of natural numbers, through the least       *)
(* element of a set of counterexamples.                                    *)
(***************************************************************************)
EXTENDS Leases, WellFoundedInduction, TLAPS

LeaseLine == [expiry : Nat, mac : Devices, ip : IPs]

Base == [m \in Devices |-> Unseen]

\* f takes a set of lines to what the loop has found after them, in the
\* order of the file.
Loop(file, n, f) ==
    f = [s \in SUBSET (1 .. n) |->
           IF s = {} THEN Base ELSE Take(f[s \ {Max(s)}], file[Max(s)])]

\* After the first k lines a device has one of its leases among them, of the
\* ones that expire last, or none.
Best(file, k, found) ==
    /\ found \in [Devices -> [expiry : Int, ip : IPs \cup {NoIP}]]
    /\ \A m \in Devices :
         \/ found[m] = Unseen /\ \A i \in 1 .. k : file[i].mac # m
         \/ \E i \in 1 .. k :
              /\ file[i].mac = m
              /\ found[m] = [expiry |-> file[i].expiry, ip |-> file[i].ip]
              /\ \A j \in 1 .. k : file[j].mac = m => file[j].expiry <= file[i].expiry

-----------------------------------------------------------------------------
\* Induction over the natural numbers, for a set instead of a formula.
LEMMA SetInduction ==
    ASSUME NEW T, 0 \in T, \A n \in Nat : n \in T => n + 1 \in T
    PROVE  Nat \subseteq T
<1> DEFINE B == Nat \ T
<1>1. SUFFICES ASSUME B # {} PROVE FALSE
  OBVIOUS
<1>2. PICK m \in B : \A k \in B : <<k, m>> \notin OpToRel(<, Nat)
  BY <1>1, WFMin, NatLessThanWellFounded, Zenon
<1>3. \A k \in B : <<k, m>> \in Nat \X Nat /\ k < m => <<k, m>> \in OpToRel(<, Nat)
  BY Zenon DEF OpToRel
<1>4. m \in Nat /\ m # 0
  OBVIOUS
<1>5. m - 1 \in Nat /\ m - 1 < m /\ (m - 1) + 1 = m
  BY <1>4
<1>6. m - 1 \in B
  BY <1>4, <1>5
<1>7. <<m - 1, m>> \in Nat \X Nat
  BY <1>4, <1>5
<1> QED BY <1>2, <1>3, <1>5, <1>6, <1>7, Zenon

\* A non-empty set of line numbers has a last one.
LEMMA MaxExists ==
    ASSUME NEW n \in Nat, NEW s \in SUBSET (1 .. n), s # {}
    PROVE  Max(s) \in s /\ \A y \in s : Max(s) >= y
<1> DEFINE Has(k) == \A t \in SUBSET (1 .. k) : t # {} => \E x \in t : \A y \in t : x >= y
           T == {k \in Nat : Has(k)}
<1>1. 0 \in T
  <2>1. 1 .. 0 = {}
    OBVIOUS
  <2>2. Has(0)
    BY <2>1
  <2> QED BY <2>2
<1>2. ASSUME NEW k \in Nat, k \in T PROVE k + 1 \in T
  <2>1. SUFFICES ASSUME NEW t \in SUBSET (1 .. k + 1), t # {}
                 PROVE  \E x \in t : \A y \in t : x >= y
    BY <1>2
  <2>2. CASE k + 1 \in t
    BY <1>2, <2>2
  <2>3. CASE k + 1 \notin t
    <3>1. t \in SUBSET (1 .. k)
      BY <1>2, <2>3
    <3> QED BY <1>2, <2>1, <3>1
  <2> QED BY <2>2, <2>3
<1> HIDE DEF T
<1>3. n \in T
  BY <1>1, <1>2, SetInduction
<1>4. \E x \in s : \A y \in s : x >= y
  BY <1>3 DEF T
<1> QED BY <1>4 DEF Max

\* The loop's function exists: a set that contains the last line is one line
\* on from a set that does not.
LEMMA LoopExists ==
    ASSUME NEW file, NEW n \in Nat
    PROVE  \E f : Loop(file, n, f)
<1> DEFINE T == {k \in Nat : \E f : Loop(file, k, f)}
<1>1. 0 \in T
  <2> DEFINE f == [s \in SUBSET (1 .. 0) |-> Base]
  <2>1. 1 .. 0 = {}
    OBVIOUS
  <2>2. Loop(file, 0, f)
    BY <2>1 DEF Loop
  <2> QED BY <2>2
<1>2. ASSUME NEW k \in Nat, k \in T PROVE k + 1 \in T
  <2>1. PICK f : Loop(file, k, f)
    BY <1>2
  <2> DEFINE g == [s \in SUBSET (1 .. k + 1) |->
                     IF k + 1 \in s THEN Take(f[s \ {k + 1}], file[k + 1]) ELSE f[s]]
             h == [s \in SUBSET (1 .. k + 1) |->
                     IF s = {} THEN Base ELSE Take(g[s \ {Max(s)}], file[Max(s)])]
  <2>2. ASSUME NEW s \in SUBSET (1 .. k + 1) PROVE g[s] = h[s]
    <3>1. CASE s = {}
      <4>1. g[s] = f[{}] /\ h[s] = Base
        BY <3>1
      <4>2. f[{}] = Base
        BY <2>1 DEF Loop
      <4> QED BY <4>1, <4>2
    <3>2. CASE k + 1 \in s
      <4>1. Max(s) = k + 1
        <5>1. Max(s) \in s /\ Max(s) >= k + 1
          <6>1. k + 1 \in Nat /\ s # {}
            BY <3>2
          <6> HIDE DEF g, h, T
          <6> QED BY <3>2, <6>1, MaxExists
        <5>2. Max(s) \in 1 .. k + 1
          BY <5>1
        <5> QED BY <5>1, <5>2
      <4>2. s \ {k + 1} \in SUBSET (1 .. k) /\ s \ {k + 1} \in SUBSET (1 .. k + 1)
        OBVIOUS
      <4>3. g[s \ {k + 1}] = f[s \ {k + 1}]
        BY <4>2
      <4>4. h[s] = Take(g[s \ {k + 1}], file[k + 1])
        BY <3>2, <4>1
      <4>5. g[s] = Take(f[s \ {k + 1}], file[k + 1])
        BY <3>2
      <4> HIDE DEF g, h
      <4> QED BY <4>3, <4>4, <4>5
    <3>3. CASE s # {} /\ k + 1 \notin s
      <4>1. s \in SUBSET (1 .. k)
        BY <3>3
      <4>2. Max(s) \in s
        BY <3>3, <4>1, MaxExists
      <4>3. f[s] = Take(f[s \ {Max(s)}], file[Max(s)])
        BY <2>1, <3>3, <4>1 DEF Loop
      <4>4. g[s \ {Max(s)}] = f[s \ {Max(s)}]
        BY <3>3
      <4>5. g[s] = f[s] /\ h[s] = Take(g[s \ {Max(s)}], file[Max(s)])
        BY <3>3
      <4> HIDE DEF g, h
      <4> QED BY <4>3, <4>4, <4>5
    <3> QED BY <3>1, <3>2, <3>3
  <2>3. g = h
    BY <2>2
  <2>4. Loop(file, k + 1, g)
    BY <2>3 DEF Loop
  <2> QED BY <2>4
<1> HIDE DEF T
<1>3. n \in T
  BY <1>1, <1>2, SetInduction
<1> QED BY <1>3 DEF T

\* mergeLeases is that function, for all lines.
LEMMA MergeIsLoop ==
    ASSUME NEW n \in Nat, NEW file, DOMAIN file = 1 .. n
    PROVE  \E f : Loop(file, n, f) /\ mergeLeases(file) = f[1 .. n]
<1>1. \E f : Loop(file, n, f)
  BY LoopExists
<1> QED BY <1>1 DEF mergeLeases, FoldLeft, MapThenFoldSet, Loop, Base

\* One more line keeps the best.
LEMMA TakeKeepsBest ==
    ASSUME NEW n \in Nat, NEW file \in [1 .. n -> LeaseLine],
           NEW k \in Nat, k + 1 <= n, NEW found, Best(file, k, found)
    PROVE  Best(file, k + 1, Take(found, file[k + 1]))
<1> DEFINE l == file[k + 1]
           next == Take(found, l)
<1>1. /\ l \in LeaseLine /\ l.expiry \in Nat /\ l.mac \in Devices /\ l.ip \in IPs
      /\ \A i \in 1 .. k + 1 : file[i] \in LeaseLine /\ file[i].expiry \in Nat
  BY DEF LeaseLine
<1>2. found \in [Devices -> [expiry : Int, ip : IPs \cup {NoIP}]]
  BY DEF Best
<1>3. \A m \in Devices \ {l.mac} : next[m] = found[m]
  BY <1>2 DEF Take
<1>4. next[l.mac] = IF l.expiry <= found[l.mac].expiry THEN found[l.mac]
                    ELSE [expiry |-> l.expiry, ip |-> l.ip]
  BY <1>1, <1>2 DEF Take
<1>5. next \in [Devices -> [expiry : Int, ip : IPs \cup {NoIP}]]
  BY <1>1, <1>2 DEF Take
<1> DEFINE Is(m, i, to, f) == /\ file[i].mac = m
                              /\ f[m] = [expiry |-> file[i].expiry, ip |-> file[i].ip]
                              /\ \A j \in 1 .. to : file[j].mac = m
                                                      => file[j].expiry <= file[i].expiry
           None(m, to, f) == f[m] = Unseen /\ \A i \in 1 .. to : file[i].mac # m
<1>6. ASSUME NEW m \in Devices
      PROVE  None(m, k, found) \/ \E i \in 1 .. k : Is(m, i, k, found)
  BY DEF Best
<1>7. 1 .. k + 1 = 1 .. k \cup {k + 1} /\ k + 1 \in 1 .. k + 1
  OBVIOUS
<1> HIDE DEF next
<1>8. ASSUME NEW m \in Devices
      PROVE  None(m, k + 1, next) \/ \E i \in 1 .. k + 1 : Is(m, i, k + 1, next)
  <2>1. CASE m # l.mac
    BY <1>3, <1>6, <1>7, <2>1
  <2>2. CASE m = l.mac /\ None(m, k, found)
    <3>1. next[m] = [expiry |-> l.expiry, ip |-> l.ip]
      BY <1>1, <1>4, <2>2 DEF Unseen
    <3>2. Is(m, k + 1, k + 1, next)
      BY <1>1, <1>7, <2>2, <3>1
    <3> QED BY <1>7, <3>2
  <2>3. CASE m = l.mac /\ \E i \in 1 .. k : Is(m, i, k, found)
    <3>1. PICK i \in 1 .. k : Is(m, i, k, found)
      BY <2>3
    <3>2. found[m].expiry = file[i].expiry /\ i \in 1 .. k + 1
      BY <1>7, <3>1
    <3>3. CASE l.expiry <= file[i].expiry
      <4>1. next[m] = found[m]
        BY <1>4, <2>3, <3>2, <3>3
      <4>2. Is(m, i, k + 1, next)
        BY <1>7, <3>1, <3>3, <4>1
      <4> QED BY <3>2, <4>2
    <3>4. CASE ~(l.expiry <= file[i].expiry)
      <4>1. next[m] = [expiry |-> l.expiry, ip |-> l.ip]
        BY <1>4, <2>3, <3>2, <3>4
      <4>2. ASSUME NEW j \in 1 .. k + 1, file[j].mac = m
            PROVE  file[j].expiry <= l.expiry
        <5>1. CASE j = k + 1
          BY <1>1, <5>1
        <5>2. CASE j \in 1 .. k
          <6>1. file[j].expiry <= file[i].expiry
            BY <3>1, <4>2, <5>2
          <6>2. file[j].expiry \in Nat /\ file[i].expiry \in Nat
            BY <1>1, <3>2
          <6> QED BY <1>1, <3>4, <6>1, <6>2
        <5> QED BY <1>7, <5>1, <5>2
      <4>3. Is(m, k + 1, k + 1, next)
        BY <2>3, <4>1, <4>2
      <4> QED BY <1>7, <4>3
    <3> QED BY <3>3, <3>4
  <2> QED BY <1>6, <2>1, <2>2, <2>3
<1>9. Best(file, k + 1, next)
  BY <1>5, <1>8 DEF Best
<1> QED BY <1>9 DEF next

\* Whatever the order of the lines, the address mergeLeases gives a device is
\* that of a lease of it that no other lease of it outlives; a device
\* without a lease gets none (mergeLeases, network.go).
THEOREM MergeKeepsNewest ==
    ASSUME NEW n \in Nat, NEW file \in [1 .. n -> LeaseLine]
    PROVE  Best(file, n, mergeLeases(file))
<1>1. PICK f : Loop(file, n, f) /\ mergeLeases(file) = f[1 .. n]
  BY MergeIsLoop
<1> DEFINE T == {k \in Nat : k <= n => Best(file, k, f[1 .. k])}
<1>2. 0 \in T
  <2>1. 1 .. 0 = {} /\ f[{}] = Base
    BY <1>1 DEF Loop
  <2>2. Base \in [Devices -> [expiry : Int, ip : IPs \cup {NoIP}]]
    BY DEF Base, Unseen
  <2>3. Best(file, 0, f[1 .. 0])
    BY <2>1, <2>2 DEF Best, Base
  <2> QED BY <2>3
<1>3. ASSUME NEW k \in Nat, k \in T PROVE k + 1 \in T
  <2>1. SUFFICES ASSUME k + 1 <= n PROVE Best(file, k + 1, f[1 .. k + 1])
    OBVIOUS
  <2>2. Best(file, k, f[1 .. k])
    BY <1>3, <2>1
  <2>3. 1 .. k + 1 \in SUBSET (1 .. n) /\ 1 .. k + 1 # {} /\ k + 1 \in 1 .. k + 1
    <3>1. k + 1 \in 1 .. k + 1
      OBVIOUS
    <3>2. \A x \in 1 .. k + 1 : x \in 1 .. n
      BY <2>1
    <3> QED BY <3>1, <3>2
  <2>4. Max(1 .. k + 1) = k + 1
    <3>1. Max(1 .. k + 1) \in 1 .. k + 1 /\ Max(1 .. k + 1) >= k + 1
      BY <2>3, MaxExists
    <3> QED BY <3>1
  <2>5. (1 .. k + 1) \ {k + 1} = 1 .. k
    OBVIOUS
  <2>6. f[1 .. k + 1] = Take(f[(1 .. k + 1) \ {Max(1 .. k + 1)}], file[Max(1 .. k + 1)])
    BY <1>1, <2>3 DEF Loop
  <2>7. f[1 .. k + 1] = Take(f[1 .. k], file[k + 1])
    BY <2>4, <2>5, <2>6
  <2> QED BY <2>1, <2>2, <2>7, TakeKeepsBest
<1> HIDE DEF T
<1>4. n \in T
  BY <1>2, <1>3, SetInduction
<1> QED BY <1>1, <1>4 DEF T
=============================================================================
