-------------------------- MODULE TrafficLogProofs --------------------------
(***************************************************************************)
(* Proofs about the tails of TrafficLog: reading the journals is           *)
(* at-least-once delivery, and nothing but a crash or a failing statement  *)
(* repeats a line, for any number of streams, lines and devices.           *)
(***************************************************************************)
EXTENDS TrafficLog, LeasesProofs, FiniteSetTheorems, TLAPS

TailsOK ==
    /\ cursor \in [Tails -> Nat]
    /\ lines \in [Tails -> Seq(LineSpace)]
    /\ aged \in [Tails -> Nat] /\ prior \in [Tails -> Nat]
    /\ missed \in [Tails -> SUBSET Nat]
    /\ done \in [Tails -> Seq(Nat)]
    /\ tail \in [Tails -> [up : BOOLEAN, pos : Nat, last : Nat]]
    /\ pend \in [Writers -> Rows \cup {Nothing}]
    /\ crashes \in Nat /\ faults \in Nat

\* The line t has read last is still to be inserted.
Held(t) == pend[t] # Nothing

\* Every line up to the cursor has been dealt with or could not be seen, and
\* so has, while the journal is followed, every line up to the one read last,
\* save that one if it is held.
Reader(t) ==
    /\ Len(done[t]) = Len(lines[t])
    /\ tail[t].pos <= Len(lines[t]) /\ tail[t].last \in {0, tail[t].pos}
    /\ aged[t] <= Len(lines[t]) /\ prior[t] <= Len(lines[t])
    /\ missed[t] \subseteq 1 .. Len(lines[t])
    /\ Held(t) => tail[t].up /\ tail[t].last > 0 /\ pend[t].line = tail[t].last
    /\ t \in Journalled =>
         /\ cursor[t] <= Len(lines[t])
         /\ \A i \in 1 .. cursor[t] : Past(t, i)
         /\ tail[t].up => \A i \in 1 .. tail[t].pos :
                             (i = tail[t].pos /\ Held(t)) \/ Past(t, i)

\* What is still to be read has been dealt with at most once per crash or
\* fault; what has been read, once more.
Repeats(t) ==
    LET k == crashes + faults
        all == 1 .. Len(lines[t])
    IN  /\ \A i \in all : done[t][i] <= 1 + k
        /\ tail[t].up => \A i \in all :
             i > tail[t].pos \/ (i = tail[t].pos /\ Held(t)) => done[t][i] <= k
        /\ t \in Journalled /\ (~tail[t].up \/ tail[t].last = 0) =>
             \A i \in all : i > cursor[t] => done[t][i] <= k

IInv == TailsOK /\ \A t \in Tails : Reader(t) /\ Repeats(t)

-----------------------------------------------------------------------------
(* Lemmas.                                                                 *)

\* An excuse that was enough stays enough when more goes wrong.
LEMMA MoreExcuses ==
    ASSUME NEW a \in Nat, NEW b \in Nat, NEW c \in Nat, b <= c, NEW x \in Nat
    PROVE  /\ x <= a + b => x <= a + c
           /\ x <= 1 + (a + b) => x <= 1 + (a + c)
           /\ x <= a + c => x <= 1 + (a + c)
  OBVIOUS

\* Dealing with line i once more changes the count of that line alone.
LEMMA CountOnce ==
    ASSUME NEW s \in Seq(Nat), NEW i \in 1 .. Len(s),
           NEW r, r = [s EXCEPT ![i] = @ + 1]
    PROVE  /\ r \in Seq(Nat) /\ Len(r) = Len(s) /\ r[i] = s[i] + 1
           /\ \A j \in 1 .. Len(s) : j # i => r[j] = s[j]
  OBVIOUS

\* A line that has just been written has been dealt with no time.
LEMMA CountNew ==
    ASSUME NEW s \in Seq(Nat)
    PROVE  LET r == Append(s, 0)
           IN  /\ r \in Seq(Nat) /\ Len(r) = Len(s) + 1 /\ r[Len(s) + 1] = 0
               /\ \A j \in 1 .. Len(s) : r[j] = s[j]
  OBVIOUS

\* What the parsers make of a line is an event.
LEMMA ParsersType ==
    ASSUME NEW l \in LineSpace
    PROVE  parseNfLine(l) \in EntrySpace /\ parseDnsLine(l) \in EntrySpace
<1>1. /\ l.mac \in Devices /\ l.ip \in IPs /\ l.name \in Names
      /\ l.action \in {"allowed", "blocked"}
  BY DEF LineSpace
<1>2. parseNfLine(l) \in EntrySpace
  BY <1>1 DEF parseNfLine, EntrySpace
<1>3. parseDnsLine(l) \in EntrySpace
  BY <1>1 DEF parseDnsLine, EntrySpace
<1> QED BY <1>2, <1>3

\* What a tail's step may assume of its tail.
LEMMA TailFacts ==
    ASSUME IInv, NEW t \in Tails
    PROVE  /\ TailsOK /\ Reader(t) /\ Repeats(t)
           /\ cursor[t] \in Nat /\ done[t] \in Seq(Nat) /\ lines[t] \in Seq(LineSpace)
           /\ tail[t] \in [up : BOOLEAN, pos : Nat, last : Nat]
           /\ tail[t].up \in BOOLEAN /\ tail[t].pos \in Nat /\ tail[t].last \in Nat
           /\ Len(done[t]) = Len(lines[t]) /\ Len(lines[t]) \in Nat
           /\ \A i \in 1 .. Len(lines[t]) : done[t][i] \in Nat
           /\ crashes + faults \in Nat
           /\ t \in Writers /\ pend[t] \in Rows \cup {Nothing}
<1>1. TailsOK /\ Reader(t) /\ Repeats(t)
  BY DEF IInv
<1>2. t \in Writers
  BY DEF Writers
<1>3. /\ cursor[t] \in Nat /\ done[t] \in Seq(Nat) /\ lines[t] \in Seq(LineSpace)
      /\ tail[t] \in [up : BOOLEAN, pos : Nat, last : Nat]
      /\ pend[t] \in Rows \cup {Nothing} /\ crashes + faults \in Nat
  BY <1>1, <1>2 DEF TailsOK
<1>4. Len(done[t]) = Len(lines[t])
  BY <1>1 DEF Reader
<1>5. tail[t].up \in BOOLEAN /\ tail[t].pos \in Nat /\ tail[t].last \in Nat
  BY <1>3
<1>6. Len(lines[t]) \in Nat /\ \A i \in 1 .. Len(lines[t]) : done[t][i] \in Nat
  BY <1>3, <1>4
<1> QED BY <1>1, <1>2, <1>3, <1>4, <1>5, <1>6

\* A tail that does not move keeps its part of the invariant, whatever fails
\* elsewhere.
LEMMA Unmoved ==
    ASSUME IInv, NEW t \in Tails,
           cursor'[t] = cursor[t], lines'[t] = lines[t], tail'[t] = tail[t],
           done'[t] = done[t], pend'[t] = pend[t],
           aged'[t] = aged[t], prior'[t] = prior[t], missed'[t] = missed[t],
           crashes' = crashes, faults' \in Nat, faults <= faults'
    PROVE  Reader(t)' /\ Repeats(t)'
<1>1. /\ Reader(t) /\ Repeats(t) /\ crashes \in Nat /\ faults \in Nat
      /\ \A i \in 1 .. Len(lines[t]) : done[t][i] \in Nat
  BY TailFacts DEF TailsOK
<1>2. Reader(t)'
  BY <1>1 DEF Reader, Held, Past
<1>3. \A i \in 1 .. Len(lines[t]) : done[t][i] <= crashes + faults
                                      => done[t][i] <= crashes' + faults'
  <2> SUFFICES ASSUME NEW i \in 1 .. Len(lines[t]), done[t][i] <= crashes + faults
               PROVE  done[t][i] <= crashes' + faults'
    OBVIOUS
  <2>1. done[t][i] \in Nat
    BY <1>1
  <2> QED BY <1>1, <2>1, MoreExcuses
<1>4. \A i \in 1 .. Len(lines[t]) : done[t][i] <= 1 + (crashes + faults)
                                      => done[t][i] <= 1 + (crashes' + faults')
  <2> SUFFICES ASSUME NEW i \in 1 .. Len(lines[t]),
                      done[t][i] <= 1 + (crashes + faults)
               PROVE  done[t][i] <= 1 + (crashes' + faults')
    OBVIOUS
  <2>1. done[t][i] \in Nat
    BY <1>1
  <2> QED BY <1>1, <2>1, MoreExcuses
<1>5. Repeats(t)'
  BY <1>1, <1>3, <1>4 DEF Repeats, Held
<1> QED BY <1>2, <1>5

\* A step that leaves the tails alone keeps the invariant; it may fail.
LEMMA Elsewhere ==
    ASSUME IInv, UNCHANGED <<cursor, lines, reach, tail, done, crashes>>,
           faults' \in Nat, faults <= faults',
           pend' \in [Writers -> Rows \cup {Nothing}],
           \A t \in Tails : pend'[t] = pend[t]
    PROVE  IInv'
<1>1. TailsOK'
  BY DEF IInv, TailsOK, reach
<1>2. ASSUME NEW t \in Tails PROVE Reader(t)' /\ Repeats(t)'
  BY Unmoved DEF reach
<1> QED BY <1>1, <1>2 DEF IInv

\* A step of one tail has to be looked at for that tail only.
LEMMA OneTail ==
    ASSUME IInv, NEW t \in Tails, TailsOK',
           \A u \in Tails \ {t} : /\ cursor'[u] = cursor[u] /\ lines'[u] = lines[u]
                                  /\ tail'[u] = tail[u] /\ done'[u] = done[u]
                                  /\ pend'[u] = pend[u] /\ aged'[u] = aged[u]
                                  /\ prior'[u] = prior[u] /\ missed'[u] = missed[u],
           crashes' = crashes, faults <= faults',
           Reader(t)', Repeats(t)'
    PROVE  IInv'
<1>1. faults' \in Nat
  BY DEF TailsOK
<1>2. ASSUME NEW u \in Tails, u # t PROVE Reader(u)' /\ Repeats(u)'
  BY <1>1, <1>2, Unmoved
<1> QED BY <1>2 DEF IInv

-----------------------------------------------------------------------------
(* One lemma per action of a tail.                                         *)

LEMMA WriteStep ==
    ASSUME IInv, NEW l \in Lines, Write(l) PROVE IInv'
<1> DEFINE t == l.tail
<1>1. t \in Tails /\ l \in LineSpace
  BY TrafficLogAssumption DEF Write
<1>2. /\ TailsOK /\ Reader(t) /\ Repeats(t)
      /\ done[t] \in Seq(Nat) /\ lines[t] \in Seq(LineSpace)
      /\ Len(done[t]) = Len(lines[t]) /\ Len(lines[t]) \in Nat
      /\ \A i \in 1 .. Len(lines[t]) : done[t][i] \in Nat
      /\ crashes + faults \in Nat /\ cursor[t] \in Nat
      /\ tail[t] \in [up : BOOLEAN, pos : Nat, last : Nat]
  BY <1>1, TailFacts
<1>3. /\ lines' = [lines EXCEPT ![t] = Append(@, l)]
      /\ done' = [done EXCEPT ![t] = Append(@, 0)]
      /\ UNCHANGED <<cursor, reach, tail, pend, crashes, faults>>
  BY DEF Write
<1> HIDE DEF t
<1>4. TailsOK'
  BY <1>1, <1>2, <1>3 DEF TailsOK, reach
<1>5. /\ lines'[t] = Append(lines[t], l) /\ done'[t] = Append(done[t], 0)
      /\ \A u \in Tails \ {t} : lines'[u] = lines[u] /\ done'[u] = done[u]
  BY <1>1, <1>2, <1>3 DEF TailsOK
<1>6. /\ Len(lines'[t]) = Len(lines[t]) + 1 /\ Len(done'[t]) = Len(done[t]) + 1
      /\ \A i \in 1 .. Len(lines[t]) : done'[t][i] = done[t][i]
      /\ done'[t][Len(lines[t]) + 1] = 0
  BY <1>2, <1>5
<1>7. Reader(t)'
  <2>1. missed'[t] = missed[t] /\ aged'[t] = aged[t] /\ prior'[t] = prior[t]
    BY <1>3 DEF reach
  <2>2. aged[t] \in Nat /\ prior[t] \in Nat
    BY <1>1, <1>2 DEF TailsOK
  <2>3. \A i \in 1 .. Len(lines[t]) : Past(t, i) => Past(t, i)'
    BY <1>6, <2>1 DEF Past
  <2>4. /\ Held(t)' <=> Held(t)
        /\ UNCHANGED <<cursor[t], tail[t], pend[t]>>
    BY <1>3 DEF Held
  <2>5. /\ tail[t].pos \in Nat /\ tail[t].pos <= Len(lines'[t])
        /\ aged[t] <= Len(lines'[t]) /\ prior[t] <= Len(lines'[t])
        /\ missed[t] \subseteq 1 .. Len(lines'[t])
        /\ Len(done'[t]) = Len(lines'[t])
    <3>1. /\ tail[t].pos \in Nat /\ tail[t].pos <= Len(lines[t])
          /\ aged[t] <= Len(lines[t]) /\ prior[t] <= Len(lines[t])
          /\ missed[t] \subseteq 1 .. Len(lines[t])
      BY <1>2 DEF Reader
    <3>2. 1 .. Len(lines[t]) \subseteq 1 .. Len(lines'[t])
      BY <1>2, <1>6
    <3>3. Len(done'[t]) = Len(lines'[t]) /\ Len(lines'[t]) = Len(lines[t]) + 1
      BY <1>2, <1>6
    <3>4. missed[t] \subseteq 1 .. Len(lines'[t])
      BY <3>1, <3>2
    <3>5. Len(lines[t]) \in Nat
      BY <1>2
    <3> QED BY <2>2, <3>1, <3>3, <3>4, <3>5
  <2>6. t \in Journalled =>
          /\ cursor[t] <= Len(lines'[t])
          /\ \A i \in 1 .. cursor[t] : Past(t, i)'
    BY <1>2, <1>6, <2>3 DEF Reader
  <2>7. t \in Journalled /\ tail[t].up => \A i \in 1 .. tail[t].pos :
                             (i = tail[t].pos /\ Held(t)) \/ Past(t, i)'
    BY <1>2, <2>3, <2>5 DEF Reader
  <2>8. /\ tail[t].last \in {0, tail[t].pos}
        /\ Held(t) => tail[t].up /\ tail[t].last > 0 /\ pend[t].line = tail[t].last
    BY <1>2 DEF Reader
  <2> QED BY <2>1, <2>4, <2>5, <2>6, <2>7, <2>8 DEF Reader
<1>8. Repeats(t)'
  BY <1>2, <1>3, <1>6 DEF Repeats, Held, Reader
<1> QED
  <2>1. faults <= faults' /\ crashes' = crashes
    BY <1>2, <1>3 DEF TailsOK
  <2> QED BY <1>1, <1>3, <1>4, <1>5, <1>7, <1>8, <2>1, OneTail DEF reach

\* A fault is counted, and nothing else is.
LEMMA FaultCounts ==
    ASSUME faults \in Nat
    PROVE  /\ Fault => faults' = faults + 1
           /\ NoFault => faults' = faults
BY DEF Fault, NoFault

\* A day passes for lines of one journal.
LEMMA AgeStep ==
    ASSUME IInv, NEW t \in Tails, Age(t) PROVE IInv'
<1>1. /\ TailsOK /\ Reader(t) /\ Repeats(t) /\ aged[t] \in Nat /\ Len(lines[t]) \in Nat
      /\ faults \in Nat
  BY TailFacts DEF TailsOK
<1>2. PICK k \in aged[t] + 1 .. Len(lines[t]) : aged' = [aged EXCEPT ![t] = k]
  BY DEF Age
<1>3. UNCHANGED <<cursor, lines, prior, missed, tail, pend, done, crashes, faults>>
  BY DEF Age
<1>4. /\ k \in Nat /\ k <= Len(lines[t]) /\ aged'[t] = k
      /\ \A u \in Tails \ {t} : aged'[u] = aged[u]
  BY <1>1, <1>2 DEF TailsOK
<1>5. TailsOK'
  BY <1>1, <1>2, <1>3, <1>4 DEF TailsOK
<1>6. Reader(t)'
  BY <1>1, <1>3, <1>4 DEF Reader, Held, Past
<1>7. Repeats(t)'
  BY <1>1, <1>3 DEF Repeats, Held
<1> QED BY <1>1, <1>3, <1>4, <1>5, <1>6, <1>7, OneTail

\* The lines a new tail of a journal starts after are up to the cursor it
\* has read or hidden, and none of the others is passed over.
LEMMA Starts ==
    ASSUME IInv, NEW t \in Tails, NEW from \in {cursor[t], 0}
    PROVE  /\ Hidden(t, from) \in 0 .. Len(lines[t])
           /\ StartPos(t, from) \in 0 .. Len(lines[t])
           /\ t \in Journalled => /\ StartPos(t, from) >= from
                                  /\ StartPos(t, from) \in {from, Hidden(t, from)}
           /\ t \notin Journalled => StartPos(t, from) = Len(lines[t])
<1>1. /\ Reader(t) /\ aged[t] \in Nat /\ prior[t] \in Nat /\ cursor[t] \in Nat
      /\ Len(lines[t]) \in Nat
  BY TailFacts DEF TailsOK
<1>2. Hidden(t, from) \in 0 .. Len(lines[t])
  BY <1>1 DEF Hidden, Reader
<1>3. CASE t \in Journalled
  <2>1. from \in 0 .. Len(lines[t])
    BY <1>1, <1>3 DEF Reader
  <2>2. StartPos(t, from) = IF from < Hidden(t, from) THEN Hidden(t, from) ELSE from
    BY <1>3 DEF StartPos
  <2> QED BY <1>1, <1>2, <1>3, <2>1, <2>2
<1>4. CASE t \notin Journalled
  BY <1>1, <1>2, <1>4 DEF StartPos
<1> QED BY <1>3, <1>4

\* A cursor that is read wrong costs a fault, so what follows may repeat; a
\* line that is hidden and not yet dealt with is missed.
LEMMA OpenStep ==
    ASSUME IInv, NEW t \in Tails, Open(t) PROVE IInv'
<1>1. /\ TailsOK /\ Reader(t) /\ Repeats(t)
      /\ cursor[t] \in Nat /\ Len(lines[t]) \in Nat
      /\ Len(done[t]) = Len(lines[t])
      /\ \A i \in 1 .. Len(lines[t]) : done[t][i] \in Nat
      /\ crashes \in Nat /\ faults \in Nat
  BY TailFacts DEF TailsOK
<1>2. PICK from \in {cursor[t], 0} :
        /\ tail' = [tail EXCEPT ![t] = [up |-> TRUE, last |-> 0, pos |-> StartPos(t, from)]]
        /\ missed' = [missed EXCEPT ![t] =
                        @ \cup {i \in 1 .. Hidden(t, from) : done[t][i] = 0}]
        /\ IF from = cursor[t] THEN NoFault ELSE t \in Journalled /\ Fault
  BY DEF Open
<1>3. /\ UNCHANGED <<cursor, lines, aged, prior, pend, done, crashes>> /\ ~tail[t].up
  BY DEF Open
<1>4. /\ faults' \in Nat /\ faults <= faults'
      /\ from = cursor[t] => faults' = faults
      /\ from # cursor[t] => t \in Journalled /\ faults' = faults + 1
  BY <1>1, <1>2, FaultCounts
<1> DEFINE h == Hidden(t, from)
           start == StartPos(t, from)
           unseen == {i \in 1 .. h : done[t][i] = 0}
<1>5. /\ h \in 0 .. Len(lines[t]) /\ start \in 0 .. Len(lines[t])
      /\ t \in Journalled => start >= from /\ start \in {from, h}
      /\ t \notin Journalled => start = Len(lines[t])
  BY Starts
<1>6. /\ tail'[t] = [up |-> TRUE, last |-> 0, pos |-> start]
      /\ \A u \in Tails \ {t} : tail'[u] = tail[u]
      /\ missed'[t] = missed[t] \cup unseen
      /\ \A u \in Tails \ {t} : missed'[u] = missed[u]
  BY <1>1, <1>2 DEF TailsOK
<1>7. unseen \subseteq 1 .. Len(lines[t])
  BY <1>1, <1>5
<1>8. TailsOK'
  <2>1. start \in Nat /\ unseen \in SUBSET Nat
    BY <1>5, <1>7
  <2>2. /\ tail' \in [Tails -> [up : BOOLEAN, pos : Nat, last : Nat]]
        /\ missed' \in [Tails -> SUBSET Nat]
    BY <1>1, <1>2, <2>1 DEF TailsOK
  <2> QED BY <1>1, <1>3, <1>4, <2>2 DEF TailsOK
<1>9. \A i \in 1 .. h : Past(t, i)'
  <2>1. SUFFICES ASSUME NEW i \in 1 .. h PROVE done[t][i] > 0 \/ i \in missed'[t]
    BY <1>3 DEF Past
  <2>2. i \in 1 .. Len(lines[t])
    BY <1>1, <1>5
  <2> QED BY <1>1, <1>6, <2>2
<1>10. \A i \in 1 .. Len(lines[t]) : Past(t, i) => Past(t, i)'
  BY <1>3, <1>6 DEF Past
<1> HIDE DEF h, start, unseen
<1>11. Reader(t)'
  <2>1. /\ t \in Journalled => \A i \in 1 .. cursor[t] : Past(t, i)'
    BY <1>1, <1>10 DEF Reader
  <2>2. t \in Journalled => \A i \in 1 .. start : Past(t, i)'
    <3>1. ASSUME t \in Journalled, from = cursor[t], NEW i \in 1 .. from PROVE Past(t, i)'
      BY <2>1, <3>1
    <3> QED BY <1>2, <1>5, <1>9, <3>1
  <2>3. ~Held(t)'
    BY <1>1, <1>3 DEF Reader, Held
  <2>4. /\ missed'[t] \subseteq 1 .. Len(lines[t])
        /\ aged[t] <= Len(lines[t]) /\ prior[t] <= Len(lines[t])
        /\ t \in Journalled => cursor[t] <= Len(lines[t])
    BY <1>1, <1>6, <1>7 DEF Reader
  <2>5. /\ tail'[t].up /\ tail'[t].last = 0 /\ tail'[t].pos = start
        /\ start <= Len(lines[t])
    BY <1>1, <1>5, <1>6
  <2> QED BY <1>1, <1>3, <2>1, <2>2, <2>3, <2>4, <2>5 DEF Reader
<1>12. Repeats(t)'
  <2>1. CASE from = cursor[t]
    <3>1. /\ \A i \in 1 .. Len(lines[t]) : done[t][i] <= 1 + (crashes + faults)
          /\ t \in Journalled => \A i \in 1 .. Len(lines[t]) :
               i > cursor[t] => done[t][i] <= crashes + faults
      BY <1>1, <1>3 DEF Repeats
    <3>2. ASSUME NEW i \in 1 .. Len(lines[t]), i >= start, i = start => Held(t)'
          PROVE  done[t][i] <= crashes + faults
      <4>1. ~Held(t)'
        BY <1>1, <1>3 DEF Reader, Held
      <4>2. i > start
        BY <1>5, <3>2, <4>1
      <4>3. t \in Journalled
        BY <1>1, <1>5, <4>2
      <4>4. i > cursor[t]
        BY <1>1, <1>5, <2>1, <4>2, <4>3
      <4> QED BY <3>1, <4>3, <4>4
    <3>3. \A i \in 1 .. Len(lines[t]) :
             i > start \/ (i = start /\ Held(t)') => done[t][i] <= crashes + faults
      BY <1>5, <3>2
    <3> QED BY <1>3, <1>4, <1>6, <2>1, <3>1, <3>3 DEF Repeats
  <2>2. CASE from # cursor[t]
    <3>1. \A i \in 1 .. Len(lines[t]) : done[t][i] <= crashes' + faults'
      BY <1>1, <1>3, <1>4, <2>2 DEF Repeats
    <3>2. ASSUME NEW i \in 1 .. Len(lines[t]) PROVE done[t][i] <= 1 + (crashes' + faults')
      <4>1. done[t][i] \in Nat /\ done[t][i] <= crashes' + faults'
        BY <1>1, <3>1
      <4>2. crashes' \in Nat /\ faults' \in Nat
        BY <1>1, <1>3, <1>4
      <4> QED BY <4>1, <4>2, MoreExcuses
    <3> QED BY <3>1, <3>2, <1>3, <1>6 DEF Repeats
  <2> QED BY <2>1, <2>2
<1> QED BY <1>3, <1>4, <1>6, <1>8, <1>11, <1>12, OneTail

\* A line is read, and either done with or held.
LEMMA ReadLineStep ==
    ASSUME IInv, NEW t \in Tails, ReadLine(t) PROVE IInv'
<1> DEFINE i == tail[t].pos + 1
           l == lines[t][i]
           e == IF l.kind = "forward" THEN parseNfLine(l) ELSE parseDnsLine(l)
           keep == l.kind # "reply" /\ ~Suppressed(e)
<1>1. /\ TailsOK /\ Reader(t) /\ Repeats(t)
      /\ cursor[t] \in Nat /\ Len(lines[t]) \in Nat
      /\ lines[t] \in Seq(LineSpace) /\ done[t] \in Seq(Nat)
      /\ tail[t] \in [up : BOOLEAN, pos : Nat, last : Nat] /\ tail[t].pos \in Nat
      /\ Len(done[t]) = Len(lines[t]) /\ t \in Writers
      /\ \A j \in 1 .. Len(lines[t]) : done[t][j] \in Nat
      /\ crashes \in Nat /\ faults \in Nat
  BY TailFacts DEF TailsOK
<1>2. /\ tail[t].up /\ ~Held(t) /\ i <= Len(lines[t]) /\ i \in Nat
      /\ UNCHANGED <<cursor, lines, aged, prior, missed, crashes, faults>>
  BY <1>1 DEF ReadLine, Held, counts, reach
<1>3. /\ tail' = [tail EXCEPT ![t].pos = i, ![t].last = i]
      /\ keep => pend' = [pend EXCEPT ![t] = Row(e, t, i)] /\ UNCHANGED done
      /\ ~keep => done' = Dealt(t, i) /\ UNCHANGED pend
  BY DEF ReadLine
<1>4. l \in LineSpace
  BY <1>1, <1>2
<1>5. Row(e, t, i) \in Rows
  <2>1. e \in EntrySpace
    BY <1>4, ParsersType
  <2> HIDE DEF e, i
  <2> QED BY <2>1, <1>1, <1>2 DEF Rows, Row
<1>6. Row(e, t, i) # Nothing /\ Row(e, t, i).line = i
  <2>1. Row(e, t, i) # Nothing
    BY <1>5, TrafficLogAssumption
  <2> QED BY <2>1 DEF Row
<1> HIDE DEF i, l, e, keep
<1>7. /\ tail'[t] = [up |-> TRUE, pos |-> i, last |-> i]
      /\ \A u \in Tails \ {t} : tail'[u] = tail[u]
  BY <1>1, <1>2, <1>3 DEF TailsOK
<1>8. i = tail[t].pos + 1
  BY DEF i
<1>9. crashes' = crashes /\ faults <= faults'
  BY <1>1, <1>2
<1>10. t \in Journalled => \A j \in 1 .. tail[t].pos : Past(t, j)
  BY <1>2, <1>1 DEF Reader
<1>11. t \in Journalled => /\ cursor[t] <= Len(lines[t])
                           /\ \A j \in 1 .. cursor[t] : Past(t, j)
  BY <1>1 DEF Reader
<1>12. CASE keep
  <2>1. /\ pend' = [pend EXCEPT ![t] = Row(e, t, i)] /\ done' = done
    BY <1>3, <1>12
  <2>2. pend'[t] = Row(e, t, i) /\ \A u \in Tails \ {t} : pend'[u] = pend[u]
    BY <1>1, <2>1 DEF TailsOK, Writers
  <2>3. pend' \in [Writers -> Rows \cup {Nothing}]
    BY <1>1, <1>5, <2>1 DEF TailsOK
  <2>4. TailsOK'
    BY <1>1, <1>2, <1>3, <2>1, <2>3 DEF TailsOK
  <2>5. Held(t)' /\ pend'[t].line = i
    BY <2>2, <1>6 DEF Held
  <2>6. Reader(t)'
    <3>1. t \in Journalled => \A j \in 1 .. i : j = i \/ Past(t, j)
      BY <1>1, <1>8, <1>10
    <3> QED BY <1>1, <1>2, <1>7, <1>8, <1>11, <2>1, <2>5, <3>1 DEF Reader, Past
  <2>7. Repeats(t)'
    <3>1. ASSUME NEW j \in 1 .. Len(lines[t]), j >= i
          PROVE  done[t][j] <= crashes + faults
      <4>1. j > tail[t].pos
        BY <1>1, <1>8, <3>1
      <4> QED BY <1>1, <1>2, <4>1 DEF Repeats
    <3>2. \A j \in 1 .. Len(lines[t]) : done[t][j] <= 1 + (crashes + faults)
      BY <1>1 DEF Repeats
    <3>3. i # 0
      BY <1>1, <1>8
    <3>4. \A j \in 1 .. Len(lines[t]) : j > i \/ j = i => done[t][j] <= crashes + faults
      BY <1>2, <3>1
    <3> QED BY <1>2, <1>7, <2>1, <3>2, <3>3, <3>4 DEF Repeats
  <2> QED BY <1>2, <1>7, <1>9, <2>1, <2>2, <2>4, <2>6, <2>7, OneTail
<1>13. CASE ~keep
  <2>1. done' = [done EXCEPT ![t][i] = @ + 1] /\ pend' = pend
    BY <1>3, <1>13 DEF Dealt
  <2>2. done'[t] = [done[t] EXCEPT ![i] = @ + 1]
        /\ \A u \in Tails \ {t} : done'[u] = done[u]
    BY <1>1, <2>1 DEF TailsOK
  <2>3. i \in 1 .. Len(done[t])
    BY <1>1, <1>2, <1>8
  <2>4. /\ done'[t] \in Seq(Nat) /\ Len(done'[t]) = Len(done[t])
        /\ done'[t][i] = done[t][i] + 1
        /\ \A j \in 1 .. Len(lines[t]) : j # i => done'[t][j] = done[t][j]
    <3>1. done[t] \in Seq(Nat) /\ Len(done[t]) = Len(lines[t])
      BY <1>1
    <3> QED BY <2>2, <2>3, <3>1, CountOnce
  <2>5. TailsOK'
    BY <1>1, <1>2, <1>3, <2>1, <2>4 DEF TailsOK
  <2>6. ~Held(t)'
    BY <1>2, <2>1 DEF Held
  <2>7. done'[t][i] > 0
    BY <1>1, <2>3, <2>4
  <2>8. ASSUME NEW j \in 1 .. Len(lines[t]), j = i \/ Past(t, j) PROVE Past(t, j)'
    <3>1. CASE j = i
      BY <2>7, <3>1 DEF Past
    <3>2. CASE j # i
      BY <1>2, <2>4, <2>8, <3>2 DEF Past
    <3> QED BY <3>1, <3>2
  <2>9. Reader(t)'
    <3>1. t \in Journalled => \A j \in 1 .. i : Past(t, j)'
      <4>1. SUFFICES ASSUME t \in Journalled, NEW j \in 1 .. i PROVE Past(t, j)'
        OBVIOUS
      <4>2. (j = i \/ j \in 1 .. tail[t].pos) /\ j \in 1 .. Len(lines[t])
        BY <1>1, <1>2, <1>8
      <4> QED BY <1>10, <2>8, <4>1, <4>2
    <3>2. ASSUME t \in Journalled, NEW j \in 1 .. cursor[t] PROVE Past(t, j)'
      <4>1. j \in 1 .. Len(lines[t])
        BY <1>1, <1>11, <3>2
      <4> QED BY <1>11, <2>8, <3>2, <4>1
    <3>3. /\ aged[t] <= Len(lines[t]) /\ prior[t] <= Len(lines[t])
          /\ missed[t] \subseteq 1 .. Len(lines[t])
      BY <1>1 DEF Reader
    <3>4. /\ tail'[t].pos = i /\ tail'[t].last = i /\ Len(done'[t]) = Len(lines[t])
      BY <1>1, <1>7, <2>4
    <3> QED BY <1>2, <1>11, <2>6, <3>1, <3>2, <3>3, <3>4 DEF Reader
  <2>10. Repeats(t)'
    <3>1. done'[t][i] <= 1 + (crashes + faults)
      <4>1. i \in 1 .. Len(lines[t]) /\ i > tail[t].pos
        BY <1>1, <1>8, <2>3
      <4>2. done[t][i] <= crashes + faults /\ done[t][i] \in Nat
        BY <1>1, <1>2, <4>1 DEF Repeats
      <4> QED BY <1>1, <2>4, <4>2
    <3>2. \A j \in 1 .. Len(lines[t]) : j > i => done'[t][j] <= crashes + faults
      <4>1. SUFFICES ASSUME NEW j \in 1 .. Len(lines[t]), j > i
                     PROVE  done'[t][j] <= crashes + faults
        OBVIOUS
      <4>2. j > tail[t].pos /\ j # i
        BY <1>1, <1>8, <4>1
      <4> QED BY <1>1, <1>2, <2>4, <4>2 DEF Repeats
    <3>3. \A j \in 1 .. Len(lines[t]) : done'[t][j] <= 1 + (crashes + faults)
      BY <1>1, <2>4, <3>1 DEF Repeats
    <3>4. i # 0
      BY <1>1, <1>8
    <3> QED BY <1>2, <1>7, <2>6, <3>2, <3>3, <3>4 DEF Repeats
  <2> QED BY <1>2, <1>7, <1>9, <2>1, <2>2, <2>5, <2>9, <2>10, OneTail
<1> QED BY <1>12, <1>13

\* The held line has been dealt with, inserted or not.
LEMMA InsertStep ==
    ASSUME IInv, NEW t \in Tails, insertEntry(t) PROVE IInv'
<1> DEFINE i == tail[t].pos
<1>1. /\ TailsOK /\ Reader(t) /\ Repeats(t)
      /\ cursor[t] \in Nat /\ Len(lines[t]) \in Nat
      /\ lines[t] \in Seq(LineSpace) /\ done[t] \in Seq(Nat)
      /\ tail[t].up \in BOOLEAN /\ i \in Nat /\ tail[t].last \in Nat
      /\ Len(done[t]) = Len(lines[t]) /\ t \in Writers
      /\ \A j \in 1 .. Len(lines[t]) : done[t][j] \in Nat
      /\ crashes \in Nat /\ faults \in Nat
  BY TailFacts DEF TailsOK
<1>2. /\ Held(t) /\ pend' = [pend EXCEPT ![t] = Nothing]
      /\ done' = Dealt(t, pend[t].line)
      /\ UNCHANGED <<cursor, lines, aged, prior, missed, tail, crashes>>
      /\ Fault \/ NoFault
  BY DEF insertEntry, Held, reach
<1>3. /\ tail[t].up /\ tail[t].last = i /\ pend[t].line = i /\ i \in 1 .. Len(done[t])
  BY <1>1, <1>2 DEF Reader
<1>4. faults' \in Nat /\ faults <= faults'
  BY <1>1, <1>2, FaultCounts
<1> HIDE DEF i
<1>5. done' = [done EXCEPT ![t][i] = @ + 1]
  BY <1>2, <1>3 DEF Dealt
<1>6. /\ done'[t] = [done[t] EXCEPT ![i] = @ + 1]
      /\ \A u \in Tails \ {t} : done'[u] = done[u]
  BY <1>1, <1>5 DEF TailsOK
<1>7. /\ done'[t] \in Seq(Nat) /\ Len(done'[t]) = Len(done[t])
      /\ done'[t][i] = done[t][i] + 1
      /\ \A j \in 1 .. Len(lines[t]) : j # i => done'[t][j] = done[t][j]
  <2>1. done[t] \in Seq(Nat) /\ i \in 1 .. Len(done[t]) /\ Len(done[t]) = Len(lines[t])
    BY <1>1, <1>3
  <2> QED BY <1>6, <2>1, CountOnce
<1>8. /\ pend' \in [Writers -> Rows \cup {Nothing}] /\ ~Held(t)'
      /\ \A u \in Tails \ {t} : pend'[u] = pend[u]
  BY <1>1, <1>2 DEF TailsOK, Held, Writers
<1>9. TailsOK'
  BY <1>1, <1>2, <1>4, <1>5, <1>7, <1>8 DEF TailsOK
<1>10. done[t][i] \in Nat /\ i \in 1 .. Len(lines[t]) /\ tail[t].pos = i
  BY <1>1, <1>3 DEF i
<1>11. ASSUME NEW j \in 1 .. Len(lines[t]), j = i \/ Past(t, j)
       PROVE  Past(t, j)'
  <2>1. CASE j = i
    BY <1>7, <1>10, <2>1 DEF Past
  <2>2. CASE j # i
    BY <1>2, <1>7, <1>11, <2>2 DEF Past
  <2> QED BY <2>1, <2>2
<1>12. Reader(t)'
  <2>1. ASSUME t \in Journalled, NEW j \in 1 .. i PROVE Past(t, j)'
    <3>1. j \in 1 .. Len(lines[t])
      BY <1>1, <1>10
    <3>2. j = i \/ Past(t, j)
      BY <1>1, <1>3, <1>10, <2>1 DEF Reader
    <3> QED BY <1>11, <3>1, <3>2
  <2>2. ASSUME t \in Journalled, NEW j \in 1 .. cursor[t] PROVE Past(t, j)'
    <3>1. j \in 1 .. Len(lines[t]) /\ Past(t, j)
      BY <1>1, <2>2 DEF Reader
    <3> QED BY <1>11, <3>1
  <2> QED BY <1>1, <1>2, <1>7, <1>8, <1>10, <2>1, <2>2 DEF Reader
<1>13. Repeats(t)'
  <2>1. /\ crashes' + faults' >= crashes + faults /\ crashes + faults \in Nat
        /\ crashes' + faults' \in Nat
    BY <1>1, <1>2, <1>4
  <2>2. done'[t][i] <= 1 + (crashes' + faults')
    <3>1. done[t][i] <= crashes + faults
      BY <1>2, <1>1, <1>3, <1>10 DEF Repeats
    <3> QED BY <1>7, <1>10, <2>1, <3>1
  <2>3. ASSUME NEW j \in 1 .. Len(lines[t]) PROVE done'[t][j] <= 1 + (crashes' + faults')
    <3>1. done[t][j] <= 1 + (crashes + faults) /\ done[t][j] \in Nat
      BY <1>1 DEF Repeats
    <3>2. CASE j # i
      <4>1. done'[t][j] = done[t][j]
        BY <1>7, <3>2
      <4> QED BY <1>1, <1>2, <1>4, <3>1, <4>1, MoreExcuses
    <3> QED BY <2>2, <3>2
  <2>4. ASSUME NEW j \in 1 .. Len(lines[t]), j > i PROVE done'[t][j] <= crashes' + faults'
    <3>1. done[t][j] <= crashes + faults /\ done[t][j] \in Nat
      BY <1>1, <1>3, <1>10, <2>4 DEF Repeats
    <3>2. j # i
      BY <1>10, <2>4
    <3>3. done'[t][j] = done[t][j]
      BY <1>7, <3>2
    <3> QED BY <1>1, <1>2, <1>4, <3>1, <3>3, MoreExcuses
  <2>5. tail[t].last # 0
    BY <1>3, <1>10
  <2> QED BY <1>2, <1>3, <1>8, <1>10, <2>3, <2>4, <2>5 DEF Repeats
<1> QED BY <1>2, <1>4, <1>6, <1>8, <1>9, <1>12, <1>13, OneTail

\* The cursor of t is the one before, or the last line read, which is not
\* held.
LEMMA SavedCursor ==
    ASSUME IInv, NEW t \in Tails, ~Held(t), NEW ok \in BOOLEAN, setCursor(t, ok)
    PROVE  /\ cursor' \in [Tails -> Nat]
           /\ \A u \in Tails \ {t} : cursor'[u] = cursor[u]
           /\ cursor'[t] \in {cursor[t], tail[t].pos}
           /\ t \in Journalled => /\ cursor'[t] <= Len(lines[t])
                                  /\ tail[t].up => \A i \in 1 .. cursor'[t] : Past(t, i)
           /\ t \in Journalled /\ tail[t].last # 0 /\ ok => cursor'[t] = tail[t].pos
           /\ t \notin Journalled \/ tail[t].last = 0 \/ ~ok => cursor' = cursor
<1>1. /\ TailsOK /\ Reader(t) /\ cursor[t] \in Nat
      /\ tail[t].pos \in Nat /\ tail[t].last \in Nat
  BY TailFacts
<1>2. CASE ok /\ t \in Journalled /\ tail[t].last > 0
  <2>1. cursor' = [cursor EXCEPT ![t] = tail[t].last] /\ tail[t].last = tail[t].pos
    BY <1>1, <1>2 DEF setCursor, Reader
  <2> QED BY <1>1, <1>2, <2>1 DEF TailsOK, Reader
<1>3. CASE ~(ok /\ t \in Journalled /\ tail[t].last > 0)
  <2>1. cursor' = cursor
    BY <1>3 DEF setCursor
  <2> QED BY <1>1, <1>3, <2>1 DEF TailsOK, Reader
<1> QED BY <1>2, <1>3

LEMMA SaveStep ==
    ASSUME IInv, NEW t \in Tails, SaveCursor(t) PROVE IInv'
<1>1. /\ TailsOK /\ Reader(t) /\ Repeats(t) /\ crashes \in Nat /\ faults \in Nat
      /\ \A j \in 1 .. Len(lines[t]) : done[t][j] \in Nat
      /\ tail[t].pos \in Nat /\ tail[t].last \in Nat
  BY TailFacts DEF TailsOK
<1>2. PICK ok \in BOOLEAN : setCursor(t, ok) /\ IF ok THEN NoFault ELSE Fault
  BY DEF SaveCursor
<1>3. /\ tail[t].up /\ ~Held(t) /\ t \in Journalled /\ tail[t].last # 0
      /\ UNCHANGED <<lines, aged, prior, missed, tail, pend, done, crashes>>
  BY DEF SaveCursor, Savable, Held, reach
<1>4. faults' \in Nat /\ faults <= faults'
  BY <1>1, <1>2, FaultCounts
<1>5. /\ cursor' \in [Tails -> Nat] /\ \A u \in Tails \ {t} : cursor'[u] = cursor[u]
      /\ cursor'[t] <= Len(lines[t]) /\ \A i \in 1 .. cursor'[t] : Past(t, i)
  BY <1>2, <1>3, SavedCursor
<1>6. TailsOK'
  BY <1>1, <1>3, <1>4, <1>5 DEF TailsOK
<1>7. Reader(t)'
  BY <1>1, <1>3, <1>5 DEF Reader, Held, Past
<1>8. Repeats(t)'
  <2>1. /\ \A j \in 1 .. Len(lines[t]) : done[t][j] <= 1 + (crashes + faults)
                                         => done[t][j] <= 1 + (crashes' + faults')
        /\ \A j \in 1 .. Len(lines[t]) : done[t][j] <= crashes + faults
                                         => done[t][j] <= crashes' + faults'
    BY <1>1, <1>3, <1>4
  <2> QED BY <1>1, <1>3, <2>1 DEF Repeats, Held
<1> QED BY <1>3, <1>4, <1>5, <1>6, <1>7, <1>8, OneTail

\* A stream that ends has its cursor saved, or the failure counted.
LEMMA EndStep ==
    ASSUME IInv, NEW t \in Tails, StreamEnd(t) PROVE IInv'
<1>1. /\ TailsOK /\ Reader(t) /\ Repeats(t) /\ crashes \in Nat /\ faults \in Nat
      /\ \A j \in 1 .. Len(lines[t]) : done[t][j] \in Nat
      /\ tail[t].pos \in Nat /\ tail[t].last \in Nat /\ Len(lines[t]) \in Nat
  BY TailFacts DEF TailsOK
<1>2. PICK ok \in BOOLEAN : /\ setCursor(t, ok)
                            /\ faults' = IF ok THEN faults ELSE faults + 1
  BY DEF StreamEnd
<1>3. /\ tail[t].up /\ ~Held(t) /\ tail' = [tail EXCEPT ![t] = Idle]
      /\ UNCHANGED <<lines, aged, prior, missed, pend, done, crashes>>
  BY DEF StreamEnd, Held, reach
<1>4. faults' \in Nat /\ faults <= faults'
  BY <1>1, <1>2
<1>5. /\ cursor' \in [Tails -> Nat] /\ \A u \in Tails \ {t} : cursor'[u] = cursor[u]
      /\ t \in Journalled => /\ cursor'[t] <= Len(lines[t])
                             /\ \A i \in 1 .. cursor'[t] : Past(t, i)
      /\ t \in Journalled /\ tail[t].last # 0 /\ ok => cursor'[t] = tail[t].pos
      /\ tail[t].last = 0 \/ ~ok => cursor' = cursor
  BY <1>2, <1>3, SavedCursor
<1>6. tail'[t] = Idle /\ \A u \in Tails \ {t} : tail'[u] = tail[u]
  BY <1>1, <1>3 DEF TailsOK
<1>7. TailsOK'
  BY <1>1, <1>3, <1>4, <1>5 DEF TailsOK, Idle
<1>8. Reader(t)'
  BY <1>1, <1>3, <1>5, <1>6 DEF Reader, Held, Idle, Past
<1>9. Repeats(t)'
  <2>1. ASSUME NEW j \in 1 .. Len(lines[t])
        PROVE  done[t][j] <= 1 + (crashes' + faults')
    BY <1>1, <1>3, <1>4 DEF Repeats
  <2>2. ASSUME t \in Journalled, NEW j \in 1 .. Len(lines[t]), j > cursor'[t]
        PROVE  done[t][j] <= crashes' + faults'
    <3>1. CASE ~ok
      BY <1>1, <1>2, <1>3, <3>1 DEF Repeats
    <3>2. CASE ok /\ tail[t].last # 0
      BY <1>1, <1>2, <1>3, <1>5, <2>2, <3>2 DEF Repeats
    <3>3. CASE ok /\ tail[t].last = 0
      BY <1>1, <1>2, <1>3, <1>5, <2>2, <3>3 DEF Repeats
    <3> QED BY <3>1, <3>2, <3>3
  <2> QED BY <1>3, <1>6, <2>1, <2>2 DEF Repeats, Idle
<1> QED BY <1>3, <1>4, <1>5, <1>6, <1>7, <1>8, <1>9, OneTail

\* A crash or a reboot is counted, so what follows may repeat.
LEMMA RestartStep ==
    ASSUME IInv, Crash \/ Reboot PROVE IInv'
<1>1. TailsOK /\ crashes \in Nat /\ faults \in Nat
  BY DEF IInv, TailsOK
<1>2. /\ tail' = [t \in Tails |-> Idle] /\ pend' = [w \in Writers |-> Nothing]
      /\ crashes' = crashes + 1
      /\ UNCHANGED <<cursor, lines, aged, missed, done, faults>>
  BY DEF Crash, Reboot, Restart
<1>3. prior' = prior \/ prior' = [t \in Tails |-> IF t = "kernel" THEN Len(lines[t])
                                                                 ELSE prior[t]]
  BY DEF Crash, Reboot
<1>4. ASSUME NEW t \in Tails
      PROVE  prior'[t] \in {prior[t], Len(lines[t])} /\ Len(lines[t]) \in Nat
  BY <1>3, TailFacts
<1>5. TailsOK'
  <2>1. prior' \in [Tails -> Nat]
    <3>1. CASE prior' = prior
      BY <1>1, <3>1 DEF TailsOK
    <3>2. CASE prior' # prior
      <4>1. \A t \in Tails : Len(lines[t]) \in Nat /\ prior[t] \in Nat
        BY <1>1, <1>4 DEF TailsOK
      <4> QED BY <1>3, <3>2, <4>1
    <3> QED BY <3>1, <3>2
  <2> QED BY <1>1, <1>2, <2>1 DEF TailsOK, Idle
<1>6. ASSUME NEW t \in Tails PROVE Reader(t)' /\ Repeats(t)'
  <2>1. /\ Reader(t) /\ Repeats(t) /\ Len(lines[t]) \in Nat /\ t \in Writers
        /\ \A j \in 1 .. Len(lines[t]) : done[t][j] \in Nat
    BY TailFacts
  <2>2. tail'[t] = Idle /\ pend'[t] = Nothing
    BY <1>2, <2>1
  <2>3. prior'[t] <= Len(lines[t])
    BY <1>4, <2>1 DEF Reader
  <2>4. Reader(t)'
    BY <1>2, <2>1, <2>2, <2>3 DEF Reader, Held, Idle, Past
  <2>5. \A j \in 1 .. Len(lines[t]) : /\ done[t][j] <= crashes' + faults'
                                      /\ done[t][j] <= 1 + (crashes' + faults')
    BY <1>1, <1>2, <2>1 DEF Repeats
  <2>6. Repeats(t)'
    BY <1>2, <2>2, <2>5 DEF Repeats, Idle
  <2> QED BY <2>4, <2>6
<1> QED BY <1>5, <1>6 DEF IInv

\* The steps that are no tail's.
LEMMA OtherSteps ==
    ASSUME IInv,
           \/ \E l \in Lines : LogSNIEvent(l)
           \/ insertEntry("sni")
           \/ \E r \in Actors : Work(r)
           \/ refreshCachesLoop \/ Request \/ cleanOldEntries
           \/ \E m \in Devices, a \in IPs : Lease(m, a)
           \/ \E l \in leases : Expire(l)
           \/ \E a \in IPs : Neighbour(a)
           \/ scan
           \/ \E m \in Devices : upsertDevice(m)
           \/ UNCHANGED vars
    PROVE  /\ IInv' /\ UNCHANGED <<cursor, lines, reach, done>>
           /\ faults' \in {faults, faults + 1}
<1>1. TailsOK /\ faults \in Nat /\ pend \in [Writers -> Rows \cup {Nothing}]
  BY DEF IInv, TailsOK
<1>2. "sni" \notin Tails /\ \A t \in Tails : t \in Writers
  BY TrafficLogAssumption DEF Writers
<1>3. CASE \E l \in Lines : LogSNIEvent(l)
  <2>1. PICK l \in Lines : LogSNIEvent(l)
    BY <1>3
  <2>2. l \in LineSpace
    BY TrafficLogAssumption
  <2>3. PICK m :
          LET e == [source |-> "sniproxy", mac |-> NoMAC, ip |-> l.ip, name |-> l.name,
                    action |-> IF m \in Devices THEN l.action ELSE "blocked"]
          IN  pend' = IF Suppressed(e) THEN pend
                      ELSE [pend EXCEPT !["sni"] = Row(e, "sni", 0)]
    BY <2>1 DEF LogSNIEvent
  <2> DEFINE e == [source |-> "sniproxy", mac |-> NoMAC, ip |-> l.ip, name |-> l.name,
                   action |-> IF m \in Devices THEN l.action ELSE "blocked"]
  <2>4. e \in EntrySpace
    BY <2>2 DEF EntrySpace, LineSpace
  <2>5. pend' = pend \/ pend' = [pend EXCEPT !["sni"] = Row(e, "sni", 0)]
    BY <2>3
  <2> HIDE DEF e
  <2>6. Row(e, "sni", 0) \in Rows
    BY <2>4 DEF Rows, Row, Writers
  <2>7. /\ pend' \in [Writers -> Rows \cup {Nothing}]
        /\ \A t \in Tails : pend'[t] = pend[t]
    BY <1>1, <1>2, <2>5, <2>6
  <2>8. UNCHANGED <<cursor, lines, reach, tail, done, crashes, faults>>
    BY <2>1 DEF LogSNIEvent
  <2> QED BY <1>1, <2>7, <2>8, Elsewhere
<1>4. CASE insertEntry("sni")
  <2>1. /\ pend' = [pend EXCEPT !["sni"] = Nothing]
        /\ UNCHANGED <<cursor, lines, reach, tail, done, crashes>> /\ (Fault \/ NoFault)
    BY <1>2, <1>4 DEF insertEntry
  <2>2. faults' \in Nat /\ faults <= faults' /\ faults' \in {faults, faults + 1}
    BY <1>1, <2>1, FaultCounts
  <2>3. /\ pend' \in [Writers -> Rows \cup {Nothing}]
        /\ \A t \in Tails : pend'[t] = pend[t]
    BY <1>1, <1>2, <2>1
  <2> QED BY <2>1, <2>2, <2>3, Elsewhere
<1>5. ASSUME UNCHANGED <<cursor, lines, reach, tail, done, pend, crashes>>,
             Fault \/ NoFault \/ faults' = faults
      PROVE  /\ IInv' /\ UNCHANGED <<cursor, lines, reach, done>>
             /\ faults' \in {faults, faults + 1}
  <2>1. faults' \in Nat /\ faults <= faults' /\ faults' \in {faults, faults + 1}
    BY <1>1, <1>5, FaultCounts
  <2> QED BY <1>1, <1>5, <2>1, Elsewhere
<1>6. CASE \E r \in Actors : Work(r)
  BY <1>5, <1>6 DEF Work, Query, QueryFails, Swap, DeviceIPByMAC, DeleteRow,
     WipeForDevice, tailing, counts
<1>7. CASE refreshCachesLoop \/ cleanOldEntries
  BY <1>5, <1>7 DEF refreshCachesLoop, cleanOldEntries, tailing, counts
<1>8. CASE Request
  BY <1>5, <1>8 DEF Request, UpdateDevice, DeleteDevice, AddMuted, RemoveMuted,
     SwitchDomain, Clear, Serve, tailing, counts
<1>9. CASE \/ \E m \in Devices, a \in IPs : Lease(m, a)
           \/ \E l \in leases : Expire(l)
           \/ \E a \in IPs : Neighbour(a)
           \/ scan
  BY <1>5, <1>9 DEF Lease, Expire, Neighbour, scan, tailing
<1>10. CASE \E m \in Devices : upsertDevice(m)
  BY <1>5, <1>10 DEF upsertDevice, tailing
<1>11. CASE UNCHANGED vars
  BY <1>5, <1>11 DEF vars, tailing, counts
<1> QED BY <1>3, <1>4, <1>6, <1>7, <1>8, <1>9, <1>10, <1>11

LEMMA InitIInv == Init => IInv
<1> SUFFICES ASSUME Init PROVE IInv
  OBVIOUS
<1>1. PICK b \in Before :
        /\ lines = [t \in Tails |-> b.logs[t].lines]
        /\ cursor = [t \in Tails |-> b.logs[t].cursor]
        /\ aged = [t \in Tails |-> b.logs[t].aged]
        /\ prior = [t \in Tails |-> b.logs[t].prior]
  BY DEF Init
<1>2. /\ done = [t \in Tails |-> [i \in 1 .. Len(lines[t]) |->
                                    IF i <= cursor[t] THEN 1 ELSE 0]]
      /\ missed = [t \in Tails |-> {}] /\ tail = [t \in Tails |-> Idle]
      /\ pend = [w \in Writers |-> Nothing] /\ crashes = 0 /\ faults = 0
  BY DEF Init
<1>3. ASSUME NEW t \in Tails
      PROVE  /\ lines[t] \in Seq(LineSpace) /\ Len(lines[t]) \in Nat
             /\ cursor[t] \in 0 .. Len(lines[t]) /\ aged[t] \in 0 .. Len(lines[t])
             /\ prior[t] \in 0 .. Len(lines[t])
             /\ t \notin Journalled => cursor[t] = 0
  <2>1. /\ b.logs[t] \in LogSpace
        /\ {b.logs[t].cursor, b.logs[t].aged, b.logs[t].prior}
             \subseteq 0 .. Len(b.logs[t].lines)
        /\ t \notin Journalled => b.logs[t].cursor = 0
    BY TrafficLogAssumption
  <2>2. b.logs[t].lines \in Seq(LineSpace)
    BY <2>1 DEF LogSpace
  <2>3. /\ lines[t] = b.logs[t].lines /\ cursor[t] = b.logs[t].cursor
        /\ aged[t] = b.logs[t].aged /\ prior[t] = b.logs[t].prior
    BY <1>1
  <2> QED BY <2>1, <2>2, <2>3
<1>4. ASSUME NEW t \in Tails
      PROVE  /\ done[t] \in Seq(Nat) /\ Len(done[t]) = Len(lines[t])
             /\ \A i \in 1 .. Len(lines[t]) :
                  done[t][i] = IF i <= cursor[t] THEN 1 ELSE 0
  <2>1. done[t] = [i \in 1 .. Len(lines[t]) |-> IF i <= cursor[t] THEN 1 ELSE 0]
    BY <1>2
  <2> QED BY <1>3, <2>1
<1>5. TailsOK
  <2>1. /\ lines \in [Tails -> Seq(LineSpace)] /\ cursor \in [Tails -> Nat]
        /\ aged \in [Tails -> Nat] /\ prior \in [Tails -> Nat]
    BY <1>1, <1>3
  <2>2. done \in [Tails -> Seq(Nat)]
    BY <1>2, <1>4
  <2> QED BY <1>2, <2>1, <2>2 DEF TailsOK, Idle
<1>6. ASSUME NEW t \in Tails PROVE Reader(t) /\ Repeats(t)
  <2>1. missed[t] = {} /\ tail[t] = Idle /\ pend[t] = Nothing
    BY <1>2 DEF Writers
  <2>2. \A i \in 1 .. cursor[t] : Past(t, i)
    BY <1>3, <1>4 DEF Past
  <2>3. Reader(t)
    BY <1>3, <1>4, <2>1, <2>2 DEF Reader, Held, Idle
  <2>4. Repeats(t)
    BY <1>2, <1>3, <1>4, <2>1 DEF Repeats, Held, Idle
  <2> QED BY <2>3, <2>4
<1> QED BY <1>5, <1>6 DEF IInv

LEMMA NextIInv == IInv /\ [Next]_vars => IInv'
<1> SUFFICES ASSUME IInv, [Next]_vars PROVE IInv'
  OBVIOUS
<1>1. CASE \E l \in Lines : Write(l)
  BY <1>1, WriteStep
<1>2. CASE \E t \in Tails : Age(t) \/ Follow(t) \/ SaveCursor(t) \/ StreamEnd(t)
  BY <1>2, AgeStep, OpenStep, ReadLineStep, InsertStep, SaveStep, EndStep DEF Follow
<1>3. CASE Crash \/ Reboot
  BY <1>3, RestartStep
<1> QED BY <1>1, <1>2, <1>3, OtherSteps DEF Next

\* The inductive invariant of the tails.
THEOREM TailsInvariant == Spec => []IInv
BY InitIInv, NextIInv, PTL DEF Spec

\* The saved cursor of a journal never runs ahead of what has been dealt with
\* or was hidden when a tail started (setCursor follows the parser in
\* tailJournal; --since and -k hide lines).
THEOREM CursorSkipsNothing == Spec => []NoGaps
<1>1. IInv => NoGaps
  BY TrafficLogAssumption DEF IInv, Reader, NoGaps
<1> QED BY <1>1, TailsInvariant, PTL

\* Only crashes and failing statements make a tail deal with a line again.
THEOREM RepeatsAreExcused == Spec => []RepeatsExcused
<1>1. IInv => RepeatsExcused
  <2> SUFFICES ASSUME IInv, NEW t \in Tails, NEW i \in 1 .. Len(lines[t])
               PROVE  done[t][i] <= 1 + crashes + faults
    BY DEF RepeatsExcused
  <2>1. done[t][i] <= 1 + (crashes + faults) /\ crashes \in Nat /\ faults \in Nat
    BY TailFacts DEF Repeats, TailsOK
  <2> QED BY <2>1
<1> QED BY <1>1, TailsInvariant, PTL

-----------------------------------------------------------------------------
(* The refinement.                                                         *)

\* A step that leaves the journals alone is none of Delivery, or fails.
LEMMA Uninvolved ==
    ASSUME \A u \in Journalled : /\ lines'[u] = lines[u] /\ done'[u] = done[u]
                                 /\ cursor'[u] = cursor[u] /\ aged'[u] = aged[u]
                                 /\ prior'[u] = prior[u] /\ missed'[u] = missed[u],
           faults' \in {faults, faults + 1}
    PROVE  [Journal!Next]_Journal!vars
<1>1. CASE faults' = faults
  BY <1>1 DEF Journal!vars
<1>2. CASE faults' = faults + 1
  <2>1. Journal!Fail
    BY <1>2 DEF Journal!Fail
  <2> QED BY <2>1 DEF Journal!Next
<1> QED BY <1>1, <1>2

\* A step that deals with line i of t delivers it, if t is a journal.
LEMMA DealtDelivers ==
    ASSUME IInv, NEW t \in Tails, NEW i \in 1 .. Len(lines[t]),
           done' = Dealt(t, i), UNCHANGED <<cursor, lines, reach>>,
           faults' \in {faults, faults + 1}
    PROVE  [Journal!Next]_Journal!vars
<1>1. TailsOK /\ done[t] \in Seq(Nat) /\ Len(done[t]) = Len(lines[t])
  BY TailFacts
<1>2. /\ done'[t] = [done[t] EXCEPT ![i] = @ + 1]
      /\ \A u \in Tails \ {t} : done'[u] = done[u]
  BY <1>1 DEF TailsOK, Dealt
<1>3. /\ done'[t][i] = done[t][i] + 1 /\ done[t][i] \in Nat
      /\ \A j \in 1 .. Len(lines[t]) : j # i => done'[t][j] = done[t][j]
  <2>1. done[t] \in Seq(Nat) /\ i \in 1 .. Len(done[t]) /\ done[t][i] \in Nat
    BY <1>1
  <2> QED BY <1>1, <1>2, <2>1, CountOnce
<1>4. {j \in 1 .. Len(lines[t]) : done'[t][j] > 0}
        = {j \in 1 .. Len(lines[t]) : done[t][j] > 0} \cup {i}
  BY <1>3
<1>5. CASE t \in Journalled
  <2> DEFINE had == [u \in Journalled |-> {j \in 1 .. Len(lines[u]) : done[u][j] > 0}]
             has == [u \in Journalled |-> {j \in 1 .. Len(lines[u]) : done'[u][j] > 0}]
  <2>0. has = [had EXCEPT ![t] = @ \cup {i}]
    BY <1>2, <1>4, <1>5, TrafficLogAssumption
  <2>1. Journal!Deliver(t, i)
    BY <1>5, <2>0 DEF Journal!Deliver, Journal!Failing, reach
  <2> QED BY <1>5, <2>1 DEF Journal!Next
<1>6. CASE t \notin Journalled
  BY <1>2, <1>6, TrafficLogAssumption, Uninvolved DEF reach
<1> QED BY <1>5, <1>6

\* A step that changes the cursor of t only acknowledges what has been
\* delivered or is lost.
LEMMA SavedAcknowledges ==
    ASSUME IInv, IInv', NEW t \in Tails, UNCHANGED <<lines, done, reach>>,
           \A u \in Tails \ {t} : cursor'[u] = cursor[u],
           faults' \in {faults, faults + 1}
    PROVE  [Journal!Next]_Journal!vars
<1>1. CASE t \in Journalled
  <2>1. /\ cursor' \in [Tails -> Nat] /\ cursor'[t] \in Nat /\ Reader(t)'
    BY DEF IInv, TailsOK
  <2>2. PICK k \in Nat : k = cursor'[t]
    BY <2>1
  <2>3. /\ k \in 0 .. Len(lines[t])
        /\ 1 .. k \subseteq {i \in 1 .. Len(lines[t]) : done[t][i] > 0} \cup missed[t]
    BY <1>1, <2>1, <2>2 DEF Reader, Past, reach
  <2>4. Journal!Ack(t, k)
    BY <1>1, <2>2, <2>3, TrafficLogAssumption
       DEF Journal!Ack, Journal!Failing, reach
  <2> QED BY <1>1, <2>3, <2>4 DEF Journal!Next
<1>2. CASE t \notin Journalled
  BY <1>2, TrafficLogAssumption, Uninvolved DEF reach
<1> QED BY <1>1, <1>2

\* A tail that starts loses the lines that are hidden from it: those of an
\* earlier boot and, if it has found no cursor, those of more than a day ago.
LEMMA OpenStarts ==
    ASSUME IInv, NEW t \in Tails, Open(t)
    PROVE  [Journal!Next]_Journal!vars
<1>1. /\ TailsOK /\ Reader(t) /\ cursor[t] \in Nat /\ Len(lines[t]) \in Nat
      /\ aged[t] \in Nat /\ prior[t] \in Nat
      /\ \A i \in 1 .. Len(lines[t]) : done[t][i] \in Nat /\ faults \in Nat
  BY TailFacts DEF TailsOK
<1>2. PICK from \in {cursor[t], 0} :
        /\ missed' = [missed EXCEPT ![t] =
                        @ \cup {i \in 1 .. Hidden(t, from) : done[t][i] = 0}]
        /\ IF from = cursor[t] THEN NoFault ELSE t \in Journalled /\ Fault
  BY DEF Open
<1>3. UNCHANGED <<cursor, lines, aged, prior, done>>
  BY DEF Open
<1>4. /\ faults' \in {faults, faults + 1}
      /\ from # cursor[t] => t \in Journalled /\ faults' = faults + 1
  BY <1>2 DEF Fault, NoFault
<1>5. CASE t \in Journalled
  <2> DEFINE known == from # 0
             hid == 1 .. prior[t] \cup (IF known THEN {} ELSE 1 .. aged[t])
             dealt == {i \in 1 .. Len(lines[t]) : done[t][i] > 0}
             unseen == {i \in 1 .. Hidden(t, from) : done[t][i] = 0}
  <2>1. known \/ cursor[t] = 0 \/ faults' = faults + 1
    BY <1>2, <1>4
  <2>2. hid = 1 .. Hidden(t, from)
    BY <1>1 DEF Hidden
  <2>3. Hidden(t, from) \in 0 .. Len(lines[t])
    BY Starts
  <2>4. unseen = hid \ dealt
    <3>1. ASSUME NEW i \in 1 .. Hidden(t, from)
          PROVE  i \in 1 .. Len(lines[t]) /\ (done[t][i] = 0 <=> i \notin dealt)
      BY <1>1, <2>3
    <3> HIDE DEF hid, dealt
    <3> QED BY <2>2, <3>1
  <2>5. missed' = [missed EXCEPT ![t] = @ \cup (hid \ dealt)]
    BY <1>2, <2>4
  <2>6. known \in BOOLEAN
    OBVIOUS
  <2>7. Journal!Start(t)
    <3>1. [u \in Journalled |-> missed'[u]]
            = [[u \in Journalled |-> missed[u]] EXCEPT ![t] = @ \cup (hid \ dealt)]
      <4> HIDE DEF hid, dealt
      <4> QED BY <1>1, <1>5, <2>5, TrafficLogAssumption DEF TailsOK
    <3> QED BY <1>3, <1>4, <1>5, <2>1, <2>6, <3>1 DEF Journal!Start, Journal!Failing
  <2> QED BY <1>5, <2>7 DEF Journal!Next
<1>6. CASE t \notin Journalled
  <2>1. \A u \in Tails \ {t} : missed'[u] = missed[u]
    BY <1>1, <1>2 DEF TailsOK
  <2> QED BY <1>3, <1>4, <1>6, <2>1, TrafficLogAssumption, Uninvolved
<1> QED BY <1>5, <1>6

\* A day's passing, and the end of a boot.
LEMMA AgeAges ==
    ASSUME IInv, NEW t \in Tails, Age(t)
    PROVE  [Journal!Next]_Journal!vars
<1>1. TailsOK /\ aged[t] \in Nat /\ Len(lines[t]) \in Nat
  BY TailFacts DEF TailsOK
<1>2. PICK k \in aged[t] + 1 .. Len(lines[t]) : aged' = [aged EXCEPT ![t] = k]
  BY DEF Age
<1>3. /\ t \in Journalled
      /\ UNCHANGED <<cursor, lines, prior, missed, done, faults>>
  BY DEF Age
<1>4. k \in aged[t] .. Len(lines[t])
  BY <1>1
<1>5. [u \in Journalled |-> aged'[u]] = [[u \in Journalled |-> aged[u]] EXCEPT ![t] = k]
  BY <1>1, <1>2, <1>3, TrafficLogAssumption DEF TailsOK
<1>6. Journal!Age(t)
  BY <1>3, <1>4, <1>5 DEF Journal!Age
<1> QED BY <1>3, <1>6 DEF Journal!Next

LEMMA RebootShuts ==
    ASSUME IInv, Reboot
    PROVE  [Journal!Next]_Journal!vars
<1>1. prior' = [t \in Tails |-> IF t = "kernel" THEN Len(lines[t]) ELSE prior[t]]
  BY DEF Reboot
<1>2. UNCHANGED <<cursor, lines, aged, missed, done, faults>>
  BY DEF Reboot, Restart
<1>3. [t \in Journalled |-> prior'[t]]
        = [t \in Journalled |-> IF t \in Journalled \cap {"kernel"}
                                  THEN Len(lines[t]) ELSE prior[t]]
  BY <1>1, TrafficLogAssumption
<1>4. [t \in Journalled |-> prior'[t]]
        = [t \in Journalled |-> IF t \in Journalled \cap {"kernel"}
                                  THEN [u \in Journalled |-> Len(lines[u])][t]
                                  ELSE [u \in Journalled |-> prior[u]][t]]
  BY <1>3
<1>5. Journal!Shutdown
  BY <1>2, <1>4 DEF Journal!Shutdown
<1> QED BY <1>5 DEF Journal!Next

\* A new line of a journal is one more to deliver.
LEMMA WriteWrites ==
    ASSUME IInv, NEW l \in Lines, Write(l)
    PROVE  [Journal!Next]_Journal!vars
<1> DEFINE t == l.tail
<1>1. t \in Tails
  BY DEF Write
<1>2. /\ TailsOK /\ done[t] \in Seq(Nat) /\ lines[t] \in Seq(LineSpace)
      /\ Len(done[t]) = Len(lines[t]) /\ Len(lines[t]) \in Nat
  BY <1>1, TailFacts
<1>3. /\ lines' = [lines EXCEPT ![t] = Append(@, l)]
      /\ done' = [done EXCEPT ![t] = Append(@, 0)] /\ cursor' = cursor
      /\ UNCHANGED <<aged, prior, missed, faults>>
  BY DEF Write, reach
<1>4. l \in LineSpace
  BY TrafficLogAssumption
<1> HIDE DEF t
<1>5. /\ lines'[t] = Append(lines[t], l) /\ done'[t] = Append(done[t], 0)
      /\ \A u \in Tails \ {t} : lines'[u] = lines[u] /\ done'[u] = done[u]
  BY <1>1, <1>2, <1>3 DEF TailsOK
<1>6. /\ Len(lines'[t]) = Len(lines[t]) + 1
      /\ \A i \in 1 .. Len(lines[t]) : done'[t][i] = done[t][i]
      /\ done'[t][Len(lines[t]) + 1] = 0
  <2>1. Len(lines'[t]) = Len(lines[t]) + 1
    BY <1>2, <1>4, <1>5
  <2> QED BY <1>2, <1>5, <2>1, CountNew
<1>7. {i \in 1 .. Len(lines'[t]) : done'[t][i] > 0}
        = {i \in 1 .. Len(lines[t]) : done[t][i] > 0}
  <2>1. ASSUME NEW i \in 1 .. Len(lines'[t]), done'[t][i] > 0
        PROVE  i \in 1 .. Len(lines[t]) /\ done[t][i] > 0
    <3>1. i # Len(lines[t]) + 1
      BY <1>6, <2>1
    <3>2. i \in 1 .. Len(lines[t])
      BY <1>2, <1>6, <3>1
    <3> QED BY <1>6, <2>1, <3>2
  <2>2. ASSUME NEW i \in 1 .. Len(lines[t]), done[t][i] > 0
        PROVE  i \in 1 .. Len(lines'[t]) /\ done'[t][i] > 0
    BY <1>2, <1>6, <2>2
  <2> QED BY <2>1, <2>2
<1>8. CASE t \in Journalled
  <2>1. [u \in Journalled |-> Len(lines'[u])]
          = [[u \in Journalled |-> Len(lines[u])] EXCEPT ![t] = @ + 1]
    BY <1>5, <1>6, <1>8, TrafficLogAssumption
  <2>2. \A u \in Journalled : {i \in 1 .. Len(lines'[u]) : done'[u][i] > 0}
                               = {i \in 1 .. Len(lines[u]) : done[u][i] > 0}
    BY <1>5, <1>7, TrafficLogAssumption
  <2>3. Journal!Write(t)
    BY <1>3, <2>1, <2>2 DEF Journal!Write
  <2> QED BY <1>8, <2>3 DEF Journal!Next
<1>9. CASE t \notin Journalled
  BY <1>3, <1>5, <1>9, TrafficLogAssumption, Uninvolved
<1> QED BY <1>8, <1>9

\* Reading the journals is at-least-once delivery of what journalctl shows:
\* every step of the daemon, crashes, reboots and failing statements
\* included, is a step of Delivery or none.
THEOREM ImplementsDelivery == Spec => DeliversJournal
<1>1. Init => Journal!Init
  <2> SUFFICES ASSUME Init PROVE Journal!Init
    OBVIOUS
  <2>1. TailsOK /\ \A t \in Tails : Reader(t)
    BY InitIInv DEF IInv
  <2>2. ASSUME NEW t \in Journalled
        PROVE  /\ Len(lines[t]) \in Nat /\ cursor[t] \in 0 .. Len(lines[t])
               /\ aged[t] \in 0 .. Len(lines[t]) /\ prior[t] \in 0 .. Len(lines[t])
    BY <2>1, TrafficLogAssumption DEF TailsOK, Reader
  <2>3. ASSUME NEW t \in Journalled
        PROVE  {i \in 1 .. Len(lines[t]) : done[t][i] > 0} = 1 .. cursor[t]
    <3>1. \A i \in 1 .. Len(lines[t]) : done[t][i] = IF i <= cursor[t] THEN 1 ELSE 0
      BY TrafficLogAssumption DEF Init
    <3> QED BY <2>2, <3>1
  <2>4. \A t \in Journalled : missed[t] = {}
    BY TrafficLogAssumption DEF Init
  <2>5. faults = 0
    BY DEF Init
  <2>6. /\ [t \in Journalled |-> {i \in 1 .. Len(lines[t]) : done[t][i] > 0}]
             = [t \in Journalled |-> 1 .. [u \in Journalled |-> cursor[u]][t]]
        /\ [t \in Journalled |-> missed[t]] = [t \in Journalled |-> {}]
    BY <2>3, <2>4
  <2>7. /\ [t \in Journalled |-> Len(lines[t])] \in [Journalled -> Nat]
        /\ [t \in Journalled |-> cursor[t]] \in [Journalled -> Nat]
        /\ [t \in Journalled |-> aged[t]] \in [Journalled -> Nat]
        /\ [t \in Journalled |-> prior[t]] \in [Journalled -> Nat]
    BY <2>2
  <2> QED BY <2>2, <2>5, <2>6, <2>7 DEF Journal!Init
<1>2. IInv /\ [Next]_vars => [Journal!Next]_Journal!vars
  <2> SUFFICES ASSUME IInv, [Next]_vars PROVE [Journal!Next]_Journal!vars
    OBVIOUS
  <2>1. CASE \E l \in Lines : Write(l)
    BY <2>1, WriteWrites
  <2>2. ASSUME UNCHANGED <<cursor, lines, reach, done>>, faults' \in {faults, faults + 1}
        PROVE  [Journal!Next]_Journal!vars
    BY <2>2, Uninvolved DEF reach
  <2>3. ASSUME NEW t \in Tails, Age(t) \/ Open(t) PROVE [Journal!Next]_Journal!vars
    BY <2>3, AgeAges, OpenStarts
  <2>4. ASSUME NEW t \in Tails, ReadLine(t) PROVE [Journal!Next]_Journal!vars
    <3>1. /\ tail[t].pos + 1 \in 1 .. Len(lines[t]) /\ UNCHANGED <<cursor, lines, reach>>
          /\ done' = Dealt(t, tail[t].pos + 1) \/ done' = done
          /\ faults' = faults
      BY <2>4, TailFacts DEF ReadLine, counts
    <3> QED BY <2>2, <2>4, <3>1, DealtDelivers
  <2>5. ASSUME NEW t \in Tails, insertEntry(t) PROVE [Journal!Next]_Journal!vars
    <3>1. /\ done' = Dealt(t, pend[t].line) /\ UNCHANGED <<cursor, lines, reach>>
          /\ Held(t) /\ faults' \in {faults, faults + 1}
      BY <2>5 DEF insertEntry, Held, Fault, NoFault
    <3>2. pend[t].line \in 1 .. Len(lines[t])
      BY <2>5, <3>1, TailFacts DEF Reader
    <3> QED BY <2>5, <3>1, <3>2, DealtDelivers
  <2>6. ASSUME NEW t \in Tails, SaveCursor(t) \/ StreamEnd(t)
        PROVE  [Journal!Next]_Journal!vars
    <3>1. PICK ok \in BOOLEAN : setCursor(t, ok)
      BY <2>6 DEF SaveCursor, StreamEnd
    <3>2. /\ ~Held(t) /\ UNCHANGED <<lines, done, reach>>
          /\ faults' \in {faults, faults + 1}
      BY <2>6 DEF SaveCursor, StreamEnd, Savable, Held, Fault, NoFault
    <3>3. \A u \in Tails \ {t} : cursor'[u] = cursor[u]
      BY <2>6, <3>1, <3>2, SavedCursor
    <3>4. IInv'
      BY NextIInv
    <3> QED BY <2>6, <3>2, <3>3, <3>4, SavedAcknowledges
  <2>7. CASE Crash
    BY <2>2, <2>7 DEF Crash, Restart, reach
  <2>8. CASE Reboot
    BY <2>8, RebootShuts
  <2> QED BY <2>1, <2>2, <2>3, <2>4, <2>5, <2>6, <2>7, <2>8, OtherSteps DEF Next, Follow
<1> QED BY <1>1, <1>2, TailsInvariant, PTL DEF Spec, DeliversJournal, Journal!Spec

-----------------------------------------------------------------------------
(* Who a client of the SNI proxy is.                                       *)

\* dnsmasq leases no address to two devices.
Exclusive ==
    /\ \A l \in leases : l.mac \in Devices /\ l.ip \in IPs
    /\ \A l, k \in leases : l.ip = k.ip => l.mac = k.mac

\* clientMAC names the holder of the lease, whatever the ARP table says.
THEOREM ClientsRecognised == Spec => []Recognised
<1>1. Init => Exclusive
  BY TrafficLogAssumption DEF Init, Exclusive
<1>2. Exclusive /\ [Next]_vars => Exclusive'
  <2> SUFFICES ASSUME Exclusive, [Next]_vars PROVE Exclusive'
    OBVIOUS
  <2>1. ASSUME UNCHANGED leases PROVE Exclusive'
    BY <2>1 DEF Exclusive
  <2>2. ASSUME NEW m \in Devices, NEW a \in IPs, Lease(m, a) PROVE Exclusive'
    <3>1. PICK x \in {events, events + 1} :
            leases' = {l \in leases : l.ip # a} \cup {[expiry |-> x, mac |-> m, ip |-> a]}
      BY <2>2 DEF Lease
    <3> QED BY <3>1 DEF Exclusive
  <2>3. ASSUME NEW l \in leases, Expire(l) PROVE Exclusive'
    BY <2>3 DEF Expire, Exclusive
  <2>4. CASE \E l \in Lines : Write(l) \/ LogSNIEvent(l)
    BY <2>1, <2>4 DEF Write, LogSNIEvent, hosts
  <2>5. CASE \E t \in Tails : Age(t) \/ Follow(t) \/ SaveCursor(t) \/ StreamEnd(t)
    BY <2>1, <2>5 DEF Age, Follow, Open, ReadLine, insertEntry, SaveCursor, StreamEnd,
       hosts
  <2>6. CASE insertEntry("sni") \/ \E r \in Actors : Work(r)
    BY <2>1, <2>6 DEF insertEntry, Work, Query, QueryFails, Swap, DeviceIPByMAC,
       DeleteRow, WipeForDevice, hosts
  <2>7. CASE refreshCachesLoop \/ Request \/ cleanOldEntries
    BY <2>1, <2>7 DEF refreshCachesLoop, cleanOldEntries, Request, UpdateDevice,
       DeleteDevice, AddMuted, RemoveMuted, SwitchDomain, Clear, Serve, hosts
  <2>8. CASE \/ \E a \in IPs : Neighbour(a)
             \/ scan \/ Crash \/ Reboot
             \/ \E m \in Devices : upsertDevice(m)
    BY <2>1, <2>8 DEF Neighbour, scan, Crash, Reboot, Restart, upsertDevice
  <2>9. CASE UNCHANGED vars
    BY <2>1, <2>9 DEF vars, hosts
  <2> QED BY <2>2, <2>3, <2>4, <2>5, <2>6, <2>7, <2>8, <2>9 DEF Next
<1>3. Exclusive => Recognised
  <2> SUFFICES ASSUME Exclusive, NEW l \in leases
               PROVE  clientMAC(leases, arp, l.ip) = {l.mac}
    BY DEF Recognised
  <2>1. {m \in Devices : l.ip \in leasedIPsByMAC(leases, m)} = {l.mac}
    BY DEF Exclusive, leasedIPsByMAC
  <2> QED BY <2>1 DEF clientMAC
<1> QED BY <1>1, <1>2, <1>3, PTL DEF Spec

-----------------------------------------------------------------------------
(* Types.  That a cursor is behind the lines takes the invariant of the    *)
(* tails.                                                                  *)

Tables ==
    /\ ip \in [Devices -> IPs \cup {NoIP}] /\ ignored \subseteq Devices
    /\ muted \subseteq Names /\ allowed \subseteq Names /\ dnsCache \subseteq Names
    /\ found \in [Devices -> IPs \cup {NoIP}]
    /\ todo \in [Actors -> Seq(Jobs)]

Journals ==
    /\ log \in Seq(Rows \cup {Nothing})
    /\ \A t \in Tails \ Journalled : cursor[t] = 0
    /\ events \in Nat

TInv == IInv /\ Tables /\ Journals

\* A step that writes no cursor has to be looked at for the log only.
LEMMA JournalsElsewhere ==
    ASSUME Journals, UNCHANGED cursor, log' \in Seq(Rows \cup {Nothing}),
           Event \/ Fault \/ NoFault \/ events' = events
    PROVE  Journals'
BY DEF Journals, Event, Fault, NoFault

\* Rows are deleted under their ids.
LEMMA KeepType ==
    ASSUME log \in Seq(Rows \cup {Nothing}), NEW ids, Keep(ids)
    PROVE  log' \in Seq(Rows \cup {Nothing})
BY DEF Keep

\* The lists of jobs there are.
LEMMA JobLists ==
    ASSUME NEW q \in {<<>>, Refresh, <<"lookup", "wipe", "ignore">>, <<"ignore">>,
                      <<"delete", "wipe">>, <<"mute">>}
    PROVE  q \in Seq(Jobs)
<1>1. <<>> \in Seq(Jobs)
  OBVIOUS
<1>2. CASE q = Refresh
  BY <1>2 DEF Refresh, Jobs, Caches
<1>3. CASE q = <<"lookup", "wipe", "ignore">>
  BY <1>3 DEF Jobs, Caches
<1>4. CASE q = <<"delete", "wipe">>
  BY <1>4 DEF Jobs
<1>5. CASE q = <<"ignore">>
  BY <1>5 DEF Jobs, Caches
<1>6. CASE q = <<"mute">>
  BY <1>6 DEF Jobs, Caches
<1> QED BY <1>1, <1>2, <1>3, <1>4, <1>5, <1>6, Zenon

\* An empty log is a log.
LEMMA EmptyLog == <<>> \in Seq(Rows \cup {Nothing})
OBVIOUS

\* The rest of a list of jobs.
LEMMA DropType ==
    ASSUME Tables, NEW r \in Actors, todo[r] # <<>>, Drop(r)
    PROVE  todo' \in [Actors -> Seq(Jobs)]
<1>1. todo[r] \in Seq(Jobs)
  BY DEF Tables
<1>2. Tail(todo[r]) \in Seq(Jobs)
  BY <1>1
<1> QED BY <1>2 DEF Tables, Drop

LEMMA JournalsInit == Init => Tables /\ Journals
<1> SUFFICES ASSUME Init PROVE Tables /\ Journals
  OBVIOUS
<1>1. ip \in [Devices -> IPs \cup {NoIP}]
  <2>1. ASSUME NEW m \in Devices, \E h \in Hosts : h.mac = m
        PROVE  (CHOOSE h \in Hosts : h.mac = m).ip \in IPs
    <3>1. (CHOOSE h \in Hosts : h.mac = m) \in Hosts
      BY <2>1
    <3> QED BY <3>1, TrafficLogAssumption
  <2> QED BY <2>1 DEF Init
<1>2. ignored \subseteq Devices /\ muted \subseteq Names /\ allowed \subseteq Names
  <2>1. PICK b \in Before : ignored = b.ignored /\ muted = b.muted
    BY DEF Init
  <2>2. b.ignored \subseteq {h.mac : h \in Hosts} /\ b.muted \subseteq Patterns
    BY TrafficLogAssumption
  <2>3. {h.mac : h \in Hosts} \subseteq Devices /\ Patterns \subseteq Names
    BY TrafficLogAssumption
  <2> QED BY <2>1, <2>2, <2>3 DEF Init
<1>3. found \in [Devices -> IPs \cup {NoIP}] /\ dnsCache \subseteq Names
  BY DEF Init
<1>4. todo \in [Actors -> Seq(Jobs)]
  <2>1. Refresh \in Seq(Jobs) /\ <<>> \in Seq(Jobs)
    BY JobLists
  <2> QED BY <2>1 DEF Init
<1>5. Journals
  <2>1. PICK b \in Before : cursor = [t \in Tails |-> b.logs[t].cursor]
    BY DEF Init
  <2>2. \A t \in Tails \ Journalled : b.logs[t].cursor = 0
    BY TrafficLogAssumption
  <2> QED BY <2>1, <2>2, EmptyLog DEF Init, Journals
<1> QED BY <1>1, <1>2, <1>3, <1>4, <1>5 DEF Tables

LEMMA JournalsNext == TInv /\ [Next]_vars => (Tables /\ Journals)'
<1> SUFFICES ASSUME TInv, [Next]_vars PROVE (Tables /\ Journals)'
  OBVIOUS
<1>1. /\ IInv /\ Tables /\ Journals /\ TailsOK /\ log \in Seq(Rows \cup {Nothing})
  BY DEF TInv, IInv, Journals
<1>2. ASSUME UNCHANGED <<tables, hosts, todo, dnsCache>> PROVE Tables'
  BY <1>1, <1>2 DEF Tables, tables, hosts
<1>3. CASE \E l \in Lines : Write(l)
  <2>1. /\ UNCHANGED <<tables, hosts, todo, dnsCache, cursor, log>> /\ Event
    BY <1>3 DEF Write, work
  <2> QED BY <1>1, <1>2, <2>1, JournalsElsewhere
<1>4. CASE \E l \in Lines : LogSNIEvent(l)
  <2>1. /\ UNCHANGED <<tables, hosts, todo, dnsCache, lines, cursor, log>> /\ Event
    BY <1>4 DEF LogSNIEvent, work
  <2> QED BY <1>1, <1>2, <2>1, JournalsElsewhere
<1>5. CASE \E t \in Tails : Age(t) \/ Open(t)
  <2>1. /\ UNCHANGED <<tables, hosts, todo, dnsCache, lines, cursor, log>>
        /\ Event \/ NoFault \/ Fault
    BY <1>5 DEF Age, Open, work
  <2> QED BY <1>1, <1>2, <2>1, JournalsElsewhere
<1>6. CASE \E t \in Tails : ReadLine(t)
  <2>1. PICK t \in Tails : ReadLine(t)
    BY <1>6
  <2>2. UNCHANGED <<tables, hosts, todo, lines, cursor, log, events>>
    BY <2>1 DEF ReadLine, work, counts
  <2>3. dnsCache' \subseteq Names
    <3> DEFINE l == lines[t][tail[t].pos + 1]
    <3>1. /\ tail[t].pos \in Nat /\ lines[t] \in Seq(LineSpace)
          /\ tail[t].pos < Len(lines[t])
      BY <1>1, <2>1, TailFacts DEF ReadLine
    <3>2. l \in LineSpace
      BY <3>1
    <3>3. dnsCache' = dnsCache \/ dnsCache' = learn(l.name)
      BY <2>1 DEF ReadLine
    <3> HIDE DEF l
    <3>4. learn(l.name) \subseteq dnsCache \cup {l.name} /\ l.name \in Names
      BY <3>2 DEF learn, LineSpace
    <3> QED BY <1>1, <3>3, <3>4 DEF Tables
  <2>4. Tables'
    BY <1>1, <2>2, <2>3 DEF Tables, tables, hosts
  <2> QED BY <1>1, <2>2, <2>4, JournalsElsewhere
<1>7. CASE \E w \in Writers : insertEntry(w)
  <2>1. PICK w \in Writers : insertEntry(w)
    BY <1>7
  <2>2. /\ UNCHANGED <<tables, hosts, todo, dnsCache, lines, cursor>>
        /\ log' = log \/ log' = Append(log, pend[w])
        /\ NoFault \/ Fault
    BY <2>1 DEF insertEntry, work
  <2>3. pend[w] \in Rows \cup {Nothing}
    BY <1>1 DEF TailsOK
  <2>4. log' \in Seq(Rows \cup {Nothing})
    BY <1>1, <2>2, <2>3
  <2> QED BY <1>1, <1>2, <2>2, <2>4, JournalsElsewhere
<1>8. CASE \E t \in Tails : SaveCursor(t) \/ StreamEnd(t)
  <2>1. PICK t \in Tails : SaveCursor(t) \/ StreamEnd(t)
    BY <1>8
  <2>2. PICK ok \in BOOLEAN : setCursor(t, ok)
    BY <2>1 DEF SaveCursor, StreamEnd
  <2>3. /\ UNCHANGED <<tables, hosts, todo, dnsCache, lines, log>>
        /\ NoFault \/ Fault \/ Event
    BY <2>1 DEF SaveCursor, StreamEnd, work
  <2>4. \A u \in Tails \ Journalled : cursor'[u] = 0
    BY <1>1, <2>2 DEF setCursor, TailsOK, Journals
  <2>5. Journals'
    BY <1>1, <2>3, <2>4 DEF Journals, Event, Fault, NoFault
  <2> QED BY <1>2, <2>3, <2>5
<1>9. CASE \E r \in Actors : Work(r)
  <2>1. PICK r \in Actors : Work(r)
    BY <1>9
  <2>2. /\ UNCHANGED <<hosts, dnsCache, lines, cursor, muted, allowed>>
        /\ NoFault \/ Fault \/ events' = events
    BY <2>1 DEF Work, Query, QueryFails, Swap, DeviceIPByMAC, DeleteRow,
       WipeForDevice, tailing, counts, tables
  <2>3. \/ UNCHANGED todo
        \/ todo[r] # <<>> /\ Drop(r)
        \/ todo' = [todo EXCEPT ![r] = <<>>]
    BY <2>1 DEF Work, Query, QueryFails, Swap, DeviceIPByMAC, DeleteRow,
       WipeForDevice, At
  <2>4. todo' \in [Actors -> Seq(Jobs)]
    <3>1. <<>> \in Seq(Jobs)
      BY JobLists
    <3> QED BY <1>1, <2>3, <3>1, DropType DEF Tables
  <2>5. ip' \in [Devices -> IPs \cup {NoIP}] /\ ignored' \subseteq Devices
    <3>1. \/ UNCHANGED <<ip, ignored>>
          \/ \E m : ip' = [ip EXCEPT ![m] = NoIP] /\ ignored' = ignored \ {m}
      BY <2>1 DEF Work, Query, QueryFails, Swap, DeviceIPByMAC, DeleteRow,
         WipeForDevice, tables
    <3> QED BY <1>1, <3>1 DEF Tables
  <2>6. log' \in Seq(Rows \cup {Nothing})
    <3>1. UNCHANGED log \/ \E ids : Keep(ids)
      BY <2>1 DEF Work, Query, QueryFails, Swap, DeviceIPByMAC, DeleteRow, WipeForDevice
    <3> QED BY <1>1, <3>1, KeepType
  <2>7. Tables'
    BY <1>1, <2>2, <2>4, <2>5 DEF Tables, hosts
  <2> QED BY <1>1, <2>2, <2>6, <2>7, JournalsElsewhere
<1>10. CASE refreshCachesLoop
  <2>1. UNCHANGED <<tables, hosts, dnsCache, lines, cursor, log, events>>
    BY <1>10 DEF refreshCachesLoop, tailing, counts
  <2>2. todo' \in [Actors -> Seq(Jobs)]
    <3>1. Refresh \in Seq(Jobs)
      BY JobLists
    <3> QED BY <1>1, <1>10, <3>1 DEF refreshCachesLoop, Tables
  <2>3. Tables'
    BY <1>1, <2>1, <2>2 DEF Tables, tables, hosts
  <2> QED BY <1>1, <2>1, <2>3, JournalsElsewhere
<1>11. CASE Request
  <2>1. /\ UNCHANGED <<ip, hosts, dnsCache, lines, cursor>> /\ Event
        /\ log' = log \/ log' = <<>>
    BY <1>11 DEF Request, UpdateDevice, DeleteDevice, AddMuted, RemoveMuted,
       SwitchDomain, Clear, Serve, tailing, tables
  <2>2. ignored' \subseteq Devices
    BY <1>1, <1>11 DEF Request, UpdateDevice, DeleteDevice, AddMuted, RemoveMuted,
       SwitchDomain, Clear, tables, Tables
  <2>3. muted' \subseteq Names /\ allowed' \subseteq Names
    BY <1>1, <1>11, TrafficLogAssumption DEF Request, UpdateDevice, DeleteDevice,
       AddMuted, RemoveMuted, SwitchDomain, Clear, tables, Tables
  <2>4. PICK jobs : /\ jobs \in {<<"lookup", "wipe", "ignore">>, <<"ignore">>,
                                 <<"delete", "wipe">>, <<"mute">>, <<>>}
                    /\ todo' = [todo EXCEPT ![came'] = jobs]
    BY <1>11 DEF Request, UpdateDevice, DeleteDevice, AddMuted, RemoveMuted,
       SwitchDomain, Clear, Serve
  <2>5. jobs \in Seq(Jobs)
    BY <2>4, JobLists
  <2>6. todo' \in [Actors -> Seq(Jobs)]
    BY <1>1, <2>4, <2>5 DEF Tables
  <2>7. Tables'
    BY <1>1, <2>1, <2>2, <2>3, <2>6 DEF Tables, hosts
  <2>8. log' \in Seq(Rows \cup {Nothing})
    BY <1>1, <2>1, EmptyLog
  <2> QED BY <1>1, <2>1, <2>7, <2>8, JournalsElsewhere
<1>12. CASE cleanOldEntries
  <2>1. /\ UNCHANGED <<tables, hosts, todo, dnsCache, lines, cursor, events>>
        /\ \E ids : Keep(ids)
    BY <1>12 DEF cleanOldEntries, work, tailing, counts
  <2>2. log' \in Seq(Rows \cup {Nothing})
    BY <1>1, <2>1, KeepType
  <2> QED BY <1>1, <1>2, <2>1, <2>2, JournalsElsewhere
<1>13. CASE \/ \E m \in Devices, a \in IPs : Lease(m, a)
            \/ \E l \in leases : Expire(l)
            \/ \E a \in IPs : Neighbour(a)
  <2>1. /\ UNCHANGED <<tables, found, todo, dnsCache, lines, cursor, log>> /\ Event
    BY <1>13 DEF Lease, Expire, Neighbour, work, tailing
  <2>2. Tables'
    BY <1>1, <2>1 DEF Tables, tables
  <2> QED BY <1>1, <2>1, <2>2, JournalsElsewhere
<1>14. CASE scan
  <2>1. /\ UNCHANGED <<tables, todo, dnsCache, lines, cursor, log>> /\ Event
    BY <1>14 DEF scan, work, tailing
  <2>2. found' \in [Devices -> IPs \cup {NoIP}]
    BY <1>14 DEF scan, mergeARP
  <2>3. Tables'
    BY <1>1, <2>1, <2>2 DEF Tables, tables
  <2> QED BY <1>1, <2>1, <2>3, JournalsElsewhere
<1>15. CASE \E m \in Devices : upsertDevice(m)
  <2>1. /\ UNCHANGED <<ignored, muted, allowed, todo, dnsCache, lines, cursor, log>>
        /\ NoFault \/ Fault
    BY <1>15 DEF upsertDevice, work, tailing
  <2>2. /\ ip' \in [Devices -> IPs \cup {NoIP}]
        /\ found' \in [Devices -> IPs \cup {NoIP}]
    BY <1>1, <1>15 DEF upsertDevice, Tables
  <2>3. Tables'
    BY <1>1, <2>1, <2>2 DEF Tables
  <2> QED BY <1>1, <2>1, <2>3, JournalsElsewhere
<1>16. CASE Crash \/ Reboot
  <2>1. /\ UNCHANGED <<tables, lines, cursor, log>> /\ Event
        /\ dnsCache' = {} /\ found' = [m \in Devices |-> NoIP]
    BY <1>16 DEF Crash, Reboot, Restart
  <2>2. todo' \in [Actors -> Seq(Jobs)]
    <3>1. Refresh \in Seq(Jobs) /\ <<>> \in Seq(Jobs)
      BY JobLists
    <3> QED BY <1>16, <3>1 DEF Crash, Reboot, Restart
  <2>3. Tables'
    BY <1>1, <2>1, <2>2 DEF Tables, tables
  <2> QED BY <1>1, <2>1, <2>3, JournalsElsewhere
<1>17. CASE UNCHANGED vars
  <2>1. UNCHANGED <<tables, hosts, todo, dnsCache, lines, cursor, log, events>>
    BY <1>17 DEF vars, work, tailing, counts
  <2> QED BY <1>1, <1>2, <2>1, JournalsElsewhere
<1>18. ASSUME NEW t \in Tails PROVE t \in Writers
  BY DEF Writers
<1>19. "sni" \in Writers
  BY DEF Writers
<1> QED BY <1>3, <1>4, <1>5, <1>6, <1>7, <1>8, <1>9, <1>10, <1>11, <1>12, <1>13,
           <1>14, <1>15, <1>16, <1>17, <1>18, <1>19 DEF Next, Follow

\* The strengthening of the types with the tails' invariant is inductive.
LEMMA TypesInvariant == Spec => []TInv
<1>1. Init => TInv
  BY InitIInv, JournalsInit DEF TInv
<1>2. TInv /\ [Next]_vars => TInv'
  BY NextIInv, JournalsNext DEF TInv
<1> QED BY <1>1, <1>2, PTL DEF Spec

\* Tables, log, caches, cursors and jobs keep their types; a cursor never
\* passes the end of its stream.
THEOREM TypeCorrect == Spec => []TypeOK
<1>1. TInv => TypeOK
  <2> SUFFICES ASSUME TInv PROVE TypeOK
    OBVIOUS
  <2>1. IInv /\ Tables /\ Journals /\ TailsOK
    BY DEF TInv, IInv
  <2>2. ASSUME NEW t \in Tails
        PROVE  /\ lines[t] \in Seq(LineSpace) /\ done[t] \in Seq(Nat)
               /\ Len(done[t]) = Len(lines[t])
               /\ tail[t].last <= tail[t].pos /\ tail[t].pos <= Len(lines[t])
               /\ cursor[t] <= Len(lines[t]) /\ missed[t] \subseteq 1 .. Len(lines[t])
    <3>1. /\ lines[t] \in Seq(LineSpace) /\ done[t] \in Seq(Nat) /\ Reader(t)
          /\ Len(lines[t]) \in Nat /\ tail[t].pos \in Nat /\ cursor[t] \in Nat
      BY <2>1, TailFacts
    <3>2. cursor[t] = 0 \/ cursor[t] <= Len(lines[t])
      BY <2>1, <3>1 DEF Reader, Journals
    <3> QED BY <3>1, <3>2 DEF Reader
  <2> QED BY <2>1, <2>2 DEF TypeOK, Tables, Journals, TailsOK
<1> QED BY <1>1, TypesInvariant, PTL

-----------------------------------------------------------------------------
(* The scanner's reading of the lease file.                                *)

LeaseTable == leases \subseteq LeaseLine /\ IsFiniteSet(leases)

\* The lease file lists each lease once, in some order.
LEMMA FileOfTable ==
    ASSUME LeaseTable, NEW file \in SetToSeqs(leases)
    PROVE  \E n \in Nat : /\ file \in [1 .. n -> leases]
                          /\ \A l \in leases : \E i \in 1 .. n : file[i] = l
<1> DEFINE n == Cardinality(leases)
<1>1. n \in Nat
  BY FS_CardinalityType DEF LeaseTable
<1>2. file \in [1 .. n -> leases] /\ \A i, j \in 1 .. n : i # j => file[i] # file[j]
  BY DEF SetToSeqs
<1> HIDE DEF n
<1>3. file \in Injection(1 .. n, leases)
  BY <1>2 DEF Injection, IsInjective
<1>4. IsFiniteSet(1 .. n) /\ Cardinality(1 .. n) = n
  BY <1>1, FS_Interval
<1>5. n = Cardinality(leases)
  BY DEF n
<1>6. file \in Surjection(1 .. n, leases)
  BY <1>3, <1>4, <1>5, FS_Injection DEF LeaseTable
<1>7. \A l \in leases : \E i \in 1 .. n : file[i] = l
  BY <1>6 DEF Surjection
<1> QED BY <1>1, <1>2, <1>7

\* dnsmasq changes its table a lease at a time.
LEMMA LeaseTableNext == TInv /\ LeaseTable /\ [Next]_vars => LeaseTable'
<1> SUFFICES ASSUME TInv, LeaseTable, [Next]_vars PROVE LeaseTable'
  OBVIOUS
<1>1. ASSUME UNCHANGED leases PROVE LeaseTable'
  BY <1>1 DEF LeaseTable
<1>2. ASSUME NEW m \in Devices, NEW a \in IPs, Lease(m, a) PROVE LeaseTable'
  <2>1. PICK x \in {events, events + 1} :
          leases' = {l \in leases : l.ip # a} \cup {[expiry |-> x, mac |-> m, ip |-> a]}
    BY <1>2 DEF Lease
  <2>2. x \in Nat
    BY DEF TInv, Journals
  <2> DEFINE l == [expiry |-> x, mac |-> m, ip |-> a]
             kept == {k \in leases : k.ip # a}
  <2>3. l \in LeaseLine
    BY <2>2 DEF LeaseLine
  <2>4. IsFiniteSet(kept)
    BY FS_Subset DEF LeaseTable
  <2>5. IsFiniteSet(kept \cup {l})
    <3> HIDE DEF kept, l
    <3> QED BY <2>4, FS_AddElement
  <2>6. leases' = kept \cup {l} /\ kept \subseteq leases
    BY <2>1
  <2> HIDE DEF kept, l
  <2> QED BY <2>3, <2>5, <2>6 DEF LeaseTable
<1>3. ASSUME NEW l \in leases, Expire(l) PROVE LeaseTable'
  <2>1. leases' = leases \ {l}
    BY <1>3 DEF Expire
  <2>2. IsFiniteSet(leases \ {l})
    BY FS_Subset DEF LeaseTable
  <2> QED BY <2>1, <2>2 DEF LeaseTable
<1>4. CASE \E l \in Lines : Write(l) \/ LogSNIEvent(l)
  BY <1>1, <1>4 DEF Write, LogSNIEvent, hosts
<1>5. CASE \E t \in Tails : Age(t) \/ Follow(t) \/ SaveCursor(t) \/ StreamEnd(t)
  BY <1>1, <1>5 DEF Age, Follow, Open, ReadLine, insertEntry, SaveCursor, StreamEnd,
     hosts
<1>6. CASE insertEntry("sni") \/ \E r \in Actors : Work(r)
  BY <1>1, <1>6 DEF insertEntry, Work, Query, QueryFails, Swap, DeviceIPByMAC,
     DeleteRow, WipeForDevice, hosts
<1>7. CASE refreshCachesLoop \/ Request \/ cleanOldEntries
  BY <1>1, <1>7 DEF refreshCachesLoop, cleanOldEntries, Request, UpdateDevice,
     DeleteDevice, AddMuted, RemoveMuted, SwitchDomain, Clear, Serve, hosts
<1>8. CASE \/ \E a \in IPs : Neighbour(a)
           \/ scan \/ Crash \/ Reboot
           \/ \E m \in Devices : upsertDevice(m)
  BY <1>1, <1>8 DEF Neighbour, scan, Crash, Reboot, Restart, upsertDevice
<1>9. CASE UNCHANGED vars
  BY <1>1, <1>9 DEF vars, hosts
<1> QED BY <1>2, <1>3, <1>4, <1>5, <1>6, <1>7, <1>8, <1>9 DEF Next

\* In whatever order dnsmasq has written the file, the scanner gives a device
\* the address of a lease that no other lease of the device outlives
\* (mergeLeases, network.go).
THEOREM NewestLeaseWins == Spec => []NewestLease
<1>1. Init => LeaseTable
  BY TrafficLogAssumption DEF Init, LeaseTable, LeaseLine
<1>2. LeaseTable => NewestLease
  <2> SUFFICES ASSUME LeaseTable, NEW file \in SetToSeqs(leases), NEW m \in Devices
               PROVE  LET mine == {l \in leases : l.mac = m}
                          best == mergeLeases(file)[m]
                      IN  IF mine = {} THEN best.ip = NoIP
                          ELSE \E l \in mine : /\ l.ip = best.ip
                                               /\ \A k \in mine : k.expiry <= l.expiry
    BY DEF NewestLease
  <2> DEFINE mine == {l \in leases : l.mac = m}
             best == mergeLeases(file)[m]
  <2>1. PICK n \in Nat : /\ file \in [1 .. n -> leases]
                         /\ \A l \in leases : \E i \in 1 .. n : file[i] = l
    BY FileOfTable
  <2>2. file \in [1 .. n -> LeaseLine]
    BY <2>1 DEF LeaseTable
  <2>3. Best(file, n, mergeLeases(file))
    BY <2>2, MergeKeepsNewest
  <2>4. ASSUME best = Unseen, \A i \in 1 .. n : file[i].mac # m
        PROVE  mine = {} /\ best.ip = NoIP
    <3>1. mine = {}
      BY <2>1, <2>4
    <3>2. best.ip = NoIP
      BY <2>4 DEF Unseen
    <3> QED BY <3>1, <3>2
  <2>5. ASSUME NEW i \in 1 .. n, file[i].mac = m,
               best = [expiry |-> file[i].expiry, ip |-> file[i].ip],
               \A j \in 1 .. n : file[j].mac = m => file[j].expiry <= file[i].expiry
        PROVE  mine # {} /\ \E l \in mine : /\ l.ip = best.ip
                                            /\ \A k \in mine : k.expiry <= l.expiry
    <3>1. file[i] \in mine
      BY <2>1, <2>5
    <3>2. best.ip = file[i].ip
      BY <2>5
    <3>3. ASSUME NEW k \in mine PROVE k.expiry <= file[i].expiry
      BY <2>1, <2>5
    <3> HIDE DEF mine, best
    <3> QED BY <3>1, <3>2, <3>3
  <2>6. \/ best = Unseen /\ \A i \in 1 .. n : file[i].mac # m
        \/ \E i \in 1 .. n :
             /\ file[i].mac = m
             /\ best = [expiry |-> file[i].expiry, ip |-> file[i].ip]
             /\ \A j \in 1 .. n : file[j].mac = m => file[j].expiry <= file[i].expiry
    BY <2>3 DEF Best
  <2> HIDE DEF mine, best
  <2>7. IF mine = {} THEN best.ip = NoIP
        ELSE \E l \in mine : l.ip = best.ip /\ \A k \in mine : k.expiry <= l.expiry
    BY <2>4, <2>5, <2>6
  <2> QED BY <2>7 DEF mine, best
<1> QED BY <1>1, <1>2, TypesInvariant, LeaseTableNext, PTL DEF Spec

-----------------------------------------------------------------------------
(* The pages of the log.                                                   *)

\* How many members of M come before i when the largest comes first.
Rank(M, i) == Cardinality({j \in M : j > i})

\* Ranks number the members of a finite set from 0, largest first.
LEMMA Ranks ==
    ASSUME NEW M, M \subseteq Nat, IsFiniteSet(M)
    PROVE  /\ Cardinality(M) \in Nat
           /\ \A i \in M : Rank(M, i) \in 0 .. Cardinality(M) - 1
           /\ \A i, j \in M : i > j => Rank(M, i) < Rank(M, j)
           /\ \A k \in 0 .. Cardinality(M) - 1 : \E i \in M : Rank(M, i) = k
<1> DEFINE n == Cardinality(M)
           Above(i) == {j \in M : j > i}
<1>1. n \in Nat
  BY FS_CardinalityType
<1>2. ASSUME NEW i \in M
      PROVE  IsFiniteSet(Above(i)) /\ Rank(M, i) \in Nat /\ Rank(M, i) \in 0 .. n - 1
  <2>1. Above(i) \subseteq M \ {i}
    OBVIOUS
  <2>2. IsFiniteSet(M \ {i}) /\ Cardinality(M \ {i}) = n - 1
    BY FS_RemoveElement
  <2> HIDE DEF Above, n
  <2>3. /\ IsFiniteSet(Above(i)) /\ Cardinality(Above(i)) <= n - 1
        /\ Cardinality(Above(i)) \in Nat
    BY <2>1, <2>2, FS_Subset, FS_CardinalityType
  <2>4. Rank(M, i) = Cardinality(Above(i))
    BY DEF Rank, Above
  <2> QED BY <1>1, <2>3, <2>4
<1>3. ASSUME NEW i \in M, NEW j \in M, i > j PROVE Rank(M, i) < Rank(M, j)
  <2>1. Above(i) \cup {i} \subseteq Above(j) /\ i \notin Above(i)
    <3>1. ASSUME NEW k \in M, k > i PROVE k > j
      <4>1. i \in Nat /\ j \in Nat /\ k \in Nat
        OBVIOUS
      <4> QED BY <1>3, <3>1, <4>1
    <3>2. ~(i > i)
      OBVIOUS
    <3> QED BY <1>3, <3>1, <3>2
  <2>2. IsFiniteSet(Above(i)) /\ IsFiniteSet(Above(j))
    BY <1>2
  <2>3. Rank(M, i) = Cardinality(Above(i)) /\ Rank(M, j) = Cardinality(Above(j))
    BY DEF Rank
  <2>4. Rank(M, i) \in Nat /\ Rank(M, j) \in Nat
    BY <1>2
  <2> HIDE DEF Above
  <2>5. Cardinality(Above(i) \cup {i}) = Cardinality(Above(i)) + 1
    BY <2>1, <2>2, FS_AddElement
  <2>6. Cardinality(Above(i) \cup {i}) <= Cardinality(Above(j))
    BY <2>1, <2>2, FS_Subset
  <2> QED BY <2>3, <2>4, <2>5, <2>6
<1> DEFINE r == [i \in M |-> Rank(M, i)]
<1>4. r \in Injection(M, 0 .. n - 1)
  <2>1. r \in [M -> 0 .. n - 1]
    BY <1>2
  <2>2. ASSUME NEW i \in M, NEW j \in M, i # j PROVE r[i] # r[j]
    <3>1. i > j \/ j > i
      <4>1. i \in Nat /\ j \in Nat
        OBVIOUS
      <4> QED BY <2>2, <4>1
    <3>2. Rank(M, i) \in Nat /\ Rank(M, j) \in Nat
      BY <1>2
    <3> QED BY <1>3, <3>1, <3>2
  <2> HIDE DEF r
  <2> QED BY <2>1, <2>2 DEF Injection, IsInjective
<1>5. IsFiniteSet(0 .. n - 1) /\ Cardinality(0 .. n - 1) = n
  <2> HIDE DEF n
  <2>1. 0 \in Int /\ n - 1 \in Int /\ (0 > n - 1 <=> n = 0) /\ n - 1 - 0 + 1 = n
    BY <1>1
  <2> QED BY <2>1, FS_Interval
<1>6. r \in Surjection(M, 0 .. n - 1)
  <2> HIDE DEF r
  <2> QED BY <1>4, <1>5, FS_Injection
<1>7. \A k \in 0 .. n - 1 : \E i \in M : Rank(M, i) = k
  BY <1>6 DEF Surjection
<1> HIDE DEF n
<1>8. n = Cardinality(M)
  BY DEF n
<1> QED BY <1>1, <1>2, <1>3, <1>7, <1>8

\* As many members have a rank in an interval as it has numbers.
LEMMA Slices ==
    ASSUME NEW M, M \subseteq Nat, IsFiniteSet(M),
           NEW a \in Nat, NEW per \in Nat, a + per <= Cardinality(M)
    PROVE  Cardinality({i \in M : Rank(M, i) \in a .. a + per - 1}) = per
<1> DEFINE T == a .. a + per - 1
           S == {i \in M : Rank(M, i) \in T}
           r == [i \in S |-> Rank(M, i)]
<1>1. IsFiniteSet(T) /\ Cardinality(T) = per
  BY FS_Interval
<1>2. r \in [S -> T]
  OBVIOUS
<1>3. ASSUME NEW i \in S, NEW j \in S, i # j PROVE r[i] # r[j]
  <2>1. i > j \/ j > i
    <3>1. i \in Nat /\ j \in Nat
      OBVIOUS
    <3> QED BY <1>3, <3>1
  <2>2. Rank(M, i) \in Int /\ Rank(M, j) \in Int
    OBVIOUS
  <2>3. i \in M /\ j \in M /\ r[i] = Rank(M, i) /\ r[j] = Rank(M, j)
    OBVIOUS
  <2> HIDE DEF S, T, r
  <2>4. Rank(M, i) < Rank(M, j) \/ Rank(M, j) < Rank(M, i)
    BY <2>1, <2>3, Ranks
  <2> QED BY <2>2, <2>3, <2>4
<1>4. ASSUME NEW k \in T PROVE \E i \in S : r[i] = k
  <2>1. Cardinality(M) \in Nat
    BY Ranks
  <2>2. k \in 0 .. Cardinality(M) - 1
    BY <2>1
  <2>3. PICK i \in M : Rank(M, i) = k
    BY <2>2, Ranks
  <2> QED BY <2>3
<1> HIDE DEF T, S, r
<1>5. r \in Bijection(S, T)
  BY <1>2, <1>3, <1>4 DEF Bijection, Injection, Surjection, IsInjective
<1>6. IsFiniteSet(S) /\ Cardinality(S) = Cardinality(T)
  <2>1. r \in Injection(S, T) /\ r \in Surjection(S, T)
    BY <1>5 DEF Bijection
  <2> QED BY <1>1, <2>1, FS_Injection
<1> QED BY <1>1, <1>6 DEF S, T

\* (n + per - 1) / per is the number of pages n rows fill or begin.
LEMMA PageCount ==
    ASSUME NEW n \in Nat, NEW per \in Nat \ {0}
    PROVE  LET q == (n + per - 1) \div per
           IN  q \in Nat /\ n <= q * per /\ (q = 0 \/ (q - 1) * per + 1 <= n)
<1> DEFINE q == (n + per - 1) \div per
<1>1. q \in Int /\ per * q <= n + per - 1 /\ n + per - 1 < per * q + per
  OBVIOUS
<1> QED BY <1>1

\* Every rank is on some page.
LEMMA PageOf ==
    ASSUME NEW per \in Nat \ {0}, NEW k \in Nat
    PROVE  \E p \in Nat : p * per <= k /\ k < p * per + per
<1>1. k \div per \in Nat /\ (k \div per) * per <= k /\ k < (k \div per) * per + per
  OBVIOUS
<1> QED BY <1>1

\* Pages follow one another.
LEMMA Products ==
    ASSUME NEW per \in Nat, NEW p \in Int, NEW q \in Int, p < q
    PROVE  p * per \in Int /\ q * per \in Int /\ p * per + per <= q * per
OBVIOUS

\* The larger and the smaller of two numbers.
LEMMA OfTwo ==
    ASSUME NEW a \in Int, NEW b \in Int
    PROVE  /\ Max({a, b}) = IF a >= b THEN a ELSE b
           /\ Min({a, b}) = IF a <= b THEN a ELSE b
BY DEF Max, Min

\* The members of M on page p.
Part(M, p, per) ==
    {i \in M : Rank(M, i) \in Offset(p, per) .. Offset(p, per) + per - 1}

\* The pages cover M, go from the largest id down and are full, save the
\* last.
Covers(On, pages, M, per) ==
    /\ UNION {On[p] : p \in 1 .. pages} = M
    /\ \A p, q \in 1 .. pages : p < q => \A i \in On[p], j \in On[q] : i > j
    /\ \A p \in 1 .. pages - 1 : Cardinality(On[p]) = per

PageTotal(M, per) == Max({(Cardinality(M) + per - 1) \div per, 1})

\* Pages of per rows over the rows M, numbered from 1, do.
LEMMA PagesOf ==
    ASSUME NEW M, M \subseteq Nat, IsFiniteSet(M), NEW per \in Nat \ {0},
           NEW pages, pages = PageTotal(M, per),
           NEW On, \A p \in 1 .. pages : On[p] = Part(M, p, per)
    PROVE  Covers(On, pages, M, per)
<1> DEFINE n == Cardinality(M)
           q == (n + per - 1) \div per
<1>1. n \in Nat /\ \A i \in M : Rank(M, i) \in 0 .. n - 1
  BY Ranks
<1>2. q \in Nat /\ n <= q * per /\ (q = 0 \/ (q - 1) * per + 1 <= n)
  <2> HIDE DEF n
  <2> QED BY <1>1, PageCount
<1>3. pages = IF q >= 1 THEN q ELSE 1
  <2>1. pages = Max({q, 1}) /\ 1 \in Int /\ q \in Int
    BY <1>2 DEF PageTotal
  <2> HIDE DEF q
  <2> QED BY <2>1, OfTwo
<1> HIDE DEF n, q
<1>4. /\ pages \in Nat /\ pages >= 1 /\ n <= pages * per
      /\ pages > 1 => (pages - 1) * per + 1 <= n
  <2>1. CASE q >= 1
    BY <1>1, <1>2, <1>3, <2>1
  <2>2. CASE q = 0
    <3>1. n <= 0 * per /\ 0 * per = 0
      BY <1>2, <2>2
    <3> QED BY <1>1, <1>3, <2>2, <3>1
  <2> QED BY <1>2, <2>1, <2>2
<1>5. ASSUME NEW p \in 1 .. pages
      PROVE  /\ Offset(p, per) = (p - 1) * per /\ (p - 1) * per \in Nat
             /\ On[p] = {i \in M : /\ (p - 1) * per <= Rank(M, i)
                                   /\ Rank(M, i) < (p - 1) * per + per}
  <2>1. Offset(p, per) = (p - 1) * per
    BY DEF Offset
  <2>2. (p - 1) * per \in Nat
    BY <1>4
  <2>3. ASSUME NEW i \in M
        PROVE  Rank(M, i) \in (p - 1) * per .. (p - 1) * per + per - 1
                 <=> (p - 1) * per <= Rank(M, i) /\ Rank(M, i) < (p - 1) * per + per
    <3>1. Rank(M, i) \in Int
      BY <1>1
    <3> QED BY <2>2, <3>1
  <2> QED BY <2>1, <2>2, <2>3 DEF Part
<1>6. ASSUME NEW i \in M PROVE \E p \in 1 .. pages : i \in On[p]
  <2>1. Rank(M, i) \in Nat /\ Rank(M, i) < n
    BY <1>1
  <2>2. PICK k \in Nat : k * per <= Rank(M, i) /\ Rank(M, i) < k * per + per
    BY <2>1, PageOf
  <2>3. k < pages
    <3> SUFFICES ASSUME pages <= k PROVE FALSE
      BY <1>4
    <3>1. pages * per <= k * per
      BY <1>4
    <3>2. pages * per \in Int /\ k * per \in Int
      BY <1>4
    <3> QED BY <1>1, <1>4, <2>1, <2>2, <3>1, <3>2
  <2>4. k + 1 \in 1 .. pages /\ (k + 1) - 1 = k
    BY <1>4, <2>3
  <2>5. i \in On[k + 1]
    BY <1>5, <2>2, <2>4
  <2> QED BY <2>4, <2>5
<1>7. UNION {On[p] : p \in 1 .. pages} = M
  <2>1. \A p \in 1 .. pages : On[p] \subseteq M
    BY <1>5
  <2> QED BY <1>6, <2>1
<1>8. ASSUME NEW p \in 1 .. pages, NEW r \in 1 .. pages, p < r,
             NEW i \in On[p], NEW j \in On[r]
      PROVE  i > j
  <2>1. i \in M /\ j \in M /\ i \in Nat /\ j \in Nat
    BY <1>5
  <2>2. /\ Rank(M, i) < (p - 1) * per + per /\ (r - 1) * per <= Rank(M, j)
        /\ Rank(M, i) \in Int /\ Rank(M, j) \in Int
    <3>1. Rank(M, i) \in Int /\ Rank(M, j) \in Int
      BY <1>1, <2>1
    <3>2. Rank(M, i) < (p - 1) * per + per
      BY <1>5
    <3>3. (r - 1) * per <= Rank(M, j)
      BY <1>5
    <3> QED BY <3>1, <3>2, <3>3
  <2>3. /\ (p - 1) * per \in Int /\ (r - 1) * per \in Int
        /\ (p - 1) * per + per <= (r - 1) * per
    <3>1. p - 1 \in Int /\ r - 1 \in Int /\ p - 1 < r - 1
      BY <1>8
    <3> QED BY <3>1, Products
  <2>4. Rank(M, i) < Rank(M, j)
    BY <2>2, <2>3
  <2>5. ~(j > i) /\ i # j
    <3>1. ASSUME j > i PROVE Rank(M, j) < Rank(M, i)
      BY <2>1, <3>1, Ranks
    <3> QED BY <2>2, <2>4, <3>1
  <2> QED BY <2>1, <2>5
<1>9. ASSUME NEW p \in 1 .. pages - 1 PROVE Cardinality(On[p]) = per
  <2>1. /\ p \in 1 .. pages /\ pages > 1 /\ p - 1 \in Int /\ pages - 1 \in Int
        /\ p - 1 < pages - 1
    BY <1>4
  <2>2. /\ (p - 1) * per + per <= (pages - 1) * per
        /\ (p - 1) * per \in Int /\ (pages - 1) * per \in Int
    BY <2>1, Products
  <2>3. (p - 1) * per \in Nat /\ (p - 1) * per + per <= n
    BY <1>1, <1>4, <1>5, <2>1, <2>2
  <2>4. On[p] = {i \in M : Rank(M, i) \in Offset(p, per) .. Offset(p, per) + per - 1}
    BY <2>1 DEF Part
  <2>5. Offset(p, per) \in Nat /\ Offset(p, per) + per <= Cardinality(M)
    BY <1>5, <2>1, <2>3 DEF n
  <2> QED BY <2>4, <2>5, Slices
<1> QED BY <1>7, <1>8, <1>9 DEF Covers

\* Walking the pages of the traffic view shows every matching row once,
\* newest first, and a page past the end is the last (QueryPaginated,
\* trafficlog.go).
THEOREM PagesShowAll == Spec => []PagesCover
<1>1. TInv => PagesCover
  <2> SUFFICES ASSUME TInv, NEW action \in {"all", "blocked"}, NEW size \in PageSizes
               PROVE  LET PageAt(p) == QueryPaginated(action, p, size)
                          pages == PageAt(1).pages
                      IN  /\ UNION {PageAt(p).entries : p \in 1 .. pages}
                               = {i \in Stored : Selected(log[i], action)}
                          /\ \A p, q \in 1 .. pages : p < q =>
                               \A i \in PageAt(p).entries, j \in PageAt(q).entries : i > j
                          /\ \A p \in 1 .. pages - 1 :
                               Cardinality(PageAt(p).entries) = PageAt(p).perPage
                          /\ PageAt(pages + 1) = PageAt(pages)
    BY DEF PagesCover
  <2> DEFINE M == {i \in Stored : Selected(log[i], action)}
             per == IF size \in 1 .. 500 THEN size ELSE 50
             pages == PageTotal(M, per)
             Shown(p) == Min({Max({p, 1}), pages})
             PageAt(p) == QueryPaginated(action, p, size)
             On == [p \in 1 .. pages |-> PageAt(p).entries]
  <2>1. log \in Seq(Rows \cup {Nothing}) /\ DOMAIN log = 1 .. Len(log) /\ Len(log) \in Nat
    BY DEF TInv, Journals
  <2>2. M \subseteq Nat /\ IsFiniteSet(M)
    <3>1. M \subseteq 1 .. Len(log)
      BY <2>1 DEF Stored
    <3>2. IsFiniteSet(1 .. Len(log))
      BY <2>1, FS_Interval
    <3> HIDE DEF M
    <3>3. IsFiniteSet(M)
      BY <3>1, <3>2, FS_Subset
    <3> QED BY <2>1, <3>1, <3>3
  <2>3. per \in Nat \ {0}
    OBVIOUS
  <2>4. \A p : PageAt(p) = [entries |-> Part(M, Shown(p), per), pages |-> pages,
                            page |-> Shown(p), perPage |-> per]
    BY DEF QueryPaginated, Rank, Part, PageTotal
  <2> HIDE DEF M, per, PageAt
  <2>5. Cardinality(M) \in Nat
    BY <2>2, Ranks
  <2>6. pages \in Nat /\ pages >= 1
    <3>1. (Cardinality(M) + per - 1) \div per \in Nat
      BY <2>3, <2>5, PageCount
    <3> QED BY <3>1, OfTwo DEF PageTotal
  <2> HIDE DEF pages
  <2>7. ASSUME NEW p \in 1 .. pages PROVE Shown(p) = p
    <3>1. p \in Int /\ p >= 1 /\ p <= pages
      BY <2>6
    <3>2. Max({p, 1}) = p
      BY <3>1, OfTwo
    <3> QED BY <2>6, <3>1, <3>2, OfTwo
  <2>8. Shown(pages + 1) = pages /\ Shown(pages) = pages
    <3>1. pages \in 1 .. pages
      BY <2>6
    <3>2. Max({pages + 1, 1}) = pages + 1
      <4>1. pages + 1 \in Int /\ pages + 1 >= 1
        BY <2>6
      <4> QED BY <4>1, OfTwo
    <3>3. Min({pages + 1, pages}) = pages
      <4>1. pages + 1 \in Int /\ pages \in Int /\ ~(pages + 1 <= pages)
        BY <2>6
      <4> QED BY <4>1, OfTwo
    <3>4. Shown(pages + 1) = Min({pages + 1, pages})
      BY <3>2
    <3>5. Shown(pages) = pages
      BY <2>7, <3>1
    <3> HIDE DEF Shown
    <3> QED BY <3>3, <3>4, <3>5
  <2> HIDE DEF Shown
  <2>9. /\ \A p : PageAt(p).pages = pages /\ PageAt(p).perPage = per
        /\ \A p \in 1 .. pages : On[p] = Part(M, p, per) /\ On[p] = PageAt(p).entries
        /\ PageAt(pages + 1) = PageAt(pages)
    BY <2>4, <2>7, <2>8
  <2> HIDE DEF On
  <2>10. /\ UNION {On[p] : p \in 1 .. pages} = M
         /\ \A p, q \in 1 .. pages : p < q => \A i \in On[p], j \in On[q] : i > j
         /\ \A p \in 1 .. pages - 1 : Cardinality(On[p]) = per
    <3>1. pages = PageTotal(M, per)
      BY DEF pages
    <3>2. \A p \in 1 .. pages : On[p] = Part(M, p, per)
      BY <2>9
    <3>3. Covers(On, pages, M, per)
      BY <2>2, <2>3, <3>1, <3>2, PagesOf
    <3> QED BY <3>3 DEF Covers
  <2>11. UNION {PageAt(p).entries : p \in 1 .. PageAt(1).pages} = M
    <3>1. {PageAt(p).entries : p \in 1 .. PageAt(1).pages} = {On[p] : p \in 1 .. pages}
      BY <2>9
    <3> QED BY <2>10, <3>1
  <2>12. \A p, q \in 1 .. PageAt(1).pages : p < q =>
           \A i \in PageAt(p).entries, j \in PageAt(q).entries : i > j
    BY <2>9, <2>10
  <2>13. \A p \in 1 .. PageAt(1).pages - 1 :
           Cardinality(PageAt(p).entries) = PageAt(p).perPage
    <3>1. ASSUME NEW p \in 1 .. pages - 1 PROVE p \in 1 .. pages
      BY <2>6
    <3> QED BY <2>9, <2>10, <3>1
  <2>14. PageAt(PageAt(1).pages + 1) = PageAt(PageAt(1).pages)
    BY <2>9
  <2> QED BY <2>11, <2>12, <2>13, <2>14 DEF M, PageAt
<1> QED BY <1>1, TypesInvariant, PTL
=============================================================================
