-------------------------- MODULE SessionPumpProofs --------------------------
(***************************************************************************)
(* Proofs about SessionPump: no send and no close ever hits a closed       *)
(* channel, every frame has one destination, a reply goes to its own call  *)
(* and nobody is left waiting, for any number of calls, subscribers and    *)
(* frames and any capacity of the channels.                                *)
(***************************************************************************)
EXTENDS SessionPump, SequenceTheorems, WellFoundedInduction, TLAPS

-----------------------------------------------------------------------------
(* The inductive invariant.                                                *)

\* What is in the air has come in this order, and after all that is elsewhere.
Unread == {air[i].n : i \in DOMAIN air}
Shown(u) == seen[u] \cup FramesOf(subch[u])
InOrder ==
    /\ \A i, j \in DOMAIN air : i < j => air[i].n < air[j].n
    /\ \A k \in Unread :
         /\ k <= arrived
         /\ \A c \in Calls : \A n \in HeldBy(c) : n < k
         /\ \A u \in Subs : \A n \in Shown(u) : n < k
    /\ \A c \in Calls : \A n \in HeldBy(c) : n <= arrived
    /\ \A u \in Subs : \A n \in Shown(u) : n <= arrived

\* A registered waiter is there once, and nothing has been sent to it.
Registered ==
    /\ IsInjective(waiters)
    /\ \A c \in Range(waiters) :
         deliver[c] = NewChan /\ call[c] \in {"registered", "waiting", "giveup"}

\* A call that has not registered has an untouched channel.
Fresh == \A c \in Calls :
    call[c] \in {"new", "found"} => deliver[c] = NewChan /\ carried.for # c

\* The pump carries a frame for a call that is no longer registered, and only
\* while it sends.
InHand ==
    /\ pump # "sending" => carried = [frame |-> NoFrame, for |-> Nobody]
    /\ pump = "sending" =>
         /\ carried.frame \in Frame /\ carried.for \in Calls
         /\ carried.for \notin Range(waiters)
         /\ deliver[carried.for] = NewChan
         /\ Matches(carried.for, carried.frame)

\* shutdownPump has run, and left nobody behind, exactly when the pump is done.
Ended ==
    /\ closed <=> pump = "done"
    /\ closed => waiters = <<>> /\ subs = {}

Subscribed == \A u \in Subs :
    /\ u \in subs => ~subch[u].closed /\ sub[u] \notin {"new", "found"}
    /\ sub[u] \in {"new", "found"} => subch[u] = NewChan
    /\ sub[u] = "attached" => u \in subs \/ subch[u].closed

\* Somebody will still answer a waiting call, or already has.
Attended == \A c \in Calls :
    call[c] \in {"registered", "waiting"} =>
        \/ c \in Range(waiters) \/ carried.for = c
        \/ deliver[c].closed \/ deliver[c].buf # <<>>

\* What is, or has been, delivered was claimed by its receiver.
Claimed == \A c \in Calls :
    /\ \A i \in DOMAIN deliver[c].buf : Matches(c, deliver[c].buf[i])
    /\ reply[c].outcome = "frame" => Matches(c, reply[c].frame)

IInv ==
    /\ TypeOK /\ ~panicked
    /\ InOrder /\ Registered /\ Fresh /\ InHand /\ Ended
    /\ Subscribed /\ Attended /\ Claimed /\ OneDestination

-----------------------------------------------------------------------------
(* Sequences.                                                              *)

(* A nonempty set of naturals has a least element, and Min is it.          *)
LEMMA MinOfNats ==
    ASSUME NEW S \in SUBSET Nat, S # {}
    PROVE  Min(S) \in S
<1>1. PICK R : IsWellFoundedOn(R, Nat) /\ \A x, y \in Nat : y < x => <<y, x>> \in R
  <2> DEFINE L == OpToRel(<, Nat)
  <2>1. IsWellFoundedOn(L, Nat)
    BY NatLessThanWellFounded, Zenon
  <2>2. \A x, y \in Nat : y < x => <<y, x>> \in L
    BY DEF OpToRel
  <2> HIDE DEF L
  <2> QED BY <2>1, <2>2
<1>2. PICK x \in S : \A y \in S : ~(<<y, x>> \in R)
  BY <1>1, WFMin
<1>3. ASSUME NEW y \in S PROVE x <= y
  <2>1. x \in Nat /\ y \in Nat
    OBVIOUS
  <2>2. ~(y < x)
    BY <1>1, <1>2, <2>1, Zenon
  <2> QED BY <2>1, <2>2
<1> QED BY <1>3 DEF Min

(* The range of a sequence, by index.                                      *)
LEMMA RangeIs ==
    ASSUME NEW S, NEW s \in Seq(S)
    PROVE  /\ Range(s) \subseteq S /\ DOMAIN s = 1 .. Len(s)
           /\ \A i \in 1 .. Len(s) : s[i] \in Range(s)
           /\ \A e \in Range(s) : \E i \in 1 .. Len(s) : s[i] = e
  BY DEF Range

(* registerWaiter: a new element goes to the end.                          *)
LEMMA AppendNew ==
    ASSUME NEW S, NEW s \in Seq(S), NEW e \in S
    PROVE  /\ Append(s, e) \in Seq(S)
           /\ Range(Append(s, e)) = Range(s) \cup {e}
           /\ IsInjective(s) /\ e \notin Range(s) => IsInjective(Append(s, e))
<1> DEFINE r == Append(s, e)
<1>1. /\ r \in Seq(S) /\ Len(r) = Len(s) + 1 /\ r[Len(s) + 1] = e
      /\ \A i \in 1 .. Len(s) : r[i] = s[i]
  BY AppendProperties
<1>2. DOMAIN r = 1 .. Len(s) + 1 /\ DOMAIN s = 1 .. Len(s) /\ Len(s) \in Nat
  BY <1>1, LenProperties
<1> HIDE DEF r
<1>3. Range(r) = Range(s) \cup {e}
  <2>1. ASSUME NEW x \in Range(r) PROVE x \in Range(s) \cup {e}
    <3>1. PICK i \in 1 .. Len(s) + 1 : x = r[i]
      BY <1>2 DEF Range
    <3>2. i = Len(s) + 1 \/ i \in 1 .. Len(s)
      BY <1>2
    <3> QED BY <1>1, <1>2, <3>1, <3>2 DEF Range
  <2>2. ASSUME NEW x \in Range(s) \cup {e} PROVE x \in Range(r)
    <3>1. Len(s) + 1 \in 1 .. Len(s) + 1 /\ \A i \in 1 .. Len(s) : i \in 1 .. Len(s) + 1
      BY <1>2
    <3> QED BY <1>1, <1>2, <3>1 DEF Range
  <2> QED BY <2>1, <2>2
<1>4. ASSUME IsInjective(s), e \notin Range(s) PROVE IsInjective(r)
  <2> SUFFICES ASSUME NEW i \in 1 .. Len(s) + 1, NEW j \in 1 .. Len(s) + 1, r[i] = r[j]
               PROVE  i = j
    BY <1>2 DEF IsInjective
  <2>1. \A k \in 1 .. Len(s) : r[k] # e
    BY <1>1, <1>2, <1>4 DEF Range
  <2>2. (i = Len(s) + 1 \/ i \in 1 .. Len(s)) /\ (j = Len(s) + 1 \/ j \in 1 .. Len(s))
    BY <1>2
  <2>3. CASE i \in 1 .. Len(s) /\ j \in 1 .. Len(s)
    BY <1>1, <1>2, <1>4, <2>3 DEF IsInjective
  <2> QED BY <1>1, <2>1, <2>2, <2>3
<1> QED BY <1>1, <1>3, <1>4 DEF r

(* What is left of a sequence without its i-th element.                    *)
LEMMA RemoveAtIs ==
    ASSUME NEW S, NEW s \in Seq(S), NEW i \in 1 .. Len(s)
    PROVE  /\ RemoveAt(s, i) \in Seq(S)
           /\ Len(RemoveAt(s, i)) = Len(s) - 1
           /\ \A j \in 1 .. Len(s) - 1 :
                /\ j < i => RemoveAt(s, i)[j] = s[j]
                /\ ~(j < i) => RemoveAt(s, i)[j] = s[j + 1]
<1> DEFINE a == SubSeq(s, 1, i - 1)
           b == SubSeq(s, i + 1, Len(s))
<1>1. Len(s) \in Nat /\ \A k \in 1 .. Len(s) : s[k] \in S
  BY ElementOfSeq, LenProperties
<1>2. /\ a \in Seq(S) /\ Len(a) = i - 1
      /\ \A k \in 1 .. i - 1 : a[k] = s[k]
  <2>1. \A k \in 1 .. i - 1 : s[k] \in S
    BY <1>1
  <2>2. /\ a \in Seq(S) /\ Len(a) = IF 1 <= i - 1 THEN i - 1 - 1 + 1 ELSE 0
        /\ \A k \in 1 .. i - 1 - 1 + 1 : a[k] = s[1 + k - 1]
    BY <1>1, <2>1, SubSeqProperties
  <2> HIDE DEF a
  <2> QED BY <1>1, <2>2
<1>3. /\ b \in Seq(S) /\ Len(b) = Len(s) - i
      /\ \A k \in 1 .. Len(s) - i : b[k] = s[i + k]
  <2>1. \A k \in i + 1 .. Len(s) : s[k] \in S
    BY <1>1
  <2>2. /\ b \in Seq(S) /\ Len(b) = IF i + 1 <= Len(s) THEN Len(s) - (i + 1) + 1 ELSE 0
        /\ \A k \in 1 .. Len(s) - (i + 1) + 1 : b[k] = s[i + 1 + k - 1]
    BY <1>1, <2>1, SubSeqProperties
  <2> HIDE DEF b
  <2> QED BY <1>1, <2>2
<1>4. RemoveAt(s, i) = a \o b
  BY DEF RemoveAt
<1> HIDE DEF a, b
<1>5. /\ a \o b \in Seq(S) /\ Len(a \o b) = Len(s) - 1
      /\ \A j \in 1 .. Len(s) - 1 :
            (a \o b)[j] = IF j <= i - 1 THEN a[j] ELSE b[j - (i - 1)]
  <2>1. /\ a \o b \in Seq(S) /\ Len(a \o b) = Len(a) + Len(b)
        /\ \A j \in 1 .. Len(a) + Len(b) :
              (a \o b)[j] = IF j <= Len(a) THEN a[j] ELSE b[j - Len(a)]
    BY <1>2, <1>3, ConcatProperties
  <2>2. Len(a) + Len(b) = Len(s) - 1
    BY <1>1, <1>2, <1>3
  <2> QED BY <1>2, <2>1, <2>2
<1>6. ASSUME NEW j \in 1 .. Len(s) - 1
      PROVE  /\ j < i => (a \o b)[j] = s[j]
             /\ ~(j < i) => (a \o b)[j] = s[j + 1]
  <2>1. CASE j < i
    BY <1>1, <1>2, <1>5, <2>1
  <2>2. CASE ~(j < i)
    <3>1. j - (i - 1) \in 1 .. Len(s) - i /\ i + (j - (i - 1)) = j + 1
      BY <1>1, <2>2
    <3> QED BY <1>1, <1>3, <1>5, <2>2, <3>1
  <2> QED BY <2>1, <2>2
<1> QED BY <1>4, <1>5, <1>6

(* Removing one of distinct elements removes it alone.                     *)
LEMMA RemoveAtOne ==
    ASSUME NEW S, NEW s \in Seq(S), NEW i \in 1 .. Len(s), IsInjective(s)
    PROVE  /\ RemoveAt(s, i) \in Seq(S) /\ IsInjective(RemoveAt(s, i))
           /\ Range(RemoveAt(s, i)) = Range(s) \ {s[i]}
<1> DEFINE r == RemoveAt(s, i)
           at(j) == IF j < i THEN j ELSE j + 1
<1>1. /\ r \in Seq(S) /\ Len(r) = Len(s) - 1 /\ Len(s) \in Nat
      /\ DOMAIN r = 1 .. Len(s) - 1 /\ DOMAIN s = 1 .. Len(s)
  BY RemoveAtIs, LenProperties
<1>2. \A j \in 1 .. Len(s) - 1 : r[j] = s[at(j)]
  <2>1. \A j \in 1 .. Len(s) - 1 : (j < i => r[j] = s[j]) /\ (~(j < i) => r[j] = s[j + 1])
    BY RemoveAtIs
  <2> QED BY <2>1
<1> HIDE DEF r
<1>3. \A j \in 1 .. Len(s) - 1 : at(j) \in 1 .. Len(s) /\ at(j) # i
  BY <1>1
<1>4. \A k \in 1 .. Len(s) : k # i => \E j \in 1 .. Len(s) - 1 : at(j) = k
  <2> SUFFICES ASSUME NEW k \in 1 .. Len(s), k # i
               PROVE  \E j \in 1 .. Len(s) - 1 : at(j) = k
    OBVIOUS
  <2>1. CASE k < i
    <3>1. k \in 1 .. Len(s) - 1 /\ at(k) = k
      BY <1>1, <2>1
    <3> QED BY <3>1
  <2>2. CASE k > i
    <3>1. k - 1 \in 1 .. Len(s) - 1 /\ at(k - 1) = k
      BY <1>1, <2>2
    <3> QED BY <3>1
  <2> QED BY <1>1, <2>1, <2>2
<1>5. \A j, k \in 1 .. Len(s) - 1 : at(j) = at(k) => j = k
  BY <1>1
<1> HIDE DEF at
<1>6. IsInjective(r)
  BY <1>1, <1>2, <1>3, <1>5 DEF IsInjective
<1>7. Range(r) = Range(s) \ {s[i]}
  <2>1. ASSUME NEW x \in Range(r) PROVE x \in Range(s) \ {s[i]}
    <3>1. PICK j \in 1 .. Len(s) - 1 : x = r[j]
      BY <1>1 DEF Range
    <3>2. x = s[at(j)] /\ at(j) \in 1 .. Len(s) /\ at(j) # i
      BY <1>2, <1>3, <3>1
    <3> QED BY <1>1, <3>2 DEF Range, IsInjective
  <2>2. ASSUME NEW x \in Range(s) \ {s[i]} PROVE x \in Range(r)
    <3>1. PICK k \in 1 .. Len(s) : x = s[k]
      BY <1>1 DEF Range
    <3>2. PICK j \in 1 .. Len(s) - 1 : at(j) = k
      BY <1>4, <2>2, <3>1
    <3> QED BY <1>1, <1>2, <3>1, <3>2 DEF Range
  <2> QED BY <2>1, <2>2
<1> QED BY <1>1, <1>6, <1>7 DEF r

(* unregisterWaiter: the element is gone, the others stay.                 *)
LEMMA RemoveFirstOne ==
    ASSUME NEW S, NEW s \in Seq(S), NEW e, IsInjective(s)
    PROVE  /\ RemoveFirst(s, e) \in Seq(S) /\ IsInjective(RemoveFirst(s, e))
           /\ Range(RemoveFirst(s, e)) = Range(s) \ {e}
<1> DEFINE I == {i \in 1 .. Len(s) : s[i] = e}
<1>1. CASE I # {}
  <2>1. Min(I) \in I
    <3>1. I \in SUBSET Nat
      BY LenProperties
    <3> HIDE DEF I
    <3> QED BY <1>1, <3>1, MinOfNats
  <2>2. RemoveFirst(s, e) = RemoveAt(s, Min(I))
    BY <1>1 DEF RemoveFirst, SelectInSeq
  <2>3. Min(I) \in 1 .. Len(s) /\ s[Min(I)] = e
    BY <2>1
  <2> HIDE DEF I
  <2> QED BY <2>2, <2>3, RemoveAtOne
<1>2. CASE I = {}
  <2>1. RemoveFirst(s, e) = s
    BY <1>2 DEF RemoveFirst
  <2>2. e \notin Range(s)
    BY <1>2, RangeIs
  <2> QED BY <2>1, <2>2
<1> QED BY <1>1, <1>2

-----------------------------------------------------------------------------
(* Channels and frames.                                                    *)

(* The first waiter that claims f is one of the waiters and claims f.      *)
LEMMA FirstMatchIs ==
    ASSUME waiters \in Seq(Calls), NEW f, FirstMatch(f) # 0
    PROVE  /\ FirstMatch(f) \in 1 .. Len(waiters)
           /\ Matches(waiters[FirstMatch(f)], f)
<1> DEFINE I == {i \in 1 .. Len(waiters) : Matches(waiters[i], f)}
<1>1. FirstMatch(f) = IF I # {} THEN Min(I) ELSE 0
  BY DEF FirstMatch, SelectInSeq
<1>2. I \in SUBSET Nat
  BY LenProperties
<1>3. I # {} => Min(I) \in I
  <2> HIDE DEF I
  <2> QED BY <1>2, MinOfNats
<1> QED BY <1>1, <1>3

(* The numbers of the frames in a sequence.                                *)
LEMMA TailFrames ==
    ASSUME NEW s \in Seq(Frame), s # <<>>
    PROVE  /\ Head(s) \in Frame /\ Tail(s) \in Seq(Frame)
           /\ Len(Tail(s)) = Len(s) - 1 /\ Len(s) \in Nat \ {0}
           /\ DOMAIN s = 1 .. Len(s) /\ DOMAIN Tail(s) = 1 .. Len(s) - 1
           /\ Head(s) = s[1]
           /\ \A i \in 1 .. Len(s) - 1 : i + 1 \in 1 .. Len(s) /\ Tail(s)[i] = s[i + 1]
<1>1. /\ Head(s) \in Frame /\ Tail(s) \in Seq(Frame) /\ Len(Tail(s)) = Len(s) - 1
      /\ \A i \in 1 .. Len(Tail(s)) : Tail(s)[i] = s[i + 1]
  BY HeadTailProperties
<1>2. Len(s) \in Nat \ {0}
  BY EmptySeq
<1>3. DOMAIN s = 1 .. Len(s) /\ DOMAIN Tail(s) = 1 .. Len(s) - 1
  BY <1>1, LenProperties
<1>4. Head(s) = s[1]
  OBVIOUS
<1> QED BY <1>1, <1>2, <1>3, <1>4

LEMMA NewChanIs ==
    ASSUME NEW cap \in Nat
    PROVE  NewChan \in Chan(cap) /\ FramesOf(NewChan) = {} /\ ~NewChan.closed
<1>1. NewChan.buf = <<>> /\ NewChan.closed = FALSE
  BY DEF NewChan
<1>2. <<>> \in Seq(Frame) /\ Len(<<>>) = 0 /\ DOMAIN <<>> = {}
  BY EmptySeq
<1> QED BY <1>1, <1>2 DEF Chan, NewChan, FramesOf

LEMMA ChanIs ==
    ASSUME NEW cap, NEW ch \in Chan(cap)
    PROVE  /\ ch.buf \in Seq(Frame) /\ Len(ch.buf) <= cap /\ ch.closed \in BOOLEAN
           /\ FramesOf(ch) \subseteq Numbers
           /\ DOMAIN ch.buf = 1 .. Len(ch.buf)
           /\ ch.buf = <<>> /\ ~ch.closed => ch = NewChan
<1>1. /\ ch.buf \in Seq(Frame) /\ Len(ch.buf) <= cap /\ ch.closed \in BOOLEAN
      /\ ch = [buf |-> ch.buf, closed |-> ch.closed]
  BY DEF Chan
<1>2. DOMAIN ch.buf = 1 .. Len(ch.buf) /\ \A i \in 1 .. Len(ch.buf) : ch.buf[i] \in Frame
  BY <1>1, ElementOfSeq, LenProperties
<1>3. FramesOf(ch) \subseteq Numbers
  BY <1>2 DEF FramesOf, Frame
<1>4. ch.buf = <<>> /\ ~ch.closed => ch = NewChan
  BY <1>1 DEF NewChan
<1> QED BY <1>1, <1>2, <1>3, <1>4

(* A non-blocking send adds the frame at the end, or nothing.              *)
LEMMA TrySendIs ==
    ASSUME NEW cap \in Nat, NEW ch \in Chan(cap), NEW f \in Frame
    PROVE  /\ TrySend(ch, f, cap) \in Chan(cap)
           /\ TrySend(ch, f, cap).closed = ch.closed
           /\ FramesOf(TrySend(ch, f, cap)) \subseteq FramesOf(ch) \cup {f.n}
           /\ \A i \in DOMAIN TrySend(ch, f, cap).buf :
                \/ TrySend(ch, f, cap).buf[i] = f
                \/ i \in DOMAIN ch.buf /\ TrySend(ch, f, cap).buf[i] = ch.buf[i]
<1> DEFINE b == Append(ch.buf, f)
           r == [ch EXCEPT !.buf = Append(@, f)]
<1>1. /\ ch.buf \in Seq(Frame) /\ Len(ch.buf) <= cap /\ ch.closed \in BOOLEAN
      /\ ch = [buf |-> ch.buf, closed |-> ch.closed]
      /\ DOMAIN ch.buf = 1 .. Len(ch.buf) /\ Len(ch.buf) \in Nat
  BY ChanIs, LenProperties DEF Chan
<1>2. CASE ~(Len(ch.buf) < cap)
  <2>1. TrySend(ch, f, cap) = ch
    BY <1>2 DEF TrySend
  <2> QED BY <2>1
<1>3. CASE Len(ch.buf) < cap
  <2>1. /\ b \in Seq(Frame) /\ Len(b) = Len(ch.buf) + 1 /\ b[Len(ch.buf) + 1] = f
        /\ \A i \in 1 .. Len(ch.buf) : b[i] = ch.buf[i]
    BY <1>1, AppendProperties
  <2>2. DOMAIN b = 1 .. Len(ch.buf) + 1
    BY <2>1, LenProperties
  <2>3. TrySend(ch, f, cap) = r /\ r = [buf |-> b, closed |-> ch.closed]
    BY <1>1, <1>3 DEF TrySend
  <2>4. TrySend(ch, f, cap).buf = b /\ TrySend(ch, f, cap).closed = ch.closed
    BY <2>3
  <2> HIDE DEF b, r
  <2>5. TrySend(ch, f, cap) \in Chan(cap)
    BY <1>1, <1>3, <2>1, <2>3 DEF Chan
  <2>6. ASSUME NEW i \in DOMAIN b
        PROVE  b[i] = f \/ (i \in DOMAIN ch.buf /\ b[i] = ch.buf[i])
    BY <1>1, <2>1, <2>2
  <2>7. FramesOf(TrySend(ch, f, cap)) \subseteq FramesOf(ch) \cup {f.n}
    BY <2>4, <2>6 DEF FramesOf
  <2> QED BY <2>4, <2>5, <2>6, <2>7
<1> QED BY <1>2, <1>3

(* The first send on a fresh channel gets through.                         *)
LEMMA FirstSendIs ==
    ASSUME NEW f \in Frame
    PROVE  LET ch == TrySend(NewChan, f, 1)
           IN  /\ ch \in Chan(1) /\ FramesOf(ch) \subseteq {f.n} /\ ch.buf # <<>>
               /\ \A i \in DOMAIN ch.buf : ch.buf[i] = f
<1> DEFINE ch == TrySend(NewChan, f, 1)
<1>1. NewChan.buf = <<>> /\ NewChan.closed = FALSE /\ Len(<<>>) < 1
  BY DEF NewChan
<1>2. Append(<<>>, f) = <<f>>
  OBVIOUS
<1>3. ch = [NewChan EXCEPT !.buf = <<f>>]
  <2>1. ch = [NewChan EXCEPT !.buf = Append(NewChan.buf, f)]
    BY <1>1 DEF TrySend
  <2>2. Append(NewChan.buf, f) = <<f>>
    BY <1>1, <1>2
  <2> HIDE DEF ch
  <2> QED BY <2>1, <2>2
<1>4. ch = [buf |-> <<f>>, closed |-> FALSE]
  <2> HIDE DEF ch
  <2> QED BY <1>3 DEF NewChan
<1> HIDE DEF ch
<1>5. ch.buf = <<f>> /\ ch.closed = FALSE
  BY <1>4
<1>6. <<f>> \in Seq(Frame) /\ Len(<<f>>) = 1 /\ <<f>> # <<>>
      /\ DOMAIN <<f>> = {1} /\ <<f>>[1] = f
  OBVIOUS
<1>7. ch \in Chan(1)
  <2>1. PICK b \in Seq(Frame) : b = <<f>> /\ Len(b) = 1
    BY <1>6
  <2>2. ch = [buf |-> b, closed |-> FALSE]
    BY <1>4, <2>1
  <2> QED BY <2>1, <2>2 DEF Chan
<1> QED BY <1>5, <1>6, <1>7 DEF FramesOf, ch

(* A receive takes the first frame out.                                    *)
Rest(ch) == [ch EXCEPT !.buf = Tail(@)]

LEMMA ReceiveIs ==
    ASSUME NEW cap \in Nat, NEW ch \in Chan(cap), ch.buf # <<>>
    PROVE  /\ Rest(ch) \in Chan(cap)
           /\ Rest(ch).closed = ch.closed
           /\ FramesOf(Rest(ch)) \subseteq FramesOf(ch)
           /\ \A i \in DOMAIN Rest(ch).buf :
                \E j \in DOMAIN ch.buf : Rest(ch).buf[i] = ch.buf[j]
           /\ Head(ch.buf) \in Frame /\ Head(ch.buf).n \in FramesOf(ch)
           /\ 1 \in DOMAIN ch.buf /\ Head(ch.buf) = ch.buf[1]
<1> DEFINE b == Tail(ch.buf)
           r == [ch EXCEPT !.buf = b]
<1>1. /\ ch.buf \in Seq(Frame) /\ Len(ch.buf) <= cap /\ ch.closed \in BOOLEAN
      /\ ch = [buf |-> ch.buf, closed |-> ch.closed]
  BY ChanIs DEF Chan
<1>2. /\ Head(ch.buf) \in Frame /\ b \in Seq(Frame)
      /\ Len(b) = Len(ch.buf) - 1 /\ Len(ch.buf) \in Nat \ {0}
      /\ DOMAIN ch.buf = 1 .. Len(ch.buf) /\ DOMAIN b = 1 .. Len(ch.buf) - 1
      /\ Head(ch.buf) = ch.buf[1]
      /\ \A i \in 1 .. Len(ch.buf) - 1 : i + 1 \in 1 .. Len(ch.buf) /\ b[i] = ch.buf[i + 1]
  BY <1>1, TailFrames
<1>3. r = [buf |-> b, closed |-> ch.closed] /\ r.buf = b /\ r.closed = ch.closed
  <2> HIDE DEF b
  <2> QED BY <1>1
<1> HIDE DEF b, r
<1>4. r \in Chan(cap)
  BY <1>1, <1>2, <1>3 DEF Chan
<1>5. \A i \in DOMAIN b : \E j \in DOMAIN ch.buf : b[i] = ch.buf[j]
  BY <1>2
<1>6. FramesOf(r) \subseteq FramesOf(ch)
  BY <1>3, <1>5 DEF FramesOf
<1>7. 1 \in DOMAIN ch.buf /\ Head(ch.buf).n \in FramesOf(ch)
  BY <1>2 DEF FramesOf
<1> QED BY <1>2, <1>3, <1>4, <1>5, <1>6, <1>7 DEF Rest, r, b

LEMMA CloseIs ==
    ASSUME NEW cap, NEW ch \in Chan(cap)
    PROVE  /\ CloseChan(ch) \in Chan(cap) /\ CloseChan(ch).closed
           /\ CloseChan(ch).buf = ch.buf /\ FramesOf(CloseChan(ch)) = FramesOf(ch)
  BY DEF Chan, CloseChan, FramesOf

-----------------------------------------------------------------------------
(* Steps that several actions share.                                       *)

LEMMA TypeFacts ==
    ASSUME IInv
    PROVE  /\ SubCap \in Nat /\ MaxFrames \in Nat /\ Nobody \notin Calls
           /\ \A c \in Calls : deliver[c] \in Chan(1)
           /\ \A u \in Subs : subch[u] \in Chan(SubCap)
           /\ Range(waiters) \subseteq Calls /\ waiters \in Seq(Calls)
           /\ subs \subseteq Subs /\ arrived \in Nat
           /\ \A c \in Calls : HeldBy(c) \subseteq Numbers
           /\ \A u \in Subs : Shown(u) \subseteq Numbers
           /\ air \in Seq(Frame) /\ Unread \subseteq Numbers
<1>1. TypeOK
  BY DEF IInv
<1>2. /\ \A c \in Calls : deliver[c] \in Chan(1)
      /\ \A u \in Subs : subch[u] \in Chan(SubCap)
      /\ waiters \in Seq(Calls) /\ subs \subseteq Subs /\ arrived \in Nat
      /\ air \in Seq(Frame)
  BY <1>1, PumpAssumption DEF TypeOK
<1>3. Range(waiters) \subseteq Calls
  BY <1>2, RangeIs
<1>4. ASSUME NEW c \in Calls PROVE HeldBy(c) \subseteq Numbers
  <2>1. FramesOf(deliver[c]) \subseteq Numbers
    BY <1>2, ChanIs
  <2>2. reply[c].frame \in Frame \cup {NoFrame}
    BY <1>1 DEF TypeOK
  <2>3. {reply[c].frame.n} \ {0} \subseteq Numbers
    BY <2>2 DEF Frame, NoFrame
  <2>4. carried.for = c => carried.frame.n \in Numbers
    <3>1. carried.for = c => pump = "sending"
      BY PumpAssumption DEF IInv, InHand
    <3> QED BY <3>1 DEF IInv, InHand, Frame
  <2> QED BY <2>1, <2>3, <2>4 DEF HeldBy
<1>5. ASSUME NEW u \in Subs PROVE Shown(u) \subseteq Numbers
  <2>1. FramesOf(subch[u]) \subseteq Numbers
    BY <1>2, ChanIs
  <2>2. seen[u] \subseteq Numbers
    BY <1>1 DEF TypeOK
  <2> QED BY <2>1, <2>2 DEF Shown
<1>6. Unread \subseteq Numbers
  <2>1. DOMAIN air = 1 .. Len(air) /\ \A i \in 1 .. Len(air) : air[i] \in Frame
    BY <1>2, LenProperties, ElementOfSeq
  <2> QED BY <2>1 DEF Unread, Frame
<1> QED BY <1>2, <1>3, <1>4, <1>5, <1>6, PumpAssumption

(* No new frame, and nobody has one he did not have.                       *)
LEMMA FramesShrink ==
    ASSUME IInv, air' = air, arrived' = arrived,
           \A c \in Calls : HeldBy(c)' \subseteq HeldBy(c),
           \A u \in Subs : Shown(u)' \subseteq Shown(u)
    PROVE  InOrder' /\ OneDestination'
<1>1. InOrder /\ OneDestination
  BY DEF IInv
<1>2. Unread' = Unread
  BY DEF Unread
<1>3. InOrder'
  BY <1>1, <1>2 DEF InOrder
<1>4. OneDestination'
  BY <1>1 DEF OneDestination, Shown
<1> QED BY <1>3, <1>4

(* Only the calls move, and none back to where it counts on the pump.      *)
LEMMA Quiet ==
    ASSUME IInv, TypeOK',
           UNCHANGED <<air, arrived, waiters, deliver, pumpVars, subVars, panicked>>,
           \A c \in Calls :
             /\ reply'[c] = reply[c] \/ reply'[c] \in [outcome : Outcome \ {"frame"},
                                                       frame : {NoFrame}]
             /\ \/ call'[c] = call[c]
                \/ call[c] \in {"new", "found"} /\ call'[c] \in {"found", "returned"}
                \/ call[c] = "registered" /\ call'[c] = "waiting"
                \/ /\ call[c] \in {"registered", "waiting"} /\ call'[c] = "giveup"
                \/ c \notin Range(waiters) /\ call'[c] \in {"touching", "returned"}
    PROVE  IInv'
<1>1. /\ InOrder /\ Registered /\ Fresh /\ InHand /\ Ended
      /\ Subscribed /\ Attended /\ Claimed /\ ~panicked
  BY DEF IInv
<1>2. /\ air' = air /\ arrived' = arrived /\ waiters' = waiters /\ deliver' = deliver
      /\ pump' = pump /\ carried' = carried /\ closed' = closed
      /\ subs' = subs /\ subch' = subch /\ sub' = sub /\ seen' = seen
      /\ panicked' = panicked
  BY DEF pumpVars, subVars
<1>3. InOrder' /\ OneDestination'
  <2>1. ASSUME NEW c \in Calls PROVE HeldBy(c)' \subseteq HeldBy(c)
    <3>1. reply'[c].frame = reply[c].frame \/ reply'[c].frame.n = 0
      BY DEF NoFrame
    <3> QED BY <1>2, <3>1 DEF HeldBy
  <2>2. ASSUME NEW u \in Subs PROVE Shown(u)' \subseteq Shown(u)
    BY <1>2 DEF Shown
  <2> QED BY <1>2, <2>1, <2>2, FramesShrink
<1>4. Registered'
  BY <1>1, <1>2, TypeFacts DEF Registered
<1>5. Fresh' /\ Attended'
  BY <1>1, <1>2 DEF Fresh, Attended
<1>6. InHand' /\ Ended' /\ Subscribed'
  BY <1>1, <1>2 DEF InHand, Ended, Subscribed, Matches
<1>7. Claimed'
  BY <1>1, <1>2 DEF Claimed, Matches
<1> QED BY <1>1, <1>2, <1>3, <1>4, <1>5, <1>6, <1>7 DEF IInv

(* Only subscribers move.                                                  *)
LEMMA CallsAlone ==
    ASSUME IInv, TypeOK', ~panicked', UNCHANGED <<air, arrived, callVars, pumpVars>>,
           closed => subs' = {},
           \A u \in Subs : Shown(u)' \subseteq Shown(u),
           Subscribed'
    PROVE  IInv'
<1>1. /\ InOrder /\ Registered /\ Fresh /\ InHand /\ Ended
      /\ Attended /\ Claimed
  BY DEF IInv
<1>2. /\ air' = air /\ arrived' = arrived /\ waiters' = waiters /\ deliver' = deliver
      /\ call' = call /\ reply' = reply
      /\ pump' = pump /\ carried' = carried /\ closed' = closed
  BY DEF pumpVars, callVars
<1>3. InOrder' /\ OneDestination'
  <2>1. ASSUME NEW c \in Calls PROVE HeldBy(c)' \subseteq HeldBy(c)
    BY <1>2 DEF HeldBy
  <2> QED BY <1>2, <2>1, FramesShrink
<1>4. Registered' /\ Fresh' /\ Attended'
  BY <1>1, <1>2 DEF Registered, Fresh, Attended
<1>5. InHand' /\ Ended' /\ Claimed'
  BY <1>1, <1>2 DEF InHand, Ended, Claimed, Matches
<1> QED BY <1>3, <1>4, <1>5 DEF IInv

-----------------------------------------------------------------------------
(* The actions, one by one.                                                *)

\* The car answers a call, or says something by itself.
LEMMA CarSendsStep ==
    ASSUME IInv, NEW to \in Calls \cup {Nobody}, CarSends(to) PROVE IInv'
<1> DEFINE f == [n |-> arrived + 1, to |-> to]
<1>1. /\ TypeOK /\ InOrder /\ Registered /\ Fresh /\ InHand /\ Ended
      /\ Subscribed /\ Attended /\ Claimed /\ OneDestination /\ ~panicked
  BY DEF IInv
<1>2. /\ arrived < MaxFrames /\ arrived' = arrived + 1 /\ air' = Append(air, f)
      /\ linkDown' = linkDown /\ sent' = sent
      /\ inMap' = inMap /\ idle' = idle /\ stop' = stop /\ cutShort' = cutShort
      /\ pump' = pump /\ carried' = carried /\ closed' = closed
      /\ waiters' = waiters /\ deliver' = deliver /\ call' = call /\ reply' = reply
      /\ subs' = subs /\ subch' = subch /\ sub' = sub /\ seen' = seen
      /\ panicked' = panicked
  BY DEF CarSends, lifeVars, pumpVars, callVars, subVars
<1>3. arrived \in 0 .. MaxFrames /\ MaxFrames \in Nat /\ air \in Seq(Frame)
  BY <1>1, PumpAssumption DEF TypeOK
<1>4. f \in Frame /\ f.n = arrived + 1
  BY <1>2, <1>3 DEF Frame, Numbers
<1> HIDE DEF f
<1>5. /\ air' \in Seq(Frame) /\ Len(air') = Len(air) + 1 /\ air'[Len(air) + 1] = f
      /\ \A i \in 1 .. Len(air) : air'[i] = air[i]
      /\ DOMAIN air = 1 .. Len(air) /\ DOMAIN air' = 1 .. Len(air) + 1 /\ Len(air) \in Nat
  BY <1>2, <1>3, <1>4, AppendProperties, LenProperties
<1>6. TypeOK'
  BY <1>1, <1>2, <1>3, <1>5 DEF TypeOK
<1>7. \A c \in Calls : HeldBy(c)' = HeldBy(c)
  BY <1>2 DEF HeldBy
<1>8. \A u \in Subs : Shown(u)' = Shown(u)
  BY <1>2 DEF Shown
<1>9. Unread' = Unread \cup {arrived + 1}
  <2>1. \A i \in 1 .. Len(air) + 1 : i \in 1 .. Len(air) \/ i = Len(air) + 1
    BY <1>5
  <2>2. Len(air) + 1 \in 1 .. Len(air) + 1 /\ \A i \in 1 .. Len(air) : i \in 1 .. Len(air) + 1
    BY <1>5
  <2> QED BY <1>4, <1>5, <2>1, <2>2 DEF Unread
<1>10. InOrder'
  <2>1. ASSUME NEW i \in DOMAIN air', NEW j \in DOMAIN air', i < j
        PROVE  air'[i].n < air'[j].n
    <3>1. i \in 1 .. Len(air) /\ (j \in 1 .. Len(air) \/ j = Len(air) + 1)
      BY <1>5, <2>1
    <3>2. CASE j \in 1 .. Len(air)
      BY <1>1, <1>5, <2>1, <3>1, <3>2 DEF InOrder
    <3>3. CASE j = Len(air) + 1
      <4>1. air[i].n \in Unread
        BY <1>5, <3>1 DEF Unread
      <4>2. air[i].n <= arrived /\ air[i].n \in Nat
        BY <1>1, <4>1, TypeFacts DEF InOrder, Numbers
      <4> QED BY <1>3, <1>4, <1>5, <3>1, <3>3, <4>2
    <3> QED BY <3>1, <3>2, <3>3
  <2>2. ASSUME NEW c \in Calls, NEW n \in HeldBy(c) PROVE n \in Nat /\ n <= arrived
    BY <1>1, TypeFacts DEF InOrder, Numbers
  <2>3. ASSUME NEW u \in Subs, NEW n \in Shown(u) PROVE n \in Nat /\ n <= arrived
    BY <1>1, TypeFacts DEF InOrder, Numbers
  <2>4. ASSUME NEW k \in Unread PROVE k \in Nat /\ k <= arrived
    BY <1>1, TypeFacts DEF InOrder, Numbers
  <2>5. ASSUME NEW k \in Unread'
        PROVE  /\ k <= arrived'
               /\ \A c \in Calls : \A n \in HeldBy(c) : n < k
               /\ \A u \in Subs : \A n \in Shown(u) : n < k
    <3>1. CASE k \in Unread
      BY <1>1, <1>2, <1>3, <2>4, <3>1 DEF InOrder
    <3>2. CASE k = arrived + 1
      BY <1>2, <1>3, <2>2, <2>3, <3>2
    <3> QED BY <1>9, <3>1, <3>2
  <2>6. \A c \in Calls : \A n \in HeldBy(c) : n <= arrived'
    BY <1>2, <1>3, <2>2
  <2>7. \A u \in Subs : \A n \in Shown(u) : n <= arrived'
    BY <1>2, <1>3, <2>3
  <2> QED BY <1>7, <1>8, <2>1, <2>5, <2>6, <2>7 DEF InOrder
<1>11. OneDestination'
  BY <1>1, <1>7, <1>8 DEF OneDestination, Shown
<1>12. Registered' /\ Fresh' /\ Attended' /\ Ended' /\ Subscribed'
  BY <1>1, <1>2 DEF Registered, Fresh, Attended, Ended, Subscribed
<1>13. InHand' /\ Claimed'
  BY <1>1, <1>2 DEF InHand, Claimed, Matches
<1> QED BY <1>1, <1>2, <1>6, <1>10, <1>11, <1>12, <1>13 DEF IInv

\* The link, the timer, and whoever takes the session down.
LEMMA AroundStep ==
    ASSUME IInv, LinkDrops \/ TTLPasses \/ Reap \/ CloseSession \/ StopPump
    PROVE  IInv'
<1>1. TypeOK
  BY DEF IInv
<1>2. /\ UNCHANGED <<air, arrived, sent, waiters, deliver, call, reply, pumpVars, subVars,
                    panicked>>
      /\ {inMap, idle, stop, linkDown, cutShort}' \subseteq BOOLEAN
  BY <1>1 DEF LinkDrops, TTLPasses, Reap, CloseSession, StopPump, TypeOK,
              connVars, lifeVars, callVars
<1>3. TypeOK'
  BY <1>1, <1>2 DEF TypeOK, pumpVars, subVars
<1> QED BY <1>2, <1>3, Quiet

\* The steps of an Exchange that leave the waiters and the channels alone.
LEMMA ExchangeQuietStep ==
    ASSUME IInv, NEW c \in Calls,
           ExchangeLooksUp(c) \/ ExchangeSends(c) \/ ExchangeGivesUp(c) \/ Touch(c)
    PROVE  IInv'
<1>1. TypeOK /\ Registered
  BY DEF IInv
<1>2. /\ UNCHANGED <<air, arrived, linkDown, waiters, deliver, pumpVars, subVars, panicked>>
      /\ UNCHANGED <<inMap, stop, cutShort>>
      /\ idle' \in BOOLEAN /\ sent' \subseteq Calls
  BY <1>1 DEF ExchangeLooksUp, ExchangeSends, ExchangeGivesUp, Touch, Moves, TypeOK
<1>3. \/ UNCHANGED reply
      \/ \E o \in Outcome \ {"frame"} : Answers(c, o, NoFrame)
  BY DEF ExchangeLooksUp, ExchangeSends, ExchangeGivesUp, Touch, Outcome
<1>4. PICK to \in {"found", "returned", "waiting", "giveup"} :
        /\ call' = [call EXCEPT ![c] = to]
        /\ \/ call[c] = "new" /\ to \in {"found", "returned"}
           \/ call[c] = "registered" /\ to = "waiting"
           \/ call[c] \in {"registered", "waiting"} /\ to = "giveup"
           \/ call[c] = "touching" /\ to = "returned"
  BY DEF ExchangeLooksUp, ExchangeSends, ExchangeGivesUp, Touch, Moves
<1>5. \A d \in Calls : reply'[d] = reply[d] \/ reply'[d] \in [outcome : Outcome \ {"frame"},
                                                            frame : {NoFrame}]
  BY <1>1, <1>3 DEF Answers, TypeOK
<1>6. TypeOK'
  <2>1. reply' \in [Calls -> [outcome : Outcome, frame : Frame \cup {NoFrame}]]
    BY <1>1, <1>3 DEF Answers, TypeOK
  <2>2. call' \in [Calls -> {"new", "found", "registered", "waiting", "giveup",
                            "touching", "returned"}]
    BY <1>1, <1>4 DEF TypeOK
  <2> QED BY <1>1, <1>2, <2>1, <2>2 DEF TypeOK, pumpVars, subVars
<1>7. \A d \in Calls : d # c => call'[d] = call[d]
  BY <1>1, <1>4 DEF TypeOK
<1>8. call'[c] = to
  BY <1>1, <1>4 DEF TypeOK
<1>9. call[c] = "touching" => c \notin Range(waiters)
  BY <1>1 DEF Registered
<1> QED BY <1>2, <1>4, <1>5, <1>6, <1>7, <1>8, <1>9, Quiet

\* The waiter joins the queue, or the session is closed already.
LEMMA RegisterStep ==
    ASSUME IInv, NEW c \in Calls, RegisterWaiter(c) PROVE IInv'
<1>1. /\ TypeOK /\ InOrder /\ Registered /\ Fresh /\ InHand /\ Ended
      /\ Subscribed /\ Attended /\ Claimed /\ OneDestination /\ ~panicked
  BY DEF IInv
<1>2. /\ call[c] = "found"
      /\ air' = air /\ arrived' = arrived /\ linkDown' = linkDown /\ sent' = sent
      /\ inMap' = inMap /\ idle' = idle /\ stop' = stop /\ cutShort' = cutShort
      /\ pump' = pump /\ carried' = carried /\ closed' = closed /\ deliver' = deliver
      /\ subs' = subs /\ subch' = subch /\ sub' = sub /\ seen' = seen
      /\ panicked' = panicked
  BY DEF RegisterWaiter, Moves, pumpVars, subVars
<1>3. CASE closed
  <2>1. /\ waiters' = waiters /\ Answers(c, "closed", NoFrame)
        /\ call' = [call EXCEPT ![c] = "returned"]
    BY <1>3 DEF RegisterWaiter, Moves
  <2>2. /\ reply'[c] \in [outcome : Outcome \ {"frame"}, frame : {NoFrame}]
        /\ call'[c] = "returned"
        /\ \A d \in Calls : d # c => reply'[d] = reply[d] /\ call'[d] = call[d]
    BY <1>1, <2>1 DEF TypeOK, Answers, Outcome
  <2>3. TypeOK'
    <3>1. reply' \in [Calls -> [outcome : Outcome, frame : Frame \cup {NoFrame}]]
      BY <1>1, <2>1 DEF Answers, TypeOK, Outcome
    <3>2. call' \in [Calls -> {"new", "found", "registered", "waiting", "giveup",
                              "touching", "returned"}]
      BY <1>1, <2>1 DEF TypeOK
    <3> QED BY <1>1, <1>2, <2>1, <3>1, <3>2 DEF TypeOK
  <2> QED BY <1>2, <2>1, <2>2, <2>3, Quiet DEF pumpVars, subVars
<1>4. CASE ~closed
  <2>1. /\ waiters' = Append(waiters, c) /\ reply' = reply
        /\ call' = [call EXCEPT ![c] = "registered"]
    BY <1>4 DEF RegisterWaiter, Moves
  <2>2. waiters \in Seq(Calls) /\ c \notin Range(waiters)
    BY <1>1, <1>2 DEF TypeOK, Registered
  <2>3. /\ waiters' \in Seq(Calls) /\ IsInjective(waiters')
        /\ Range(waiters') = Range(waiters) \cup {c}
    BY <1>1, <2>1, <2>2, AppendNew DEF Registered
  <2>4. call'[c] = "registered" /\ \A d \in Calls : d # c => call'[d] = call[d]
    BY <1>1, <2>1 DEF TypeOK
  <2>5. TypeOK'
    <3>1. call' \in [Calls -> {"new", "found", "registered", "waiting", "giveup",
                              "touching", "returned"}]
      BY <1>1, <2>1 DEF TypeOK
    <3> QED BY <1>1, <1>2, <2>1, <2>3, <3>1 DEF TypeOK
  <2>6. deliver[c] = NewChan /\ carried.for # c
    BY <1>1, <1>2 DEF Fresh
  <2>7. Registered'
    BY <1>1, <1>2, <2>3, <2>4, <2>6, TypeFacts DEF Registered
  <2>8. Fresh' /\ Attended'
    BY <1>1, <1>2, <2>3, <2>4 DEF Fresh, Attended
  <2>9. InHand'
    BY <1>1, <1>2, <2>3, <2>6 DEF InHand, Matches
  <2>10. Ended' /\ Subscribed'
    BY <1>1, <1>2, <1>4 DEF Ended, Subscribed
  <2>11. Claimed'
    BY <1>1, <1>2, <2>1 DEF Claimed, Matches
  <2>12. InOrder' /\ OneDestination'
    <3>1. \A d \in Calls : HeldBy(d)' \subseteq HeldBy(d)
      BY <1>2, <2>1 DEF HeldBy
    <3>2. \A u \in Subs : Shown(u)' \subseteq Shown(u)
      BY <1>2 DEF Shown
    <3> QED BY <1>2, <3>1, <3>2, FramesShrink
  <2> QED BY <1>1, <1>2, <2>5, <2>7, <2>8, <2>9, <2>10, <2>11, <2>12 DEF IInv
<1> QED BY <1>3, <1>4

\* The reply is there, or the channel has been closed.
LEMMA ReceiveStep ==
    ASSUME IInv, NEW c \in Calls, ExchangeReceives(c) PROVE IInv'
<1>1. /\ TypeOK /\ InOrder /\ Registered /\ Fresh /\ InHand /\ Ended
      /\ Subscribed /\ Attended /\ Claimed /\ OneDestination /\ ~panicked
  BY DEF IInv
<1>2. /\ call[c] = "waiting"
      /\ air' = air /\ arrived' = arrived /\ linkDown' = linkDown /\ sent' = sent
      /\ inMap' = inMap /\ idle' = idle /\ stop' = stop /\ cutShort' = cutShort
      /\ pump' = pump /\ carried' = carried /\ closed' = closed /\ waiters' = waiters
      /\ subs' = subs /\ subch' = subch /\ sub' = sub /\ seen' = seen
      /\ panicked' = panicked
  BY DEF ExchangeReceives, Moves, pumpVars, subVars
<1>3. deliver[c] \in Chan(1) /\ deliver \in [Calls -> Chan(1)]
  BY <1>1 DEF TypeOK
<1>4. NewChan.buf = <<>> /\ NewChan.closed = FALSE
  BY DEF NewChan
<1>5. CASE deliver[c].buf = <<>>
  <2>1. /\ deliver' = deliver /\ Answers(c, "closed", NoFrame) /\ deliver[c].closed
        /\ call' = [call EXCEPT ![c] = "returned"]
    BY <1>5 DEF ExchangeReceives, Moves
  <2>2. /\ reply'[c] \in [outcome : Outcome \ {"frame"}, frame : {NoFrame}]
        /\ call'[c] = "returned"
        /\ \A d \in Calls : d # c => reply'[d] = reply[d] /\ call'[d] = call[d]
    BY <1>1, <2>1 DEF TypeOK, Answers, Outcome
  <2>3. TypeOK'
    <3>1. reply' \in [Calls -> [outcome : Outcome, frame : Frame \cup {NoFrame}]]
      BY <1>1, <2>1 DEF Answers, TypeOK, Outcome
    <3>2. call' \in [Calls -> {"new", "found", "registered", "waiting", "giveup",
                              "touching", "returned"}]
      BY <1>1, <2>1 DEF TypeOK
    <3> QED BY <1>1, <1>2, <2>1, <3>1, <3>2 DEF TypeOK
  <2>4. c \notin Range(waiters)
    BY <1>1, <1>4, <2>1 DEF Registered
  <2> QED BY <1>2, <2>1, <2>2, <2>3, <2>4, Quiet DEF pumpVars, subVars
<1>6. CASE deliver[c].buf # <<>>
  <2> DEFINE f == Head(deliver[c].buf)
             ch == Rest(deliver[c])
  <2>1. /\ deliver' = [deliver EXCEPT ![c] = ch] /\ Answers(c, "frame", f)
        /\ call' = [call EXCEPT ![c] = "touching"]
    BY <1>3, <1>6 DEF ExchangeReceives, Moves, Rest
  <2>2. /\ ch \in Chan(1) /\ ch.closed = deliver[c].closed
        /\ FramesOf(ch) \subseteq FramesOf(deliver[c])
        /\ \A i \in DOMAIN ch.buf : \E j \in DOMAIN deliver[c].buf : ch.buf[i] = deliver[c].buf[j]
        /\ f \in Frame /\ f.n \in FramesOf(deliver[c])
        /\ 1 \in DOMAIN deliver[c].buf /\ f = deliver[c].buf[1]
    BY <1>3, <1>6, ReceiveIs
  <2> HIDE DEF f, ch
  <2>3. /\ deliver'[c] = ch /\ reply'[c] = [outcome |-> "frame", frame |-> f]
        /\ call'[c] = "touching"
        /\ \A d \in Calls : d # c => /\ reply'[d] = reply[d] /\ call'[d] = call[d]
                                     /\ deliver'[d] = deliver[d]
    BY <1>1, <2>1 DEF TypeOK, Answers
  <2>4. TypeOK'
    <3>1. reply' \in [Calls -> [outcome : Outcome, frame : Frame \cup {NoFrame}]]
      BY <1>1, <2>1, <2>2 DEF Answers, TypeOK, Outcome
    <3>2. call' \in [Calls -> {"new", "found", "registered", "waiting", "giveup",
                              "touching", "returned"}]
      BY <1>1, <2>1 DEF TypeOK
    <3>3. deliver' \in [Calls -> Chan(1)]
      BY <1>3, <2>1, <2>2
    <3> QED BY <1>1, <1>2, <3>1, <3>2, <3>3 DEF TypeOK
  <2>5. c \notin Range(waiters) /\ (pump = "sending" => carried.for # c)
    BY <1>1, <1>4, <1>6 DEF Registered, InHand
  <2>6. Registered'
    BY <1>1, <1>2, <2>3, <2>5, TypeFacts DEF Registered
  <2>7. Fresh' /\ Attended'
    BY <1>1, <1>2, <2>3 DEF Fresh, Attended
  <2>8. InHand'
    BY <1>1, <1>2, <2>3, <2>5 DEF InHand, Matches
  <2>9. Ended' /\ Subscribed'
    BY <1>1, <1>2 DEF Ended, Subscribed
  <2>10. Claimed'
    <3>1. \A i \in DOMAIN ch.buf : Matches(c, ch.buf[i])
      BY <1>1, <2>2 DEF Claimed
    <3>2. Matches(c, f)
      BY <1>1, <2>2 DEF Claimed
    <3> QED BY <1>1, <2>3, <3>1, <3>2 DEF Claimed, Matches
  <2>11. InOrder' /\ OneDestination'
    <3>1. ASSUME NEW d \in Calls PROVE HeldBy(d)' \subseteq HeldBy(d)
      <4>1. CASE d = c
        BY <1>2, <2>2, <2>3, <4>1 DEF HeldBy
      <4>2. CASE d # c
        BY <1>2, <2>3, <4>2 DEF HeldBy
      <4> QED BY <4>1, <4>2
    <3>2. \A u \in Subs : Shown(u)' \subseteq Shown(u)
      BY <1>2 DEF Shown
    <3> QED BY <1>2, <3>1, <3>2, FramesShrink
  <2> QED BY <1>1, <1>2, <2>4, <2>6, <2>7, <2>8, <2>9, <2>10, <2>11 DEF IInv
<1> QED BY <1>5, <1>6

\* A call that gave up takes its waiter back, if the pump has not.
LEMMA UnregisterStep ==
    ASSUME IInv, NEW c \in Calls, UnregisterWaiter(c) PROVE IInv'
<1>1. /\ TypeOK /\ InOrder /\ Registered /\ Fresh /\ InHand /\ Ended
      /\ Subscribed /\ Attended /\ Claimed /\ OneDestination /\ ~panicked
  BY DEF IInv
<1>2. /\ call[c] = "giveup" /\ call' = [call EXCEPT ![c] = "returned"]
      /\ waiters' = RemoveFirst(waiters, c)
      /\ air' = air /\ arrived' = arrived /\ linkDown' = linkDown /\ sent' = sent
      /\ inMap' = inMap /\ idle' = idle /\ stop' = stop /\ cutShort' = cutShort
      /\ pump' = pump /\ carried' = carried /\ closed' = closed
      /\ deliver' = deliver /\ reply' = reply
      /\ subs' = subs /\ subch' = subch /\ sub' = sub /\ seen' = seen
      /\ panicked' = panicked
  BY DEF UnregisterWaiter, Moves, pumpVars, subVars
<1>3. /\ waiters' \in Seq(Calls) /\ IsInjective(waiters')
      /\ Range(waiters') = Range(waiters) \ {c}
  BY <1>1, <1>2, TypeFacts, RemoveFirstOne DEF Registered
<1>4. call'[c] = "returned" /\ \A d \in Calls : d # c => call'[d] = call[d]
  BY <1>1, <1>2 DEF TypeOK
<1>5. TypeOK'
  <2>1. call' \in [Calls -> {"new", "found", "registered", "waiting", "giveup",
                            "touching", "returned"}]
    BY <1>1, <1>2 DEF TypeOK
  <2> QED BY <1>1, <1>2, <1>3, <2>1 DEF TypeOK
<1>6. Registered'
  BY <1>1, <1>2, <1>3, <1>4, TypeFacts DEF Registered
<1>7. Fresh' /\ Attended'
  BY <1>1, <1>2, <1>3, <1>4 DEF Fresh, Attended
<1>8. InHand'
  BY <1>1, <1>2, <1>3 DEF InHand, Matches
<1>9. Ended' /\ Subscribed'
  <2>1. closed => waiters' = <<>>
    <3> SUFFICES ASSUME closed PROVE waiters' = <<>>
      OBVIOUS
    <3>1. waiters = <<>>
      BY <1>1 DEF Ended
    <3> QED BY <1>2, <3>1 DEF RemoveFirst
  <2> QED BY <1>1, <1>2, <2>1 DEF Ended, Subscribed
<1>10. Claimed'
  BY <1>1, <1>2 DEF Claimed, Matches
<1>11. InOrder' /\ OneDestination'
  <2>1. \A d \in Calls : HeldBy(d)' \subseteq HeldBy(d)
    BY <1>2 DEF HeldBy
  <2>2. \A u \in Subs : Shown(u)' \subseteq Shown(u)
    BY <1>2 DEF Shown
  <2> QED BY <1>2, <2>1, <2>2, FramesShrink
<1> QED BY <1>1, <1>2, <1>5, <1>6, <1>7, <1>8, <1>9, <1>10, <1>11 DEF IInv

\* The pump takes the oldest frame out of the air: nobody had it before.
LEMMA AirReads ==
    ASSUME IInv, air # <<>>, air' = Tail(air), arrived' = arrived
    PROVE  LET f == Head(air)
           IN  /\ f \in Frame /\ f.n \in Nat /\ f.n <= arrived /\ air' \in Seq(Frame)
               /\ Unread' \subseteq Unread
               /\ \A k \in Unread' : f.n < k
               /\ \A i, j \in DOMAIN air' : i < j => air'[i].n < air'[j].n
               /\ \A c \in Calls : \A n \in HeldBy(c) : n < f.n
               /\ \A u \in Subs : \A n \in Shown(u) : n < f.n
<1> DEFINE f == Head(air)
<1>1. InOrder /\ air \in Seq(Frame)
  BY TypeFacts DEF IInv
<1>2. /\ f \in Frame /\ air' \in Seq(Frame)
      /\ Len(air') = Len(air) - 1 /\ Len(air) \in Nat \ {0}
      /\ DOMAIN air = 1 .. Len(air) /\ DOMAIN air' = 1 .. Len(air) - 1
      /\ f = air[1]
      /\ \A i \in 1 .. Len(air) - 1 : i + 1 \in 1 .. Len(air) /\ air'[i] = air[i + 1]
  BY <1>1, TailFrames
<1> HIDE DEF f
<1>3. f.n \in Unread /\ f.n \in Nat
  <2>1. 1 \in DOMAIN air
    BY <1>2
  <2>2. f.n \in Unread
    BY <1>2, <2>1 DEF Unread
  <2> QED BY <2>2, TypeFacts DEF Numbers
<1>4. \A i, j \in DOMAIN air' : i < j => air'[i].n < air'[j].n
  <2> SUFFICES ASSUME NEW i \in 1 .. Len(air) - 1, NEW j \in 1 .. Len(air) - 1, i < j
               PROVE  air[i + 1].n < air[j + 1].n
    BY <1>2
  <2>1. i + 1 < j + 1 /\ i + 1 \in DOMAIN air /\ j + 1 \in DOMAIN air
    BY <1>2
  <2> QED BY <1>1, <2>1 DEF InOrder
<1>5. Unread' \subseteq Unread
  BY <1>2 DEF Unread
<1>6. ASSUME NEW k \in Unread' PROVE f.n < k
  <2>1. PICK i \in 1 .. Len(air) - 1 : k = air[i + 1].n
    BY <1>2 DEF Unread
  <2>2. 1 < i + 1 /\ 1 \in DOMAIN air /\ i + 1 \in DOMAIN air
    BY <1>2
  <2> QED BY <1>1, <1>2, <2>1, <2>2 DEF InOrder
<1> QED BY <1>1, <1>2, <1>3, <1>4, <1>5, <1>6 DEF InOrder, f

\* What is read may go to one call, or to the subscribers.
LEMMA FrameGoes ==
    ASSUME IInv, air # <<>>, air' = Tail(air), arrived' = arrived,
           \/ /\ \E c \in Calls : \A d \in Calls :
                   HeldBy(d)' \subseteq HeldBy(d) \cup (IF d = c THEN {Head(air).n} ELSE {})
              /\ \A u \in Subs : Shown(u)' \subseteq Shown(u)
           \/ /\ \A d \in Calls : HeldBy(d)' \subseteq HeldBy(d)
              /\ \A u \in Subs : Shown(u)' \subseteq Shown(u) \cup {Head(air).n}
    PROVE  InOrder' /\ OneDestination'
<1> DEFINE f == Head(air)
<1>1. InOrder /\ OneDestination
  BY DEF IInv
<1>2. /\ f.n \in Nat /\ f.n <= arrived /\ Unread' \subseteq Unread
      /\ \A k \in Unread' : f.n < k
      /\ \A i, j \in DOMAIN air' : i < j => air'[i].n < air'[j].n
      /\ \A c \in Calls : \A n \in HeldBy(c) : n < f.n
      /\ \A u \in Subs : \A n \in Shown(u) : n < f.n
  BY AirReads
<1> HIDE DEF f
<1>3. PICK C \in SUBSET Calls, U \in SUBSET Subs :
        /\ \A c, d \in C : c = d
        /\ C = {} \/ U = {}
        /\ \A d \in Calls : HeldBy(d)' \subseteq HeldBy(d) \cup (IF d \in C THEN {f.n} ELSE {})
        /\ \A u \in Subs : Shown(u)' \subseteq Shown(u) \cup (IF u \in U THEN {f.n} ELSE {})
  <2>1. CASE /\ \E c \in Calls : \A d \in Calls :
                   HeldBy(d)' \subseteq HeldBy(d) \cup (IF d = c THEN {f.n} ELSE {})
             /\ \A u \in Subs : Shown(u)' \subseteq Shown(u)
    <3>1. PICK c \in Calls : \A d \in Calls :
                   HeldBy(d)' \subseteq HeldBy(d) \cup (IF d = c THEN {f.n} ELSE {})
      BY <2>1
    <3> WITNESS {c} \in SUBSET Calls, {} \in SUBSET Subs
    <3> QED BY <2>1, <3>1
  <2>2. CASE /\ \A d \in Calls : HeldBy(d)' \subseteq HeldBy(d)
             /\ \A u \in Subs : Shown(u)' \subseteq Shown(u) \cup {f.n}
    <3> WITNESS {} \in SUBSET Calls, Subs \in SUBSET Subs
    <3> QED BY <2>2
  <2> QED BY <2>1, <2>2 DEF f
<1>4. \A c \in Calls : f.n \notin HeldBy(c)
  BY <1>2
<1>5. \A u \in Subs : f.n \notin Shown(u)
  BY <1>2
<1>6. InOrder'
  <2>1. ASSUME NEW k \in Unread', NEW c \in Calls, NEW n \in HeldBy(c)' PROVE n < k
    BY <1>1, <1>2, <1>3 DEF InOrder
  <2>2. ASSUME NEW k \in Unread', NEW u \in Subs, NEW n \in Shown(u)' PROVE n < k
    BY <1>1, <1>2, <1>3 DEF InOrder
  <2>3. ASSUME NEW c \in Calls, NEW n \in HeldBy(c)' PROVE n <= arrived
    BY <1>1, <1>2, <1>3 DEF InOrder
  <2>4. ASSUME NEW u \in Subs, NEW n \in Shown(u)' PROVE n <= arrived
    BY <1>1, <1>2, <1>3 DEF InOrder
  <2>5. \A k \in Unread' : k <= arrived
    BY <1>1, <1>2 DEF InOrder
  <2> QED BY <1>2, <2>1, <2>2, <2>3, <2>4, <2>5 DEF InOrder
<1>7. OneDestination'
  <2>1. ASSUME NEW c \in Calls, NEW d \in Calls, c # d
        PROVE  HeldBy(c)' \cap HeldBy(d)' = {}
    <3>1. HeldBy(c) \cap HeldBy(d) = {}
      BY <1>1, <2>1 DEF OneDestination
    <3>2. ~(c \in C /\ d \in C)
      BY <1>3, <2>1
    <3> QED BY <1>3, <1>4, <3>1, <3>2
  <2>2. ASSUME NEW c \in Calls, NEW u \in Subs PROVE HeldBy(c)' \cap Shown(u)' = {}
    <3>1. HeldBy(c) \cap Shown(u) = {}
      BY <1>1 DEF OneDestination, Shown
    <3> QED BY <1>3, <1>4, <1>5, <3>1
  <2> QED BY <2>1, <2>2 DEF OneDestination, Shown
<1> QED BY <1>6, <1>7

\* A frame is read, and claimed by a waiter or offered to the subscribers.
LEMMA PumpReadsStep ==
    ASSUME IInv, PumpReads PROVE IInv'
<1> DEFINE f == Head(air)
           i == FirstMatch(f)
<1>1. /\ TypeOK /\ InOrder /\ Registered /\ Fresh /\ InHand /\ Ended
      /\ Subscribed /\ Attended /\ Claimed /\ OneDestination /\ ~panicked
  BY DEF IInv
<1>2. /\ pump = "running" /\ air # <<>> /\ air' = Tail(air)
      /\ arrived' = arrived /\ linkDown' = linkDown /\ sent' = sent
      /\ inMap' = inMap /\ idle' = idle /\ stop' = stop /\ cutShort' = cutShort
      /\ closed' = closed /\ deliver' = deliver /\ call' = call /\ reply' = reply
      /\ subs' = subs /\ sub' = sub /\ seen' = seen
  BY DEF PumpReads, lifeVars
<1>3. f \in Frame /\ air' \in Seq(Frame)
  BY <1>2, AirReads
<1>4. carried = [frame |-> NoFrame, for |-> Nobody] /\ ~closed
  BY <1>1, <1>2 DEF InHand, Ended
<1>5. CASE i = 0
  <2>1. /\ FanOut(f) /\ panicked' = (panicked \/ \E u \in subs : subch[u].closed)
        /\ pump' = pump /\ carried' = carried /\ waiters' = waiters
    BY <1>5 DEF PumpReads
  <2> HIDE DEF f, i
  <2>2. subch' \in [Subs -> Chan(SubCap)]
    BY <1>1, <1>3, <2>1, TypeFacts, TrySendIs DEF FanOut, TypeOK
  <2>3. ASSUME NEW u \in Subs
        PROVE  /\ subch'[u].closed = subch[u].closed
               /\ u \notin subs => subch'[u] = subch[u]
               /\ FramesOf(subch'[u]) \subseteq FramesOf(subch[u]) \cup {f.n}
    BY <1>3, <2>1, TypeFacts, TrySendIs DEF FanOut
  <2>4. TypeOK'
    BY <1>1, <1>2, <1>3, <2>1, <2>2 DEF TypeOK
  <2>5. ~panicked'
    BY <1>1, <2>1, TypeFacts DEF Subscribed
  <2>6. Registered' /\ Fresh' /\ Attended' /\ Ended'
    BY <1>1, <1>2, <2>1 DEF Registered, Fresh, Attended, Ended
  <2>7. InHand' /\ Claimed'
    BY <1>1, <1>2, <2>1 DEF InHand, Claimed, Matches
  <2>8. Subscribed'
    BY <1>1, <1>2, <2>3 DEF Subscribed
  <2>9. InOrder' /\ OneDestination'
    <3>1. \A c \in Calls : HeldBy(c)' \subseteq HeldBy(c)
      BY <1>2, <2>1 DEF HeldBy
    <3>2. \A u \in Subs : Shown(u)' \subseteq Shown(u) \cup {f.n}
      BY <1>2, <2>3 DEF Shown
    <3> QED BY <1>2, <3>1, <3>2, FrameGoes DEF f
  <2> QED BY <2>4, <2>5, <2>6, <2>7, <2>8, <2>9 DEF IInv
<1>6. CASE i # 0
  <2> DEFINE c == waiters[i]
  <2>1. /\ pump' = "sending" /\ carried' = [frame |-> f, for |-> c]
        /\ waiters' = RemoveAt(waiters, i) /\ subch' = subch /\ panicked' = panicked
    BY <1>6 DEF PumpReads, WithoutWaiter
  <2>2. i \in 1 .. Len(waiters) /\ Matches(c, f)
    BY <1>6, TypeFacts, FirstMatchIs
  <2> HIDE DEF f, i
  <2>3. c \in Range(waiters) /\ c \in Calls
    BY <2>2, TypeFacts, RangeIs
  <2>4. /\ waiters' \in Seq(Calls) /\ IsInjective(waiters')
        /\ Range(waiters') = Range(waiters) \ {c}
    BY <1>1, <2>1, <2>2, TypeFacts, RemoveAtOne DEF Registered
  <2> HIDE DEF c
  <2>5. TypeOK'
    BY <1>1, <1>2, <1>3, <2>1, <2>3, <2>4 DEF TypeOK
  <2>6. Registered'
    BY <1>1, <1>2, <2>4 DEF Registered
  <2>7. deliver[c] = NewChan /\ call[c] \notin {"new", "found"}
    BY <1>1, <2>3 DEF Registered
  <2>8. Fresh' /\ Attended'
    BY <1>1, <1>2, <1>4, <2>1, <2>4, <2>7, PumpAssumption DEF Fresh, Attended
  <2>9. InHand'
    BY <1>2, <1>3, <2>1, <2>2, <2>3, <2>4, <2>7 DEF InHand, Matches, c
  <2>10. Ended' /\ Subscribed'
    BY <1>1, <1>2, <1>4, <2>1 DEF Ended, Subscribed
  <2>11. Claimed'
    BY <1>1, <1>2 DEF Claimed, Matches
  <2>12. InOrder' /\ OneDestination'
    <3>1. \A d \in Calls :
            HeldBy(d)' \subseteq HeldBy(d) \cup (IF d = c THEN {f.n} ELSE {})
      BY <1>2, <2>1 DEF HeldBy
    <3>2. \A u \in Subs : Shown(u)' \subseteq Shown(u)
      BY <1>2, <2>1 DEF Shown
    <3> QED BY <1>2, <2>3, <3>1, <3>2, FrameGoes DEF f
  <2> QED BY <1>1, <2>1, <2>5, <2>6, <2>8, <2>9, <2>10, <2>11, <2>12 DEF IInv
<1> QED BY <1>5, <1>6

\* The frame in hand reaches its channel.
LEMMA PumpDeliversStep ==
    ASSUME IInv, PumpDelivers PROVE IInv'
<1> DEFINE c == carried.for
           f == carried.frame
           ch == TrySend(deliver[c], f, 1)
<1>1. /\ TypeOK /\ InOrder /\ Registered /\ Fresh /\ InHand /\ Ended
      /\ Subscribed /\ Attended /\ Claimed /\ OneDestination /\ ~panicked
  BY DEF IInv
<1>2. /\ pump = "sending" /\ pump' = "running"
      /\ deliver' = [deliver EXCEPT ![c] = ch]
      /\ panicked' = (panicked \/ deliver[c].closed)
      /\ carried' = [frame |-> NoFrame, for |-> Nobody]
      /\ air' = air /\ arrived' = arrived /\ linkDown' = linkDown /\ sent' = sent
      /\ inMap' = inMap /\ idle' = idle /\ stop' = stop /\ cutShort' = cutShort
      /\ closed' = closed /\ waiters' = waiters /\ call' = call /\ reply' = reply
      /\ subs' = subs /\ subch' = subch /\ sub' = sub /\ seen' = seen
  BY DEF PumpDelivers, connVars, lifeVars, subVars
<1>3. /\ f \in Frame /\ c \in Calls /\ c \notin Range(waiters)
      /\ deliver[c] = NewChan /\ Matches(c, f)
  BY <1>1, <1>2 DEF InHand
<1>4. /\ ch \in Chan(1) /\ FramesOf(ch) \subseteq {f.n} /\ ch.buf # <<>>
      /\ \A i \in DOMAIN ch.buf : ch.buf[i] = f
  <2>1. ch = TrySend(NewChan, f, 1)
    BY <1>3
  <2> HIDE DEF f, ch
  <2> QED BY <1>3, <2>1, FirstSendIs
<1>5. NewChan.closed = FALSE
  BY DEF NewChan
<1> HIDE DEF c, f, ch
<1>6. deliver'[c] = ch /\ \A d \in Calls : d # c => deliver'[d] = deliver[d]
  BY <1>1, <1>2, <1>3 DEF TypeOK
<1>7. TypeOK'
  <2>1. deliver' \in [Calls -> Chan(1)]
    BY <1>1, <1>2, <1>4 DEF TypeOK
  <2>2. carried' \in [frame : Frame \cup {NoFrame}, for : Calls \cup {Nobody}]
    BY <1>2
  <2>3. panicked' \in BOOLEAN
    BY <1>1, <1>2, <1>3, <1>5
  <2> QED BY <1>1, <1>2, <2>1, <2>2, <2>3 DEF TypeOK
<1>8. ~panicked'
  BY <1>1, <1>2, <1>3, <1>5
<1>9. Registered'
  BY <1>1, <1>2, <1>3, <1>6, TypeFacts DEF Registered
<1>10. Fresh'
  BY <1>1, <1>2, <1>6, PumpAssumption DEF Fresh, c
<1>11. Attended'
  BY <1>1, <1>2, <1>4, <1>6 DEF Attended, c
<1>12. InHand' /\ Ended' /\ Subscribed'
  BY <1>1, <1>2 DEF InHand, Ended, Subscribed
<1>13. Claimed'
  BY <1>1, <1>2, <1>3, <1>4, <1>6 DEF Claimed, Matches
<1>14. InOrder' /\ OneDestination'
  <2>1. ASSUME NEW d \in Calls PROVE HeldBy(d)' \subseteq HeldBy(d)
    <3>1. carried'.for # d
      BY <1>2, PumpAssumption
    <3>2. CASE d = c
      <4>1. f.n \in HeldBy(c)
        BY DEF HeldBy, c, f
      <4> QED BY <1>2, <1>4, <1>6, <3>1, <3>2, <4>1 DEF HeldBy
    <3>3. CASE d # c
      BY <1>2, <1>6, <3>1, <3>3 DEF HeldBy
    <3> QED BY <3>2, <3>3
  <2>2. \A u \in Subs : Shown(u)' \subseteq Shown(u)
    BY <1>2 DEF Shown
  <2> QED BY <1>2, <2>1, <2>2, FramesShrink
<1> QED BY <1>7, <1>8, <1>9, <1>10, <1>11, <1>12, <1>13, <1>14 DEF IInv

\* shutdownPump closes every channel that somebody still waits on.
LEMMA ShutdownStep ==
    ASSUME IInv, PumpShutsDown PROVE IInv'
<1>1. /\ TypeOK /\ InOrder /\ Registered /\ Fresh /\ InHand /\ Ended
      /\ Subscribed /\ Attended /\ Claimed /\ OneDestination /\ ~panicked
  BY DEF IInv
<1>2. /\ pump = "running" /\ pump' = "done" /\ closed' = TRUE
      /\ deliver' = [c \in Calls |-> IF c \in Range(waiters) THEN CloseChan(deliver[c])
                                                             ELSE deliver[c]]
      /\ subch' = [u \in Subs |-> IF u \in subs THEN CloseChan(subch[u]) ELSE subch[u]]
      /\ panicked' = (\/ panicked \/ (\E c \in Range(waiters) : deliver[c].closed)
                      \/ \E u \in subs : subch[u].closed)
      /\ waiters' = <<>> /\ subs' = {}
      /\ air' = air /\ arrived' = arrived /\ linkDown' = linkDown /\ sent' = sent
      /\ inMap' = inMap /\ idle' = idle /\ stop' = stop /\ cutShort' = cutShort
      /\ carried' = carried /\ call' = call /\ reply' = reply /\ sub' = sub /\ seen' = seen
  BY DEF PumpShutsDown, connVars, lifeVars
<1>3. NewChan.closed = FALSE
  BY DEF NewChan
<1>4. ~panicked'
  BY <1>1, <1>2, <1>3, TypeFacts DEF Registered, Subscribed
<1>5. /\ deliver' \in [Calls -> Chan(1)] /\ subch' \in [Subs -> Chan(SubCap)]
      /\ \A c \in Calls : /\ FramesOf(deliver'[c]) = FramesOf(deliver[c])
                          /\ deliver'[c].buf = deliver[c].buf
                          /\ c \in Range(waiters) => deliver'[c].closed
                          /\ c \notin Range(waiters) => deliver'[c] = deliver[c]
      /\ \A u \in Subs : /\ FramesOf(subch'[u]) = FramesOf(subch[u])
                         /\ u \in subs => subch'[u].closed
                         /\ u \notin subs => subch'[u] = subch[u]
  BY <1>2, TypeFacts, CloseIs
<1>6. <<>> \in Seq(Calls) /\ Range(<<>>) = {} /\ IsInjective(<<>>)
  <2>1. <<>> \in Seq(Calls) /\ DOMAIN <<>> = {}
    BY EmptySeq
  <2> QED BY <2>1 DEF Range, IsInjective
<1>7. TypeOK'
  BY <1>1, <1>2, <1>4, <1>5, <1>6 DEF TypeOK
<1>8. Registered' /\ Ended'
  BY <1>2, <1>6 DEF Registered, Ended
<1>9. carried = [frame |-> NoFrame, for |-> Nobody]
  BY <1>1, <1>2 DEF InHand
<1>10. InHand'
  BY <1>2, <1>9 DEF InHand
<1>11. Fresh'
  BY <1>1, <1>2, <1>5 DEF Fresh, Registered
<1>12. Attended'
  BY <1>1, <1>2, <1>5, <1>9, PumpAssumption DEF Attended
<1>13. Subscribed'
  BY <1>1, <1>2, <1>5 DEF Subscribed
<1>14. Claimed'
  BY <1>1, <1>2, <1>5 DEF Claimed, Matches
<1>15. InOrder' /\ OneDestination'
  <2>1. ASSUME NEW d \in Calls PROVE HeldBy(d)' \subseteq HeldBy(d)
    BY <1>2, <1>5 DEF HeldBy
  <2>2. \A u \in Subs : Shown(u)' \subseteq Shown(u)
    BY <1>2, <1>5 DEF Shown
  <2> QED BY <1>2, <2>1, <2>2, FramesShrink
<1> QED BY <1>4, <1>7, <1>8, <1>10, <1>11, <1>12, <1>13, <1>14, <1>15 DEF IInv

\* A subscriber comes, reads, or goes.
LEMMA SubscriberStep ==
    ASSUME IInv, NEW u \in Subs, SubscriberNext(u) PROVE IInv'
<1>1. TypeOK /\ Subscribed /\ Ended /\ ~panicked
  BY DEF IInv
<1>2. subch \in [Subs -> Chan(SubCap)] /\ subch[u] \in Chan(SubCap) /\ SubCap \in Nat
  BY <1>1, TypeFacts DEF TypeOK
<1>3. CASE SubscribeLooksUp(u) \/ SubscriberLeaves(u) \/ UnsubscribeLooksUp(u)
  <2>1. /\ UNCHANGED <<connVars, lifeVars, pumpVars, callVars, subs, subch, seen, panicked>>
        /\ \/ sub[u] = "new" /\ sub' = [sub EXCEPT ![u] = "found"]
           \/ sub[u] = "new" /\ sub' = [sub EXCEPT ![u] = "left"]
           \/ sub[u] = "attached" /\ sub' = [sub EXCEPT ![u] = "leaving"]
           \/ sub[u] = "leaving" /\ sub' = [sub EXCEPT ![u] = "unsub"]
           \/ sub[u] = "leaving" /\ sub' = [sub EXCEPT ![u] = "left"]
    BY <1>3 DEF SubscribeLooksUp, SubscriberLeaves, UnsubscribeLooksUp, SubMoves
  <2>2. TypeOK'
    BY <1>1, <2>1 DEF TypeOK, connVars, lifeVars, pumpVars, callVars
  <2>3. Subscribed'
    BY <1>1, <2>1 DEF Subscribed, TypeOK
  <2>4. \A v \in Subs : Shown(v)' \subseteq Shown(v)
    BY <2>1 DEF Shown
  <2> QED BY <1>1, <2>1, <2>2, <2>3, <2>4, CallsAlone DEF Ended, connVars
<1>4. CASE Subscribe(u)
  <2> DEFINE ch == [subch[u] EXCEPT !.closed = closed]
  <2>1. /\ UNCHANGED <<connVars, lifeVars, pumpVars, callVars, seen, panicked>>
        /\ sub[u] = "found" /\ sub' = [sub EXCEPT ![u] = "attached"]
        /\ subs' = IF closed THEN subs ELSE subs \cup {u}
        /\ subch' = [subch EXCEPT ![u] = ch]
    BY <1>2, <1>4 DEF Subscribe, SubMoves
  <2>2. subch[u] = NewChan /\ u \notin subs
    BY <1>1, <2>1 DEF Subscribed
  <2>3. ch \in Chan(SubCap) /\ ch.closed = closed /\ FramesOf(ch) = FramesOf(subch[u])
    <3>1. closed \in BOOLEAN
      BY <1>1 DEF TypeOK
    <3> QED BY <1>2, <3>1 DEF Chan, FramesOf
  <2> HIDE DEF ch
  <2>4. /\ subch'[u] = ch /\ sub'[u] = "attached"
        /\ \A v \in Subs : v # u => subch'[v] = subch[v] /\ sub'[v] = sub[v]
    BY <1>1, <1>2, <2>1 DEF TypeOK
  <2>5. TypeOK'
    BY <1>1, <1>2, <2>1, <2>3 DEF TypeOK, connVars, lifeVars, pumpVars, callVars
  <2>6. Subscribed'
    BY <1>1, <2>1, <2>3, <2>4 DEF Subscribed
  <2>7. \A v \in Subs : Shown(v)' \subseteq Shown(v)
    BY <2>1, <2>3, <2>4 DEF Shown
  <2> QED BY <1>1, <2>1, <2>5, <2>6, <2>7, CallsAlone DEF Ended, connVars
<1>5. CASE SubscriberReads(u)
  <2> DEFINE ch == Rest(subch[u])
             n == Head(subch[u].buf).n
  <2>1. /\ UNCHANGED <<connVars, lifeVars, pumpVars, callVars, subs, sub, panicked>>
        /\ sub[u] = "attached" /\ subch[u].buf # <<>>
        /\ seen' = [seen EXCEPT ![u] = @ \cup {n}]
        /\ subch' = [subch EXCEPT ![u] = ch]
    BY <1>2, <1>5 DEF SubscriberReads, Rest
  <2>2. /\ ch \in Chan(SubCap) /\ ch.closed = subch[u].closed
        /\ FramesOf(ch) \subseteq FramesOf(subch[u])
        /\ n \in FramesOf(subch[u]) /\ n \in Numbers
    BY <1>2, <2>1, ReceiveIs, ChanIs
  <2> HIDE DEF ch, n
  <2>3. /\ subch'[u] = ch /\ seen'[u] = seen[u] \cup {n}
        /\ \A v \in Subs : v # u => subch'[v] = subch[v] /\ seen'[v] = seen[v]
    BY <1>1, <1>2, <2>1 DEF TypeOK
  <2>4. TypeOK'
    <3>1. subch' \in [Subs -> Chan(SubCap)]
      BY <1>2, <2>1, <2>2
    <3>2. seen' \in [Subs -> SUBSET Numbers]
      BY <1>1, <2>1, <2>2 DEF TypeOK
    <3> QED BY <1>1, <2>1, <3>1, <3>2 DEF TypeOK, connVars, lifeVars, pumpVars, callVars
  <2>5. Subscribed'
    BY <1>1, <2>1, <2>2, <2>3 DEF Subscribed
  <2>6. ASSUME NEW v \in Subs PROVE Shown(v)' \subseteq Shown(v)
    <3>1. CASE v = u
      BY <2>2, <2>3, <3>1 DEF Shown
    <3>2. CASE v # u
      BY <2>3, <3>2 DEF Shown
    <3> QED BY <3>1, <3>2
  <2> QED BY <1>1, <2>1, <2>4, <2>5, <2>6, CallsAlone DEF Ended, connVars
<1>6. CASE Unsubscribe(u)
  <2>1. /\ UNCHANGED <<connVars, lifeVars, pumpVars, callVars, seen>>
        /\ sub[u] = "unsub" /\ sub' = [sub EXCEPT ![u] = "left"]
    BY <1>6 DEF Unsubscribe, SubMoves
  <2>2. /\ u \in subs => /\ subs' = subs \ {u}
                         /\ subch' = [subch EXCEPT ![u] = CloseChan(subch[u])]
                         /\ panicked' = (panicked \/ subch[u].closed)
        /\ u \notin subs => UNCHANGED <<subs, subch, panicked>>
    BY <1>2, <1>6 DEF Unsubscribe
  <2>3. CloseChan(subch[u]) \in Chan(SubCap)
        /\ FramesOf(CloseChan(subch[u])) = FramesOf(subch[u])
    BY <1>2, CloseIs
  <2>4. ~panicked'
    BY <1>1, <2>2 DEF Subscribed
  <2>5. /\ sub'[u] = "left" /\ u \notin subs' /\ subs' \subseteq subs
        /\ FramesOf(subch'[u]) = FramesOf(subch[u])
        /\ subch' \in [Subs -> Chan(SubCap)]
        /\ \A v \in Subs : v # u => subch'[v] = subch[v] /\ sub'[v] = sub[v]
                                    /\ (v \in subs' <=> v \in subs)
    <3>1. sub'[u] = "left" /\ \A v \in Subs : v # u => sub'[v] = sub[v]
      BY <1>1, <2>1 DEF TypeOK
    <3>2. CASE u \in subs
      BY <1>2, <2>2, <2>3, <3>1, <3>2
    <3>3. CASE u \notin subs
      BY <1>2, <2>2, <3>1, <3>3
    <3> QED BY <3>2, <3>3
  <2>6. TypeOK'
    <3>0. subch[u].closed \in BOOLEAN /\ panicked \in BOOLEAN /\ subs \subseteq Subs
      BY <1>1, <1>2, ChanIs DEF TypeOK
    <3>1. panicked' \in BOOLEAN /\ subs' \subseteq Subs
      BY <2>2, <2>5, <3>0
    <3>2. sub' \in [Subs -> {"new", "found", "attached", "leaving", "unsub", "left"}]
      BY <1>1, <2>1 DEF TypeOK
    <3> QED BY <1>1, <2>1, <2>5, <3>1, <3>2 DEF TypeOK, connVars, lifeVars, pumpVars, callVars
  <2>7. Subscribed'
    BY <1>1, <2>5 DEF Subscribed
  <2>8. \A v \in Subs : Shown(v)' \subseteq Shown(v)
    BY <2>1, <2>5 DEF Shown
  <2>9. closed => subs' = {}
    BY <1>1, <2>5 DEF Ended
  <2> QED BY <2>1, <2>4, <2>6, <2>7, <2>8, <2>9, CallsAlone DEF connVars
<1> QED BY <1>3, <1>4, <1>5, <1>6 DEF SubscriberNext

-----------------------------------------------------------------------------
(* The theorems.                                                           *)

LEMMA InitIInv == Init => IInv
<1> SUFFICES ASSUME Init PROVE IInv
  OBVIOUS
<1>1. /\ <<>> \in Seq(Calls) /\ <<>> \in Seq(Frame) /\ DOMAIN <<>> = {}
  BY EmptySeq
<1>2. /\ NewChan \in Chan(1) /\ NewChan \in Chan(SubCap)
      /\ FramesOf(NewChan) = {} /\ ~NewChan.closed /\ NewChan.buf = <<>>
  BY PumpAssumption, NewChanIs DEF NewChan
<1>3. \A c \in Calls : deliver[c] = NewChan /\ reply[c] = NoReply /\ call[c] = "new"
  BY DEF Init
<1>4. \A u \in Subs : subch[u] = NewChan /\ seen[u] = {} /\ sub[u] = "new"
  BY DEF Init
<1>5. NoReply \in [outcome : Outcome, frame : Frame \cup {NoFrame}]
      /\ NoReply.frame.n = 0 /\ NoReply.outcome = "none"
  BY DEF NoReply, Outcome, NoFrame
<1>6. \A c \in Calls : carried.for # c
  BY PumpAssumption DEF Init
<1>7. TypeOK
  <2>1. /\ {inMap, idle, stop, linkDown, closed, panicked, cutShort} \subseteq BOOLEAN
        /\ air \in Seq(Frame) /\ arrived \in 0 .. MaxFrames /\ sent \subseteq Calls
        /\ pump \in {"running", "sending", "done"} /\ waiters \in Seq(Calls)
        /\ subs \subseteq Subs
    <3>1. {inMap, idle, stop, linkDown, closed, panicked, cutShort} \subseteq BOOLEAN
      BY DEF Init
    <3>2. /\ air = <<>> /\ waiters = <<>> /\ arrived = 0 /\ sent = {} /\ subs = {}
          /\ pump = "running"
      BY DEF Init
    <3>3. 0 \in 0 .. MaxFrames
      BY PumpAssumption
    <3> QED BY <1>1, <3>1, <3>2, <3>3
  <2>2. carried \in [frame : Frame \cup {NoFrame}, for : Calls \cup {Nobody}]
    <3>1. carried = [frame |-> NoFrame, for |-> Nobody]
      BY DEF Init
    <3> QED BY <3>1
  <2>3. /\ deliver \in [Calls -> Chan(1)] /\ subch \in [Subs -> Chan(SubCap)]
        /\ reply \in [Calls -> [outcome : Outcome, frame : Frame \cup {NoFrame}]]
        /\ seen \in [Subs -> SUBSET Numbers]
    BY <1>2, <1>5 DEF Init
  <2>4. /\ call \in [Calls -> {"new", "found", "registered", "waiting", "giveup",
                               "touching", "returned"}]
        /\ sub \in [Subs -> {"new", "found", "attached", "leaving", "unsub", "left"}]
    BY DEF Init
  <2> QED BY <2>1, <2>2, <2>3, <2>4 DEF TypeOK
<1>8. \A c \in Calls : HeldBy(c) = {}
  BY <1>2, <1>3, <1>5, <1>6 DEF HeldBy
<1>9. \A u \in Subs : Shown(u) = {}
  BY <1>2, <1>4 DEF Shown
<1>10. air = <<>> /\ DOMAIN air = {} /\ Unread = {}
  BY <1>1 DEF Init, Unread
<1>11. InOrder /\ OneDestination
  BY <1>8, <1>9, <1>10 DEF InOrder, OneDestination, Shown
<1>12. Registered
  BY <1>1 DEF Init, Registered, Range, IsInjective
<1>13. Fresh /\ InHand /\ Ended /\ Attended
  BY <1>3, <1>6 DEF Init, Fresh, InHand, Ended, Attended
<1>14. Subscribed
  BY <1>4 DEF Init, Subscribed
<1>15. Claimed
  BY <1>1, <1>2, <1>3, <1>5 DEF Claimed
<1> QED BY <1>7, <1>11, <1>12, <1>13, <1>14, <1>15 DEF Init, IInv

LEMMA NextIInv == IInv /\ [Next]_vars => IInv'
<1> SUFFICES ASSUME IInv, [Next]_vars PROVE IInv'
  OBVIOUS
<1>1. CASE UNCHANGED vars
  <2>1. UNCHANGED <<air, arrived, sent, linkDown, inMap, idle, stop, cutShort,
                    waiters, deliver, call, reply, pumpVars, subVars, panicked>>
    BY <1>1 DEF vars, connVars, lifeVars, callVars
  <2>2. TypeOK'
    BY <2>1 DEF IInv, TypeOK, pumpVars, subVars
  <2> QED BY <2>1, <2>2, Quiet
<1>2. CASE \E to \in Calls \cup {Nobody} : CarSends(to)
  BY <1>2, CarSendsStep
<1>3. CASE PumpNext
  BY <1>3, PumpReadsStep, PumpDeliversStep, ShutdownStep DEF PumpNext
<1>4. CASE \E c \in Calls : ExchangeRuns(c) \/ ExchangeGivesUp(c)
  BY <1>4, ExchangeQuietStep, RegisterStep, ReceiveStep, UnregisterStep DEF ExchangeRuns
<1>5. CASE \E u \in Subs : SubscriberNext(u)
  BY <1>5, SubscriberStep
<1>6. CASE LinkDrops \/ TTLPasses \/ Reap \/ CloseSession \/ StopPump
  BY <1>6, AroundStep
<1> QED BY <1>1, <1>2, <1>3, <1>4, <1>5, <1>6 DEF Next

\* The routing invariant: the order of the frames, the state of every channel
\* and who still owes whom an answer, at every step of pump, calls,
\* subscribers, link and reaper.
THEOREM RoutingInvariant == Spec => []IInv
  BY InitIInv, NextIInv, PTL DEF Spec

\* Every variable of the session keeps its type; no channel overflows.
THEOREM TypeCorrect == Spec => []TypeOK
<1>1. IInv => TypeOK
  BY DEF IInv
<1> QED BY <1>1, RoutingInvariant, PTL

\* routeFrame and shutdownPump never send on or close a closed channel, and
\* the matched waiter's channel always has room for its reply.
THEOREM DeliveriesSucceed == Spec => []DeliveryNeverFails
<1>1. IInv => DeliveryNeverFails
  BY DEF IInv, InHand, DeliveryNeverFails
<1> QED BY <1>1, RoutingInvariant, PTL

\* Exchange never returns the reply to somebody else's request.
THEOREM RepliesAreRight == Spec => []RightReply
<1>1. IInv => RightReply
  BY DEF IInv, Claimed, Matches, RightReply
<1> QED BY <1>1, RoutingInvariant, PTL

\* Every incoming frame is routed to at most one destination (runPump).
THEOREM OneDestinationEach == Spec => []OneDestination
<1>1. IInv => OneDestination
  BY DEF IInv
<1> QED BY <1>1, RoutingInvariant, PTL

\* Once the pump is done nobody's select can block: shutdownPump has closed
\* every channel that will get no frame.
THEOREM NobodyIsLeftHanging == Spec => []NobodyHangs
<1>1. IInv => NobodyHangs
  <2> SUFFICES ASSUME IInv, pump = "done" PROVE NobodyHangs
    BY DEF NobodyHangs
  <2>1. waiters = <<>> /\ subs = {} /\ carried.for = Nobody
    BY DEF IInv, Ended, InHand
  <2>2. Range(waiters) = {}
    BY <2>1, EmptySeq DEF Range
  <2>3. \A c \in Calls : call[c] = "waiting" => deliver[c].closed \/ deliver[c].buf # <<>>
    BY <2>1, <2>2, PumpAssumption DEF IInv, Attended
  <2>4. \A u \in Subs : sub[u] = "attached" => subch[u].closed
    BY <2>1 DEF IInv, Subscribed
  <2> QED BY <2>3, <2>4 DEF NobodyHangs
<1> QED BY <1>1, RoutingInvariant, PTL
=============================================================================
