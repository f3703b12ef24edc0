--------------------------- MODULE BleSessionProofs ---------------------------
(***************************************************************************)
(* Proofs about BleSession for any sets of requests and tokens, finite or  *)
(* not: type correctness, the accounting of bleMu, the take-over protocol  *)
(* and the sweep of a removed token.                                       *)
(***************************************************************************)
EXTENDS BleSession, TLAPS

(* The inductive invariants, one per theorem below, each on top of the     *)
(* previous ones.                                                          *)

\* A session exists only once its Open is past its critical section, so an
\* Open and its session never hold bleMu twice.
SessionAfterOpen ==
    \A o \in Opens : sess[o] # "none" => pc[o] \in {"ending", "done"}

\* Exactly who has a connection to the car.
LinksAccounted ==
    /\ \A o \in Opens :
         o \in links <=> \/ pc[o] \in {"connected", "backout"}
                         \/ sess[o] \in {"live", "idle", "removed", "stopped"}
    /\ Pairing \in links <=> pair = "connected"

RadioInv == SessionAfterOpen /\ RadioAccounted /\ LinksAccounted

BeforeRegister == {"begun", "closing", "acquire", "lockwait", "scan",
                   "connected"}
InFlight == BeforeRegister \cup {"backout", "unlock", "ending"}

\* beginOpen's numbers: unique, and never ahead of s.openSeq.
SeqsDistinct ==
    /\ \A o \in Opens : seq[o] <= openSeq
    /\ \A o \in Opens : pc[o] \in InFlight => seq[o] # 0
    /\ \A o, q \in Opens : seq[o] = seq[q] /\ seq[o] # 0 => o = q

\* What the newest Open has not closed yet is still in its snapshot.
NewestIsClearing ==
    \A o \in Opens :
        pc[o] = "closing" /\ seq[o] = openSeq => sessions \subseteq todo[o]

TakeoverInv == SeqsDistinct /\ NewestIsClearing /\ NewestFindsNoSession

\* s.pendingCancel belongs to the newest Open for as long as it is in flight.
NewestIsPending ==
    \A o \in Opens : pc[o] \in InFlight /\ seq[o] = openSeq => pending = o

\* An Open the sweep found is superseded, or its session is still to close.
DoomedAccounted ==
    \A o \in doomed :
        /\ owner[o] \in Tokens
        /\ removal[owner[o]] \in {"sweeping", "returned"}
        /\ pc[o] \notin {"idle", "authorized"}
        /\ pc[o] \in BeforeRegister => seq[o] # openSeq
        /\ InMap(o) => /\ removal[owner[o]] = "sweeping"
                       /\ o \in todo[owner[o]]

SweepInv == NewestIsPending /\ DoomedAccounted

-----------------------------------------------------------------------------
USE ConstantsAssumption
USE DEF openVars, svcVars, sessVars, radioVars, pairVars, closeVars,
        removalVars, vars, Closers

(* Every step keeps every variable in its type. *)
LEMMA TypeStep ==
    ASSUME TypeOK, [Next]_vars
    PROVE  TypeOK'
<1>. USE DEF TypeOK, OpenPC, SessionState, PairPC, RemovalPC
<1>0. CASE UNCHANGED vars
  BY <1>0
<1>1. ASSUME NEW o \in Opens, NEW t \in Tokens, Authorize(o, t) PROVE TypeOK'
  BY <1>1 DEF Authorize
<1>2. ASSUME NEW o \in Opens, OpenWithoutVIN(o) PROVE TypeOK'
  BY <1>2 DEF OpenWithoutVIN, Goto
<1>3. ASSUME NEW o \in Opens, BeginOpen(o) PROVE TypeOK'
  BY <1>3 DEF BeginOpen, Goto, CancelPending
<1>4. ASSUME NEW o \in Opens, PreemptSnapshot(o) PROVE TypeOK'
  BY <1>4 DEF PreemptSnapshot, Goto, sessions
<1>5. ASSUME NEW o \in Opens, PreemptDone(o) PROVE TypeOK'
  BY <1>5 DEF PreemptDone, Goto
<1>6. ASSUME NEW o \in Opens, Acquire(o) PROVE TypeOK'
  BY <1>6 DEF Acquire, Goto
<1>7. ASSUME NEW o \in Opens, TakeLock(o) PROVE TypeOK'
  BY <1>7 DEF TakeLock, Goto, LockBleMu
<1>8. ASSUME NEW o \in Opens, LockGivesUp(o) PROVE TypeOK'
  BY <1>8 DEF LockGivesUp, Goto
<1>9. ASSUME NEW o \in Opens, ScanAndConnect(o) PROVE TypeOK'
  BY <1>9 DEF ScanAndConnect, Goto
<1>10. ASSUME NEW o \in Opens, NoSessionId(o) PROVE TypeOK'
  BY <1>10 DEF NoSessionId, Goto
<1>11. ASSUME NEW o \in Opens, Register(o) PROVE TypeOK'
  BY <1>11 DEF Register, Goto, StillNewest
<1>12. ASSUME NEW o \in Opens, BackoutDisconnect(o) PROVE TypeOK'
  BY <1>12 DEF BackoutDisconnect, Goto
<1>13. ASSUME NEW o \in Opens, OpenUnlock(o) PROVE TypeOK'
  BY <1>13 DEF OpenUnlock, Goto, UnlockBleMu
<1>14. ASSUME NEW o \in Opens, EndOpen(o) PROVE TypeOK'
  BY <1>14 DEF EndOpen, Goto
<1>15. ASSUME NEW o \in Opens, ContextEnds(o) PROVE TypeOK'
  BY <1>15 DEF ContextEnds
<1>16. ASSUME NEW p \in Closers, NEW s \in Opens, CloseOne(p, s) PROVE TypeOK'
  BY <1>16 DEF CloseOne
<1>17. ASSUME NEW p \in Closers, CloseReturns(p) PROVE TypeOK'
  BY <1>17 DEF CloseReturns
<1>18. ASSUME NEW s \in Opens, ClientClose(s) PROVE TypeOK'
  BY <1>18 DEF ClientClose, SessionStep
<1>19. ASSUME NEW s \in Opens, StopPump(s) PROVE TypeOK'
  BY <1>19 DEF StopPump, SessionStep
<1>20. ASSUME NEW s \in Opens, ReleaseConn(s) PROVE TypeOK'
  BY <1>20 DEF ReleaseConn, SessionStep
<1>21. ASSUME NEW s \in Opens, ReleaseLock(s) PROVE TypeOK'
  BY <1>21 DEF ReleaseLock, UnlockBleMu, SessionStep
<1>22. ASSUME NEW s \in Opens, TTLPasses(s) PROVE TypeOK'
  BY <1>22 DEF TTLPasses, SessionStep
<1>23. ASSUME NEW s \in Opens, Touch(s) PROVE TypeOK'
  BY <1>23 DEF Touch, SessionStep
<1>24. ASSUME NEW s \in Opens, Reap(s) PROVE TypeOK'
  BY <1>24 DEF Reap, SessionStep
<1>25. ASSUME NEW s \in Opens, ClientGone(s) PROVE TypeOK'
  BY <1>25 DEF ClientGone
<1>26. ASSUME NEW t \in Tokens, DeleteToken(t) PROVE TypeOK'
  BY <1>26 DEF DeleteToken
<1>27. ASSUME NEW t \in Tokens, Sweep(t) PROVE TypeOK'
  BY <1>27 DEF Sweep, CancelPending, sessions
<1>28. ASSUME NEW t \in Tokens, RemovalReturns(t) PROVE TypeOK'
  BY <1>28 DEF RemovalReturns
<1>29. ASSUME PairRequest PROVE TypeOK'
  BY <1>29 DEF PairRequest, PairStep
<1>30. ASSUME PairAcquire PROVE TypeOK'
  BY <1>30 DEF PairAcquire, PairStep
<1>31. ASSUME PairTakeLock PROVE TypeOK'
  BY <1>31 DEF PairTakeLock, LockBleMu, PairStep
<1>32. ASSUME PairLockGivesUp PROVE TypeOK'
  BY <1>32 DEF PairLockGivesUp, PairStep
<1>33. ASSUME PairScanAndConnect PROVE TypeOK'
  BY <1>33 DEF PairScanAndConnect, PairStep
<1>34. ASSUME PairDisconnect PROVE TypeOK'
  BY <1>34 DEF PairDisconnect, PairStep
<1>35. ASSUME PairUnlock PROVE TypeOK'
  BY <1>35 DEF PairUnlock, UnlockBleMu, PairStep
<1>36. ASSUME PairContextEnds PROVE TypeOK'
  BY <1>36 DEF PairContextEnds
<1>. QED
  BY <1>0, <1>1, <1>2, <1>3, <1>4, <1>5, <1>6, <1>7, <1>8, <1>9, <1>10, <1>11,
     <1>12, <1>13, <1>14, <1>15, <1>16, <1>17, <1>18, <1>19, <1>20, <1>21,
     <1>22, <1>23, <1>24, <1>25, <1>26, <1>27, <1>28, <1>29, <1>30, <1>31,
     <1>32, <1>33, <1>34, <1>35, <1>36
  DEF Next, OpenNext, OpenSteps, CloserNext, SessionNext, TeardownNext,
      RemovalNext, PairNext, PairHolding

(* Type correctness of the service, the lock and everyone around them.    *)
THEOREM TypeCorrect == Spec => []TypeOK
<1>1. ASSUME Init PROVE TypeOK
  <2>. USE DEF Init, OpenPC, SessionState, PairPC, RemovalPC
  <2>1. todo \in [Closers -> SUBSET Opens]
    BY <1>1
  <2>2. /\ victim \in [Closers -> Opens \cup {NoOne}]
        /\ removal \in [Tokens -> RemovalPC]
    BY <1>1
  <2>3. /\ pc \in [Opens -> OpenPC]
        /\ owner \in [Opens -> Tokens \cup {NoOne}]
        /\ seq \in [Opens -> Nat]
        /\ sess \in [Opens -> SessionState]
    BY <1>1
  <2>. QED
    BY <1>1, <2>1, <2>2, <2>3 DEF TypeOK
<1>2. TypeOK /\ [Next]_vars => TypeOK'
  BY TypeStep
<1>. QED
  BY <1>1, <1>2, PTL DEF Spec

-----------------------------------------------------------------------------
(* bleMu changes hands only through Lock and Unlock: the slot goes from   *)
(* nobody to the one who takes it, from an Open to the session it         *)
(* registers, and back to nobody when the one holder unlocks.             *)
LEMMA RadioStep ==
    ASSUME TypeOK, TypeOK', RadioInv, [Next]_vars
    PROVE  RadioInv'
<1>. USE DEF TypeOK, RadioInv, RadioAccounted, LinksAccounted,
           SessionAfterOpen, OpenHolds, PairHolds, InMap
<1>0. CASE UNCHANGED vars
  BY <1>0
<1>1. ASSUME NEW o \in Opens, NEW t \in Tokens, Authorize(o, t)
      PROVE  RadioInv'
  BY <1>1 DEF Authorize
<1>2. ASSUME NEW o \in Opens, OpenWithoutVIN(o) PROVE RadioInv'
  BY <1>2 DEF OpenWithoutVIN, Goto
<1>3. ASSUME NEW o \in Opens, BeginOpen(o) PROVE RadioInv'
  BY <1>3 DEF BeginOpen, Goto, CancelPending
<1>4. ASSUME NEW o \in Opens, PreemptSnapshot(o) PROVE RadioInv'
  BY <1>4 DEF PreemptSnapshot, Goto
<1>5. ASSUME NEW o \in Opens, PreemptDone(o) PROVE RadioInv'
  BY <1>5 DEF PreemptDone, Goto
<1>6. ASSUME NEW o \in Opens, Acquire(o) PROVE RadioInv'
  BY <1>6 DEF Acquire, Goto
<1>7. ASSUME NEW o \in Opens, TakeLock(o) PROVE RadioInv'
  <2>1. ~locked /\ \A q \in Opens : ~OpenHolds(q)
    BY <1>7 DEF TakeLock, Goto, LockBleMu
  <2>2. SessionAfterOpen' /\ LinksAccounted'
    BY <1>7 DEF TakeLock, Goto, LockBleMu
  <2>. QED
    BY <1>7, <2>1, <2>2 DEF TakeLock, Goto, LockBleMu
<1>8. ASSUME NEW o \in Opens, LockGivesUp(o) PROVE RadioInv'
  BY <1>8 DEF LockGivesUp, Goto
<1>9. ASSUME NEW o \in Opens, ScanAndConnect(o) PROVE RadioInv'
  BY <1>9 DEF ScanAndConnect, Goto
<1>10. ASSUME NEW o \in Opens, NoSessionId(o) PROVE RadioInv'
  BY <1>10 DEF NoSessionId, Goto
<1>11. ASSUME NEW o \in Opens, Register(o) PROVE RadioInv'
  <2>1. OpenHolds(o)' /\ \A q \in Opens : OpenHolds(q)' <=> OpenHolds(q)
    BY <1>11 DEF Register, Goto, StillNewest
  <2>2. SessionAfterOpen' /\ LinksAccounted'
    BY <1>11 DEF Register, Goto, StillNewest
  <2>. QED
    BY <1>11, <2>1, <2>2 DEF Register, Goto, StillNewest
<1>12. ASSUME NEW o \in Opens, BackoutDisconnect(o) PROVE RadioInv'
  BY <1>12 DEF BackoutDisconnect, Goto
<1>13. ASSUME NEW o \in Opens, OpenUnlock(o) PROVE RadioInv'
  <2>1. locked /\ OpenHolds(o) /\ ~OpenHolds(o)'
    BY <1>13 DEF OpenUnlock, Goto, UnlockBleMu
  <2>2. \A q \in Opens : ~OpenHolds(q)'
    BY <1>13, <2>1 DEF OpenUnlock, Goto, UnlockBleMu
  <2>3. SessionAfterOpen' /\ LinksAccounted'
    BY <1>13 DEF OpenUnlock, Goto, UnlockBleMu
  <2>. QED
    BY <1>13, <2>1, <2>2, <2>3 DEF OpenUnlock, Goto, UnlockBleMu
<1>14. ASSUME NEW o \in Opens, EndOpen(o) PROVE RadioInv'
  BY <1>14 DEF EndOpen, Goto
<1>15. ASSUME NEW o \in Opens, ContextEnds(o) PROVE RadioInv'
  BY <1>15 DEF ContextEnds
<1>16. ASSUME NEW p \in Closers, NEW s \in Opens, CloseOne(p, s)
      PROVE  RadioInv'
  BY <1>16 DEF CloseOne
<1>17. ASSUME NEW p \in Closers, CloseReturns(p) PROVE RadioInv'
  BY <1>17 DEF CloseReturns
<1>18. ASSUME NEW s \in Opens, ClientClose(s) PROVE RadioInv'
  BY <1>18 DEF ClientClose, SessionStep
<1>19. ASSUME NEW s \in Opens, StopPump(s) PROVE RadioInv'
  BY <1>19 DEF StopPump, SessionStep
<1>20. ASSUME NEW s \in Opens, ReleaseConn(s) PROVE RadioInv'
  BY <1>20 DEF ReleaseConn, SessionStep
<1>21. ASSUME NEW s \in Opens, ReleaseLock(s) PROVE RadioInv'
  <2>1. locked /\ OpenHolds(s) /\ ~OpenHolds(s)'
    BY <1>21 DEF ReleaseLock, UnlockBleMu, SessionStep
  <2>2. \A q \in Opens : ~OpenHolds(q)'
    BY <1>21, <2>1 DEF ReleaseLock, UnlockBleMu, SessionStep
  <2>3. SessionAfterOpen' /\ LinksAccounted'
    BY <1>21 DEF ReleaseLock, UnlockBleMu, SessionStep
  <2>. QED
    BY <1>21, <2>1, <2>2, <2>3 DEF ReleaseLock, UnlockBleMu, SessionStep
<1>22. ASSUME NEW s \in Opens, TTLPasses(s) PROVE RadioInv'
  BY <1>22 DEF TTLPasses, SessionStep
<1>23. ASSUME NEW s \in Opens, Touch(s) PROVE RadioInv'
  BY <1>23 DEF Touch, SessionStep
<1>24. ASSUME NEW s \in Opens, Reap(s) PROVE RadioInv'
  BY <1>24 DEF Reap, SessionStep
<1>25. ASSUME NEW s \in Opens, ClientGone(s) PROVE RadioInv'
  BY <1>25 DEF ClientGone
<1>26. ASSUME NEW t \in Tokens, DeleteToken(t) PROVE RadioInv'
  BY <1>26 DEF DeleteToken
<1>27. ASSUME NEW t \in Tokens, Sweep(t) PROVE RadioInv'
  BY <1>27 DEF Sweep, CancelPending
<1>28. ASSUME NEW t \in Tokens, RemovalReturns(t) PROVE RadioInv'
  BY <1>28 DEF RemovalReturns
<1>29. ASSUME PairRequest PROVE RadioInv'
  BY <1>29 DEF PairRequest, PairStep
<1>30. ASSUME PairAcquire PROVE RadioInv'
  BY <1>30 DEF PairAcquire, PairStep
<1>31. ASSUME PairTakeLock PROVE RadioInv'
  BY <1>31 DEF PairTakeLock, LockBleMu, PairStep
<1>32. ASSUME PairLockGivesUp PROVE RadioInv'
  BY <1>32 DEF PairLockGivesUp, PairStep
<1>33. ASSUME PairScanAndConnect PROVE RadioInv'
  BY <1>33 DEF PairScanAndConnect, PairStep
<1>34. ASSUME PairDisconnect PROVE RadioInv'
  BY <1>34 DEF PairDisconnect, PairStep
<1>35. ASSUME PairUnlock PROVE RadioInv'
  BY <1>35 DEF PairUnlock, UnlockBleMu, PairStep
<1>36. ASSUME PairContextEnds PROVE RadioInv'
  BY <1>36 DEF PairContextEnds
<1>. QED
  BY <1>0, <1>1, <1>2, <1>3, <1>4, <1>5, <1>6, <1>7, <1>8, <1>9, <1>10, <1>11,
     <1>12, <1>13, <1>14, <1>15, <1>16, <1>17, <1>18, <1>19, <1>20, <1>21,
     <1>22, <1>23, <1>24, <1>25, <1>26, <1>27, <1>28, <1>29, <1>30, <1>31,
     <1>32, <1>33, <1>34, <1>35, <1>36
  DEF Next, OpenNext, OpenSteps, CloserNext, SessionNext, TeardownNext,
      RemovalNext, PairNext, PairHolding

(* The invariant behind the next three theorems.                          *)
LEMMA RadioInvariant == Spec => []RadioInv
<1>1. Init => RadioInv
  BY DEF Init, RadioInv, RadioAccounted, LinksAccounted, SessionAfterOpen,
         OpenHolds, PairHolds
<1>2. TypeOK /\ TypeOK' /\ RadioInv /\ [Next]_vars => RadioInv'
  BY RadioStep
<1>. QED
  BY <1>1, <1>2, TypeCorrect, PTL DEF Spec

(* bleLock is never leaked, never shared and never unlocked twice: its    *)
(* slot is full exactly when one Open, one session or the pairing request *)
(* owes it an Unlock, so bleLock.Unlock never panics.                     *)
THEOREM RadioIsAccounted == Spec => []RadioAccounted
<1>1. RadioInv => RadioAccounted
  BY DEF RadioInv
<1>. QED
  BY <1>1, RadioInvariant, PTL

(* At most one BLE connection to the car, and only under bleMu.           *)
THEOREM OneLinkAtATime == Spec => []OneLink
<1>1. ASSUME TypeOK, RadioInv PROVE OneLink
  <2>. USE DEF TypeOK, RadioInv, RadioAccounted, LinksAccounted, OpenHolds,
               PairHolds
  <2>1. \A o \in Opens : o \in links => OpenHolds(o)
    BY <1>1
  <2>2. Pairing \in links => PairHolds
    BY <1>1
  <2>. QED
    BY <1>1, <2>1, <2>2 DEF OneLink
<1>. QED
  BY <1>1, TypeCorrect, RadioInvariant, PTL

(* The map s.sessions never has two entries, so CurrentSession's "the"    *)
(* session is well defined.                                               *)
THEOREM OneSessionAtATime == Spec => []AtMostOneSession
<1>1. RadioInv => AtMostOneSession
  BY DEF RadioInv, RadioAccounted, AtMostOneSession, sessions, InMap,
         OpenHolds
<1>. QED
  BY <1>1, RadioInvariant, PTL

-----------------------------------------------------------------------------
(* Only the newest Open can add a session, and by then its own snapshot   *)
(* is closed; a later beginOpen makes every older Open not the newest.    *)
LEMMA TakeoverStep ==
    ASSUME TypeOK, TypeOK', TakeoverInv, [Next]_vars
    PROVE  TakeoverInv'
<1>. USE DEF TypeOK, TakeoverInv, SeqsDistinct, NewestIsClearing,
           NewestFindsNoSession, sessions, InMap, InFlight, BeforeRegister
<1>0. CASE UNCHANGED vars
  BY <1>0
<1>1. ASSUME NEW o \in Opens, NEW t \in Tokens, Authorize(o, t)
      PROVE  TakeoverInv'
  BY <1>1 DEF Authorize
<1>2. ASSUME NEW o \in Opens, OpenWithoutVIN(o) PROVE TakeoverInv'
  BY <1>2 DEF OpenWithoutVIN, Goto
<1>3. ASSUME NEW o \in Opens, BeginOpen(o) PROVE TakeoverInv'
  <2>1. openSeq' = openSeq + 1 /\ \A q \in Opens : q # o => seq'[q] < openSeq'
    BY <1>3 DEF BeginOpen, Goto, CancelPending
  <2>2. SeqsDistinct'
    BY <1>3, <2>1 DEF BeginOpen, Goto, CancelPending
  <2>3. NewestIsClearing' /\ NewestFindsNoSession'
    BY <1>3, <2>1 DEF BeginOpen, Goto, CancelPending
  <2>. QED
    BY <2>2, <2>3
<1>4. ASSUME NEW o \in Opens, PreemptSnapshot(o) PROVE TakeoverInv'
  BY <1>4 DEF PreemptSnapshot, Goto
<1>5. ASSUME NEW o \in Opens, PreemptDone(o) PROVE TakeoverInv'
  <2>1. seq[o] = openSeq => sessions = {}
    BY <1>5 DEF PreemptDone, Goto
  <2>. QED
    BY <1>5, <2>1 DEF PreemptDone, Goto
<1>6. ASSUME NEW o \in Opens, Acquire(o) PROVE TakeoverInv'
  BY <1>6 DEF Acquire, Goto
<1>7. ASSUME NEW o \in Opens, TakeLock(o) PROVE TakeoverInv'
  BY <1>7 DEF TakeLock, Goto, LockBleMu
<1>8. ASSUME NEW o \in Opens, LockGivesUp(o) PROVE TakeoverInv'
  BY <1>8 DEF LockGivesUp, Goto
<1>9. ASSUME NEW o \in Opens, ScanAndConnect(o) PROVE TakeoverInv'
  BY <1>9 DEF ScanAndConnect, Goto
<1>10. ASSUME NEW o \in Opens, NoSessionId(o) PROVE TakeoverInv'
  BY <1>10 DEF NoSessionId, Goto
<1>11. ASSUME NEW o \in Opens, Register(o) PROVE TakeoverInv'
  <2>1. CASE StillNewest(o)
    <3>1. \A q \in Opens : pc[q] \in InFlight /\ seq[q] = openSeq => q = o
      BY <1>11, <2>1 DEF Register, Goto, StillNewest
    <3>. QED
      BY <1>11, <2>1, <3>1 DEF Register, Goto, StillNewest
  <2>2. CASE ~StillNewest(o)
    BY <1>11, <2>2 DEF Register, Goto, StillNewest
  <2>. QED
    BY <2>1, <2>2
<1>12. ASSUME NEW o \in Opens, BackoutDisconnect(o) PROVE TakeoverInv'
  BY <1>12 DEF BackoutDisconnect, Goto
<1>13. ASSUME NEW o \in Opens, OpenUnlock(o) PROVE TakeoverInv'
  BY <1>13 DEF OpenUnlock, Goto, UnlockBleMu
<1>14. ASSUME NEW o \in Opens, EndOpen(o) PROVE TakeoverInv'
  BY <1>14 DEF EndOpen, Goto
<1>15. ASSUME NEW o \in Opens, ContextEnds(o) PROVE TakeoverInv'
  BY <1>15 DEF ContextEnds
<1>16. ASSUME NEW p \in Closers, NEW s \in Opens, CloseOne(p, s)
      PROVE  TakeoverInv'
  <2>1. SeqsDistinct'
    BY <1>16 DEF CloseOne
  <2>2. sessions' = sessions \ {s} \/ (s \notin sessions /\ sessions' = sessions)
    BY <1>16 DEF CloseOne
  <2>3. NewestIsClearing' /\ NewestFindsNoSession'
    BY <1>16, <2>2 DEF CloseOne
  <2>. QED
    BY <2>1, <2>3
<1>17. ASSUME NEW p \in Closers, CloseReturns(p) PROVE TakeoverInv'
  BY <1>17 DEF CloseReturns
<1>18. ASSUME NEW s \in Opens, ClientClose(s) PROVE TakeoverInv'
  BY <1>18 DEF ClientClose, SessionStep
<1>19. ASSUME NEW s \in Opens, StopPump(s) PROVE TakeoverInv'
  BY <1>19 DEF StopPump, SessionStep
<1>20. ASSUME NEW s \in Opens, ReleaseConn(s) PROVE TakeoverInv'
  BY <1>20 DEF ReleaseConn, SessionStep
<1>21. ASSUME NEW s \in Opens, ReleaseLock(s) PROVE TakeoverInv'
  BY <1>21 DEF ReleaseLock, UnlockBleMu, SessionStep
<1>22. ASSUME NEW s \in Opens, TTLPasses(s) PROVE TakeoverInv'
  BY <1>22 DEF TTLPasses, SessionStep
<1>23. ASSUME NEW s \in Opens, Touch(s) PROVE TakeoverInv'
  BY <1>23 DEF Touch, SessionStep
<1>24. ASSUME NEW s \in Opens, Reap(s) PROVE TakeoverInv'
  BY <1>24 DEF Reap, SessionStep
<1>25. ASSUME NEW s \in Opens, ClientGone(s) PROVE TakeoverInv'
  BY <1>25 DEF ClientGone
<1>26. ASSUME NEW t \in Tokens, DeleteToken(t) PROVE TakeoverInv'
  BY <1>26 DEF DeleteToken
<1>27. ASSUME NEW t \in Tokens, Sweep(t) PROVE TakeoverInv'
  BY <1>27 DEF Sweep, CancelPending
<1>28. ASSUME NEW t \in Tokens, RemovalReturns(t) PROVE TakeoverInv'
  BY <1>28 DEF RemovalReturns
<1>29. ASSUME PairRequest PROVE TakeoverInv'
  BY <1>29 DEF PairRequest, PairStep
<1>30. ASSUME PairAcquire PROVE TakeoverInv'
  BY <1>30 DEF PairAcquire, PairStep
<1>31. ASSUME PairTakeLock PROVE TakeoverInv'
  BY <1>31 DEF PairTakeLock, LockBleMu, PairStep
<1>32. ASSUME PairLockGivesUp PROVE TakeoverInv'
  BY <1>32 DEF PairLockGivesUp, PairStep
<1>33. ASSUME PairScanAndConnect PROVE TakeoverInv'
  BY <1>33 DEF PairScanAndConnect, PairStep
<1>34. ASSUME PairDisconnect PROVE TakeoverInv'
  BY <1>34 DEF PairDisconnect, PairStep
<1>35. ASSUME PairUnlock PROVE TakeoverInv'
  BY <1>35 DEF PairUnlock, UnlockBleMu, PairStep
<1>36. ASSUME PairContextEnds PROVE TakeoverInv'
  BY <1>36 DEF PairContextEnds
<1>. QED
  BY <1>0, <1>1, <1>2, <1>3, <1>4, <1>5, <1>6, <1>7, <1>8, <1>9, <1>10, <1>11,
     <1>12, <1>13, <1>14, <1>15, <1>16, <1>17, <1>18, <1>19, <1>20, <1>21,
     <1>22, <1>23, <1>24, <1>25, <1>26, <1>27, <1>28, <1>29, <1>30, <1>31,
     <1>32, <1>33, <1>34, <1>35, <1>36
  DEF Next, OpenNext, OpenSteps, CloserNext, SessionNext, TeardownNext,
      RemovalNext, PairNext, PairHolding

LEMMA TakeoverInvariant == Spec => []TakeoverInv
<1>1. Init => TakeoverInv
  BY DEF Init, TakeoverInv, SeqsDistinct, NewestIsClearing, InFlight,
         BeforeRegister, NewestFindsNoSession
<1>2. TypeOK /\ TypeOK' /\ TakeoverInv /\ [Next]_vars => TakeoverInv'
  BY TakeoverStep
<1>. QED
  BY <1>1, <1>2, TypeCorrect, PTL DEF Spec

(* An Open that has preempted and has not been superseded meets no        *)
(* registered session on its way to the radio, however many clients open, *)
(* close and are revoked at the same time.                                *)
THEOREM PreemptionSuffices == Spec => []NewestFindsNoSession
<1>1. TakeoverInv => NewestFindsNoSession
  BY DEF TakeoverInv
<1>. QED
  BY <1>1, TakeoverInvariant, PTL

-----------------------------------------------------------------------------
(* The sweep finds an Open of its token either pending, and supersedes it, *)
(* or already overtaken, or registered, and then closes its session.      *)
LEMMA SweepStep ==
    ASSUME TypeOK, TypeOK', TakeoverInv, SweepInv, [Next]_vars
    PROVE  SweepInv'
<1>. USE DEF TypeOK, TakeoverInv, SeqsDistinct, SweepInv, NewestIsPending,
           DoomedAccounted, sessions, InMap, InFlight, BeforeRegister
<1>0. CASE UNCHANGED vars
  BY <1>0
<1>1. ASSUME NEW o \in Opens, NEW t \in Tokens, Authorize(o, t)
      PROVE  SweepInv'
  BY <1>1 DEF Authorize
<1>2. ASSUME NEW o \in Opens, OpenWithoutVIN(o) PROVE SweepInv'
  BY <1>2 DEF OpenWithoutVIN, Goto
<1>3. ASSUME NEW o \in Opens, BeginOpen(o) PROVE SweepInv'
  BY <1>3 DEF BeginOpen, Goto, CancelPending
<1>4. ASSUME NEW o \in Opens, PreemptSnapshot(o) PROVE SweepInv'
  BY <1>4 DEF PreemptSnapshot, Goto
<1>5. ASSUME NEW o \in Opens, PreemptDone(o) PROVE SweepInv'
  BY <1>5 DEF PreemptDone, Goto
<1>6. ASSUME NEW o \in Opens, Acquire(o) PROVE SweepInv'
  BY <1>6 DEF Acquire, Goto
<1>7. ASSUME NEW o \in Opens, TakeLock(o) PROVE SweepInv'
  BY <1>7 DEF TakeLock, Goto, LockBleMu
<1>8. ASSUME NEW o \in Opens, LockGivesUp(o) PROVE SweepInv'
  BY <1>8 DEF LockGivesUp, Goto
<1>9. ASSUME NEW o \in Opens, ScanAndConnect(o) PROVE SweepInv'
  BY <1>9 DEF ScanAndConnect, Goto
<1>10. ASSUME NEW o \in Opens, NoSessionId(o) PROVE SweepInv'
  BY <1>10 DEF NoSessionId, Goto
<1>11. ASSUME NEW o \in Opens, Register(o) PROVE SweepInv'
  <2>1. o \in doomed => ~StillNewest(o)
    BY <1>11 DEF Register, Goto, StillNewest
  <2>. QED
    BY <1>11, <2>1 DEF Register, Goto, StillNewest
<1>12. ASSUME NEW o \in Opens, BackoutDisconnect(o) PROVE SweepInv'
  BY <1>12 DEF BackoutDisconnect, Goto
<1>13. ASSUME NEW o \in Opens, OpenUnlock(o) PROVE SweepInv'
  BY <1>13 DEF OpenUnlock, Goto, UnlockBleMu
<1>14. ASSUME NEW o \in Opens, EndOpen(o) PROVE SweepInv'
  <2>1. \A q \in Opens : q # o /\ pc[q] \in InFlight => seq[q] # seq[o]
    BY <1>14 DEF EndOpen, Goto
  <2>. QED
    BY <1>14, <2>1 DEF EndOpen, Goto
<1>15. ASSUME NEW o \in Opens, ContextEnds(o) PROVE SweepInv'
  BY <1>15 DEF ContextEnds
<1>16. ASSUME NEW p \in Closers, NEW s \in Opens, CloseOne(p, s)
      PROVE  SweepInv'
  BY <1>16 DEF CloseOne
<1>17. ASSUME NEW p \in Closers, CloseReturns(p) PROVE SweepInv'
  BY <1>17 DEF CloseReturns
<1>18. ASSUME NEW s \in Opens, ClientClose(s) PROVE SweepInv'
  BY <1>18 DEF ClientClose, SessionStep
<1>19. ASSUME NEW s \in Opens, StopPump(s) PROVE SweepInv'
  BY <1>19 DEF StopPump, SessionStep
<1>20. ASSUME NEW s \in Opens, ReleaseConn(s) PROVE SweepInv'
  BY <1>20 DEF ReleaseConn, SessionStep
<1>21. ASSUME NEW s \in Opens, ReleaseLock(s) PROVE SweepInv'
  BY <1>21 DEF ReleaseLock, UnlockBleMu, SessionStep
<1>22. ASSUME NEW s \in Opens, TTLPasses(s) PROVE SweepInv'
  BY <1>22 DEF TTLPasses, SessionStep
<1>23. ASSUME NEW s \in Opens, Touch(s) PROVE SweepInv'
  BY <1>23 DEF Touch, SessionStep
<1>24. ASSUME NEW s \in Opens, Reap(s) PROVE SweepInv'
  BY <1>24 DEF Reap, SessionStep
<1>25. ASSUME NEW s \in Opens, ClientGone(s) PROVE SweepInv'
  BY <1>25 DEF ClientGone
<1>26. ASSUME NEW t \in Tokens, DeleteToken(t) PROVE SweepInv'
  BY <1>26 DEF DeleteToken
<1>27. ASSUME NEW t \in Tokens, Sweep(t) PROVE SweepInv'
  <2>1. NewestIsPending'
    BY <1>27 DEF Sweep, CancelPending
  <2>2. ASSUME NEW o \in Opens, owner[o] = t, pc[o] \in BeforeRegister
        PROVE  seq[o] # openSeq'
    <3>1. CASE seq[o] = openSeq
      BY <1>27, <2>2, <3>1 DEF Sweep, CancelPending
    <3>2. CASE seq[o] # openSeq
      BY <1>27, <2>2, <3>2 DEF Sweep, CancelPending
    <3>. QED
      BY <3>1, <3>2
  <2>3. ASSUME NEW o \in Opens, owner[o] = t, InMap(o)
        PROVE  o \in todo'[t] /\ removal'[t] = "sweeping"
    BY <1>27, <2>3 DEF Sweep, CancelPending
  <2>4. DoomedAccounted'
    BY <1>27, <2>2, <2>3 DEF Sweep, CancelPending
  <2>. QED
    BY <2>1, <2>4
<1>28. ASSUME NEW t \in Tokens, RemovalReturns(t) PROVE SweepInv'
  <2>1. \A o \in doomed : owner[o] = t => ~InMap(o)
    BY <1>28 DEF RemovalReturns
  <2>. QED
    BY <1>28, <2>1 DEF RemovalReturns
<1>29. ASSUME PairRequest PROVE SweepInv'
  BY <1>29 DEF PairRequest, PairStep
<1>30. ASSUME PairAcquire PROVE SweepInv'
  BY <1>30 DEF PairAcquire, PairStep
<1>31. ASSUME PairTakeLock PROVE SweepInv'
  BY <1>31 DEF PairTakeLock, LockBleMu, PairStep
<1>32. ASSUME PairLockGivesUp PROVE SweepInv'
  BY <1>32 DEF PairLockGivesUp, PairStep
<1>33. ASSUME PairScanAndConnect PROVE SweepInv'
  BY <1>33 DEF PairScanAndConnect, PairStep
<1>34. ASSUME PairDisconnect PROVE SweepInv'
  BY <1>34 DEF PairDisconnect, PairStep
<1>35. ASSUME PairUnlock PROVE SweepInv'
  BY <1>35 DEF PairUnlock, UnlockBleMu, PairStep
<1>36. ASSUME PairContextEnds PROVE SweepInv'
  BY <1>36 DEF PairContextEnds
<1>. QED
  BY <1>0, <1>1, <1>2, <1>3, <1>4, <1>5, <1>6, <1>7, <1>8, <1>9, <1>10, <1>11,
     <1>12, <1>13, <1>14, <1>15, <1>16, <1>17, <1>18, <1>19, <1>20, <1>21,
     <1>22, <1>23, <1>24, <1>25, <1>26, <1>27, <1>28, <1>29, <1>30, <1>31,
     <1>32, <1>33, <1>34, <1>35, <1>36
  DEF Next, OpenNext, OpenSteps, CloserNext, SessionNext, TeardownNext,
      RemovalNext, PairNext, PairHolding

(* Every Open that had begun when its token was swept is out of the map   *)
(* by the time the removal returns, and never comes back.                 *)
THEOREM SweepIsFinal == Spec => []SweptOpensStayOut
<1>1. Init => SweepInv
  BY DEF Init, SweepInv, NewestIsPending, DoomedAccounted, InFlight,
         BeforeRegister
<1>2. TypeOK /\ TypeOK' /\ TakeoverInv /\ SweepInv /\ [Next]_vars => SweepInv'
  BY SweepStep
<1>3. SweepInv => SweptOpensStayOut
  BY DEF SweepInv, DoomedAccounted, SweptOpensStayOut
<1>. QED
  BY <1>1, <1>2, <1>3, TypeCorrect, TakeoverInvariant, PTL DEF Spec
=============================================================================
