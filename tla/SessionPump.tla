------------------------------ MODULE SessionPump ------------------------------
(***************************************************************************)
(* One open BLE session: the pump goroutine that is the only reader of     *)
(* conn.Receive(), the Exchange calls waiting for their replies, and the   *)
(* subscribers of unsolicited frames (the WS /events handler, lockwatch).  *)
(* Source: internal/services/tesla_session.go (Exchange, runPump,          *)
(* routeFrame, shutdownPump, registerWaiter ... Unsubscribe, touch, reaper)*)
(* and EventsBLE in internal/handlers/tesla_session.go.                    *)
(*                                                                         *)
(* Bytes are abstracted to what routeFrame extracts from them: a frame is  *)
(* numbered in order of arrival and answers one Exchange call or nobody.   *)
(* An action is one critical section of sess.mu or s.mu, or one channel    *)
(* operation.                                                              *)
(***************************************************************************)
EXTENDS Naturals, Sequences, SequencesExt

CONSTANTS Calls,      \* Exchange calls made on this session
          Blind,      \* the calls whose payload carries no correlator
          Subs,       \* event streams and lockwatch attachments
          Nobody,     \* the addressee of an unsolicited frame
          SubCap,     \* capacity of a subscriber channel (8 in the code)
          MaxFrames   \* bound on the frames the car sends

ASSUME PumpAssumption ==
    /\ Blind \subseteq Calls
    /\ Nobody \notin Calls
    /\ Calls \cap Subs = {}
    /\ SubCap \in Nat \ {0}
    /\ MaxFrames \in Nat

VARIABLES
    inMap,     \* the session is in s.sessions
    idle,      \* time.Since(lastUsed) >= bleSessionTTL
    stop,      \* the stop channel is closed
    air,       \* conn.Receive(): frames not yet read
    arrived,   \* how many frames have come in so far
    linkDown,  \* conn.Receive() is closed
    sent,      \* calls whose payload reached the car
    pump,      \* where runPump is
    carried,   \* the frame it has taken out for a waiter, and the waiter
    closed,    \* sess.closed
    waiters,   \* sess.waiters
    deliver,   \* the deliver channel of each call
    call,      \* where each Exchange is
    reply,     \* what each Exchange returned
    subs,      \* keys of sess.subs
    subch,     \* the channel of each subscriber
    sub,       \* where each subscriber is
    seen,      \* history: numbers of the frames each subscriber read
    cutShort,  \* history: a call was waiting when the reaper struck
    panicked   \* a send on, or a close of, a closed channel

connVars == <<air, arrived, linkDown, sent>>
lifeVars == <<inMap, idle, stop, cutShort>>
pumpVars == <<pump, carried, closed>>
callVars == <<waiters, deliver, call, reply>>
subVars  == <<subs, subch, sub, seen>>
vars == <<connVars, lifeVars, pumpVars, callVars, subVars, panicked>>

Numbers == 1 .. MaxFrames
Frame == [n : Numbers, to : Calls \cup {Nobody}]
NoFrame == [n |-> 0, to |-> Nobody]
NewChan == [buf |-> <<>>, closed |-> FALSE]
Outcome == {"none", "frame", "closed", "gaveup", "senderr", "notfound"}
NoReply == [outcome |-> "none", frame |-> NoFrame]

Chan(cap) == {ch \in [buf : Seq(Frame), closed : BOOLEAN] : Len(ch.buf) <= cap}

TypeOK ==
    /\ {inMap, idle, stop, linkDown, closed, panicked} \subseteq BOOLEAN
    /\ air \in Seq(Frame) /\ arrived \in 0 .. MaxFrames
    /\ sent \subseteq Calls
    /\ pump \in {"running", "sending", "done"}
    /\ carried \in [frame : Frame \cup {NoFrame}, for : Calls \cup {Nobody}]
    /\ waiters \in Seq(Calls)
    /\ deliver \in [Calls -> Chan(1)]
    /\ call \in [Calls -> {"new", "found", "registered", "waiting", "giveup",
                           "touching", "returned"}]
    /\ reply \in [Calls -> [outcome : Outcome, frame : Frame \cup {NoFrame}]]
    /\ subs \subseteq Subs
    /\ subch \in [Subs -> Chan(SubCap)]
    /\ sub \in [Subs -> {"new", "found", "attached", "leaving", "unsub",
                        "left"}]
    /\ seen \in [Subs -> SUBSET Numbers]
    /\ cutShort \in BOOLEAN

Init ==
    /\ inMap = TRUE /\ idle = FALSE /\ stop = FALSE
    /\ air = <<>> /\ arrived = 0 /\ linkDown = FALSE /\ sent = {}
    /\ pump = "running" /\ closed = FALSE
    /\ carried = [frame |-> NoFrame, for |-> Nobody]
    /\ waiters = <<>>
    /\ deliver = [c \in Calls |-> NewChan]
    /\ call = [c \in Calls |-> "new"]
    /\ reply = [c \in Calls |-> NoReply]
    /\ subs = {}
    /\ subch = [u \in Subs |-> NewChan]
    /\ sub = [u \in Subs |-> "new"]
    /\ seen = [u \in Subs |-> {}]
    /\ cutShort = FALSE
    /\ panicked = FALSE

-----------------------------------------------------------------------------
(* Channels.                                                               *)

TrySend_unbounded(ch, f, cap) == [ch EXCEPT !.buf = Append(@, f)]

\* A non-blocking send: dropped when the buffer is full.
TrySend(ch, f, cap) ==
    IF Len(ch.buf) < cap THEN [ch EXCEPT !.buf = Append(@, f)] ELSE ch

CloseChan(ch) == [ch EXCEPT !.closed = TRUE]

-----------------------------------------------------------------------------
(* The car and the radio link (external).                                  *)

CarSends(to) ==
    /\ arrived < MaxFrames /\ ~linkDown
    /\ to \in sent \cup {Nobody}
    /\ arrived' = arrived + 1
    /\ air' = Append(air, [n |-> arrived + 1, to |-> to])
    /\ UNCHANGED <<linkDown, sent, lifeVars, pumpVars, callVars, subVars,
                   panicked>>

LinkDrops ==
    /\ ~linkDown
    /\ linkDown' = TRUE
    /\ UNCHANGED <<air, arrived, sent, lifeVars, pumpVars, callVars, subVars,
                   panicked>>

-----------------------------------------------------------------------------
(* The pump.                                                               *)

Matches_any(c, f) == TRUE

Matches(c, f) == f.to = c \/ c \in Blind

\* The first waiter in registration order that claims f, or 0.
FirstMatch(f) == SelectInSeq(waiters, LAMBDA c : Matches(c, f))

\* sess.waiters once the i-th waiter has been claimed.
WithoutWaiter_kept(i) == waiters
WithoutWaiter(i) == RemoveAt(waiters, i)

FanOut_blocking(f) ==
    /\ \A u \in subs : Len(subch[u].buf) < SubCap
    /\ subch' = [u \in Subs |-> IF u \in subs
                                  THEN TrySend(subch[u], f, SubCap)
                                  ELSE subch[u]]

\* routeFrame for a frame no waiter claims: offered to every subscriber.
FanOut(f) ==
    subch' = [u \in Subs |-> IF u \in subs
                               THEN TrySend(subch[u], f, SubCap)
                               ELSE subch[u]]

PumpReads_alsoFansOut ==
    /\ pump = "running" /\ air # <<>>
    /\ air' = Tail(air)
    /\ FanOut(Head(air))
    /\ LET i == FirstMatch(Head(air))
       IN IF i = 0 THEN UNCHANGED <<pump, carried, waiters>>
          ELSE /\ pump' = "sending"
               /\ carried' = [frame |-> Head(air), for |-> waiters[i]]
               /\ waiters' = WithoutWaiter(i)
    /\ UNCHANGED <<arrived, linkDown, sent, lifeVars, closed, deliver, call,
                   reply, subs, sub, seen, panicked>>

\* One iteration of runPump that reads a frame, up to routeFrame's Unlock.
PumpReads ==
    /\ pump = "running" /\ air # <<>>
    /\ air' = Tail(air)
    /\ LET f == Head(air)
           i == FirstMatch(f)
       IN \/ /\ i = 0
             /\ FanOut(f)
             /\ panicked' = (panicked \/ \E u \in subs : subch[u].closed)
             /\ UNCHANGED <<pump, carried, waiters>>
          \/ /\ i # 0
             /\ pump' = "sending"
             /\ carried' = [frame |-> f, for |-> waiters[i]]
             /\ waiters' = WithoutWaiter(i)
             /\ UNCHANGED <<subch, panicked>>
    /\ UNCHANGED <<arrived, linkDown, sent, lifeVars, closed, deliver, call,
                   reply, subs, sub, seen>>

\* The rest of routeFrame: the send on the matched waiter's channel.
PumpDelivers ==
    /\ pump = "sending"
    /\ pump' = "running"
    /\ deliver' = [deliver EXCEPT
                     ![carried.for] = TrySend(@, carried.frame, 1)]
    /\ panicked' = (panicked \/ deliver[carried.for].closed)
    /\ carried' = [frame |-> NoFrame, for |-> Nobody]
    /\ UNCHANGED <<connVars, lifeVars, closed, waiters, call, reply, subVars>>

\* shutdownPump, then pumpDone.
PumpShutsDown ==
    /\ pump = "running"
    /\ stop \/ (linkDown /\ air = <<>>)
    /\ pump' = "done"
    /\ closed' = TRUE
    /\ deliver' = [c \in Calls |-> IF c \in Range(waiters)
                                     THEN CloseChan(deliver[c])
                                     ELSE deliver[c]]
    /\ subch' = [u \in Subs |-> IF u \in subs THEN CloseChan(subch[u])
                                              ELSE subch[u]]
    /\ panicked' = \/ panicked
                   \/ \E c \in Range(waiters) : deliver[c].closed
                   \/ \E u \in subs : subch[u].closed
    /\ waiters' = <<>>
    /\ subs' = {}
    /\ UNCHANGED <<connVars, lifeVars, carried, call, reply, sub, seen>>

-----------------------------------------------------------------------------
(* Exchange.                                                               *)

Moves(c, from, to) ==
    /\ call[c] = from
    /\ call' = [call EXCEPT ![c] = to]
    /\ UNCHANGED <<pumpVars, air, arrived, linkDown, inMap, stop, cutShort,
                   subVars, panicked>>

Answers(c, o, f) ==
    reply' = [reply EXCEPT ![c] = [outcome |-> o, frame |-> f]]

\* s.get(id).
ExchangeLooksUp(c) ==
    /\ \/ /\ inMap /\ Moves(c, "new", "found")
          /\ UNCHANGED reply
       \/ /\ ~inMap /\ Moves(c, "new", "returned")
          /\ Answers(c, "notfound", NoFrame)
    /\ UNCHANGED <<sent, idle, waiters, deliver>>

RegisterWaiter_unchecked(c) ==
    /\ Moves(c, "found", "registered")
    /\ waiters' = Append(waiters, c)
    /\ UNCHANGED <<sent, idle, deliver, reply>>

RegisterWaiter(c) ==
    /\ \/ /\ ~closed /\ Moves(c, "found", "registered")
          /\ waiters' = Append(waiters, c)
          /\ UNCHANGED reply
       \/ /\ closed /\ Moves(c, "found", "returned")
          /\ Answers(c, "closed", NoFrame)
          /\ UNCHANGED waiters
    /\ UNCHANGED <<sent, idle, deliver>>

\* conn.Send succeeds or fails.
ExchangeSends(c) ==
    /\ \/ /\ Moves(c, "registered", "waiting")
          /\ sent' = sent \cup {c}
          /\ UNCHANGED reply
       \/ /\ Moves(c, "registered", "giveup")
          /\ Answers(c, "senderr", NoFrame)
          /\ UNCHANGED sent
    /\ UNCHANGED <<idle, waiters, deliver>>

\* The deliver branch of the select.
ExchangeReceives(c) ==
    /\ \/ /\ deliver[c].buf # <<>>
          /\ Moves(c, "waiting", "touching")
          /\ Answers(c, "frame", Head(deliver[c].buf))
          /\ deliver' = [deliver EXCEPT ![c].buf = Tail(@)]
       \/ /\ deliver[c].buf = <<>> /\ deliver[c].closed
          /\ Moves(c, "waiting", "returned")
          /\ Answers(c, "closed", NoFrame)
          /\ UNCHANGED deliver
    /\ UNCHANGED <<sent, idle, waiters>>

\* The deadline and ctx.Done branches.
ExchangeGivesUp(c) ==
    /\ Moves(c, "waiting", "giveup")
    /\ Answers(c, "gaveup", NoFrame)
    /\ UNCHANGED <<sent, idle, waiters, deliver>>

UnregisterWaiter(c) ==
    /\ Moves(c, "giveup", "returned")
    /\ waiters' = RemoveFirst(waiters, c)
    /\ UNCHANGED <<sent, idle, deliver, reply>>

\* touch(id): only an Exchange that got its answer resets the idle clock.
Touch(c) ==
    /\ Moves(c, "touching", "returned")
    /\ idle' = (idle /\ ~inMap)
    /\ UNCHANGED <<sent, waiters, deliver, reply>>

-----------------------------------------------------------------------------
(* Subscribers.                                                            *)

SubMoves(u, from, to) ==
    /\ sub[u] \in from
    /\ sub' = [sub EXCEPT ![u] = to]
    /\ UNCHANGED <<connVars, lifeVars, pumpVars, callVars>>

\* Subscribe: s.get(id), then sess.subscribe().
SubscribeLooksUp(u) ==
    /\ SubMoves(u, {"new"}, IF inMap THEN "found" ELSE "left")
    /\ UNCHANGED <<subs, subch, seen, panicked>>

Subscribe(u) ==
    /\ SubMoves(u, {"found"}, "attached")
    /\ subs' = IF closed THEN subs ELSE subs \cup {u}
    /\ subch' = [subch EXCEPT ![u].closed = closed]
    /\ UNCHANGED <<seen, panicked>>

SubscriberReads(u) ==
    /\ sub[u] = "attached" /\ subch[u].buf # <<>>
    /\ seen' = [seen EXCEPT ![u] = @ \cup {Head(subch[u].buf).n}]
    /\ subch' = [subch EXCEPT ![u].buf = Tail(@)]
    /\ UNCHANGED <<connVars, lifeVars, pumpVars, callVars, subs, sub,
                   panicked>>

\* The channel is closed, the peer is gone, a write failed, lockwatch stops.
SubscriberLeaves(u) ==
    /\ SubMoves(u, {"attached"}, "leaving")
    /\ UNCHANGED <<subs, subch, seen, panicked>>

\* Unsubscribe: a no-op once the session has left the map, otherwise on to
\* sess.unsubscribe, which finds nothing if the pump has shut down meanwhile.
UnsubscribeLooksUp(u) ==
    /\ SubMoves(u, {"leaving"}, IF inMap THEN "unsub" ELSE "left")
    /\ UNCHANGED <<subs, subch, seen, panicked>>

Unsubscribe(u) ==
    /\ SubMoves(u, {"unsub"}, "left")
    /\ IF u \in subs
         THEN /\ subs' = subs \ {u}
              /\ subch' = [subch EXCEPT ![u] = CloseChan(@)]
              /\ panicked' = (panicked \/ subch[u].closed)
         ELSE UNCHANGED <<subs, subch, panicked>>
    /\ UNCHANGED seen

-----------------------------------------------------------------------------
(* The end of the session.                                                 *)

TTLPasses ==
    /\ inMap /\ ~idle
    /\ idle' = TRUE
    /\ UNCHANGED <<connVars, inMap, stop, cutShort, pumpVars, callVars,
                   subVars, panicked>>

Reap ==
    /\ inMap /\ idle
    /\ inMap' = FALSE
    /\ cutShort' = (\E c \in Calls : call[c] = "waiting")
    /\ UNCHANGED <<connVars, idle, stop, pumpVars, callVars, subVars,
                   panicked>>

\* Close from a handler, a newer Open or a token removal.
CloseSession ==
    /\ inMap
    /\ inMap' = FALSE
    /\ UNCHANGED <<connVars, idle, stop, cutShort, pumpVars, callVars,
                   subVars, panicked>>

StopPump_dropped == FALSE

StopPump ==
    /\ ~inMap /\ ~stop
    /\ stop' = TRUE
    /\ UNCHANGED <<connVars, inMap, idle, cutShort, pumpVars, callVars,
                   subVars, panicked>>

-----------------------------------------------------------------------------
PumpNext == PumpReads \/ PumpDelivers \/ PumpShutsDown

\* The steps an Exchange takes by itself, without its timers.
ExchangeRuns(c) ==
    \/ ExchangeLooksUp(c) \/ RegisterWaiter(c) \/ ExchangeSends(c)
    \/ ExchangeReceives(c) \/ UnregisterWaiter(c) \/ Touch(c)

SubscriberNext(u) ==
    \/ SubscribeLooksUp(u) \/ Subscribe(u) \/ SubscriberReads(u)
    \/ SubscriberLeaves(u) \/ UnsubscribeLooksUp(u) \/ Unsubscribe(u)

Next ==
    \/ \E to \in Calls \cup {Nobody} : CarSends(to)
    \/ LinkDrops
    \/ PumpNext
    \/ \E c \in Calls : ExchangeRuns(c) \/ ExchangeGivesUp(c)
    \/ \E u \in Subs : SubscriberNext(u)
    \/ TTLPasses \/ Reap \/ CloseSession \/ StopPump

Spec == Init /\ [][Next]_vars

(* The service's own goroutines run: the pump, the goroutine that deletes  *)
(* the session and goes on to stopPump, the Exchange handlers.  Subscribers*)
(* may be arbitrarily slow and no timer has to fire.                       *)
FairSpec ==
    /\ Spec
    /\ WF_vars(PumpNext)
    /\ WF_vars(StopPump)
    /\ \A c \in Calls : WF_vars(ExchangeRuns(c))

-----------------------------------------------------------------------------
(* The pump never sends on, and nobody ever closes, a closed channel, and  *)
(* the cap-1 deliver channel always has room: a reply that was matched is  *)
(* never dropped (registerWaiter's comment).                               *)
DeliveryNeverFails ==
    /\ ~panicked
    /\ pump = "sending" => deliver[carried.for] = NewChan

(* Exchange returns the reply to its own request, or any frame if its      *)
(* payload carried no correlator; never somebody else's reply.             *)
RightReply ==
    \A c \in Calls :
        reply[c].outcome = "frame" => c \in Blind \/ reply[c].frame.to = c

\* The frames a channel holds, and the ones that are or were in a call's hands.
FramesOf(ch) == {ch.buf[i].n : i \in DOMAIN ch.buf}
HeldBy(c) ==
    FramesOf(deliver[c]) \cup ({reply[c].frame.n} \ {0})
        \cup (IF carried.for = c THEN {carried.frame.n} ELSE {})

(* "Every incoming frame is routed to at most one destination": a frame    *)
(* reaches one Exchange, or the subscribers, never both and never two.     *)
OneDestination ==
    /\ \A c, d \in Calls : c # d => HeldBy(c) \cap HeldBy(d) = {}
    /\ \A c \in Calls, u \in Subs :
         HeldBy(c) \cap (seen[u] \cup FramesOf(subch[u])) = {}

(* No waiter is left behind: once the pump has shut down every Exchange    *)
(* still waiting has something to read, so its select cannot block         *)
(* (shutdownPump: "rather than leaving them to hang").                     *)
NobodyHangs ==
    pump = "done" =>
        /\ \A c \in Calls : call[c] = "waiting" =>
               deliver[c].closed \/ deliver[c].buf # <<>>
        /\ \A u \in Subs : sub[u] = "attached" => subch[u].closed

(* A slow or absent subscriber never wedges the link: what is in the air   *)
(* is always read eventually, or the pump has ended.                       *)
NeverWedged == []<>(air = <<>> \/ pump = "done")

(* Removing the session unblocks every Exchange, without their timeouts.   *)
RemovalUnblocks ==
    \A c \in Calls : ~inMap ~> call[c] \in {"new", "returned"}

(* A subscriber that has left does not keep its slot for ever, even when   *)
(* its Unsubscribe found the session gone and did nothing.                 *)
SlotsFreed ==
    \A u \in Subs : (sub[u] = "left" /\ ~inMap) ~> u \notin subs

(* "an active session never gets killed mid-conversation": the reaper does *)
(* not remove a session while an Exchange waits for its reply.             *)
ReaperSparesConversation == ~cutShort
=============================================================================
