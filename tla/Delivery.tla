------------------------------ MODULE Delivery ------------------------------
(***************************************************************************)
(* What the readers of journals promise: at-least-once delivery of what    *)
(* the journal shows.  Lines are delivered in any order and any number of  *)
(* times, and a position is acknowledged only when every line up to it has *)
(* been delivered or is lost.  A line is lost only when a reader starts    *)
(* that is not shown it: a line of before the last shutdown of its stream, *)
(* or one that has aged, and then only if nothing is acknowledged yet or a *)
(* failure keeps the reader from learning what is.                         *)
(***************************************************************************)
EXTENDS Naturals

CONSTANT Streams

VARIABLES
    written,     \* number of lines in each journal
    aged,        \* how many of them are too old for a reader without position
    shut,        \* how many are too old for every reader
    delivered,   \* the lines that have been dealt with
    lost,        \* the lines that some reader was not shown in time
    acked,       \* the position a new reader starts from, 0 if there is none
    failures     \* number of failures so far

vars == <<written, aged, shut, delivered, lost, acked, failures>>

Init ==
    /\ written   \in [Streams -> Nat]
    /\ aged      \in [Streams -> Nat]
    /\ shut      \in [Streams -> Nat]
    /\ acked     \in [Streams -> Nat]
    /\ \A s \in Streams : {aged[s], shut[s], acked[s]} \subseteq 0 .. written[s]
    /\ delivered = [s \in Streams |-> 1 .. acked[s]]
    /\ lost      = [s \in Streams |-> {}]
    /\ failures  = 0

\* Any step may fail in some part that does not matter here.
Failing == failures' \in {failures, failures + 1}

Write(s) ==
    /\ written' = [written EXCEPT ![s] = @ + 1]
    /\ UNCHANGED <<aged, shut, delivered, lost, acked, failures>>

Age(s) ==
    /\ \E k \in aged[s] .. written[s] : aged' = [aged EXCEPT ![s] = k]
    /\ UNCHANGED <<written, shut, delivered, lost, acked, failures>>

Shutdown ==
    /\ \E S \in SUBSET Streams :
         shut' = [s \in Streams |-> IF s \in S THEN written[s] ELSE shut[s]]
    /\ UNCHANGED <<written, aged, delivered, lost, acked, failures>>

\* A reader starts, with or without knowing the position.
Start(s) ==
    /\ \E known \in BOOLEAN :
         /\ known \/ acked[s] = 0 \/ failures' = failures + 1
         /\ LET hidden == 1 .. shut[s] \cup (IF known THEN {} ELSE 1 .. aged[s])
            IN  lost' = [lost EXCEPT ![s] = @ \cup (hidden \ delivered[s])]
    /\ Failing
    /\ UNCHANGED <<written, aged, shut, delivered, acked>>

Deliver(s, i) ==
    /\ delivered' = [delivered EXCEPT ![s] = @ \cup {i}]
    /\ Failing
    /\ UNCHANGED <<written, aged, shut, lost, acked>>

Ack(s, k) ==
    /\ 1 .. k \subseteq delivered[s] \cup lost[s]
    /\ acked' = [acked EXCEPT ![s] = k]
    /\ Failing
    /\ UNCHANGED <<written, aged, shut, delivered, lost>>

Fail ==
    /\ failures' = failures + 1
    /\ UNCHANGED <<written, aged, shut, delivered, lost, acked>>

Next ==
    \/ \E s \in Streams :
         \/ Write(s) \/ Age(s) \/ Start(s)
         \/ \E i \in 1 .. written[s] : Deliver(s, i)
         \/ \E k \in 0 .. written[s] : Ack(s, k)
    \/ Shutdown
    \/ Fail

Spec == Init /\ [][Next]_vars
=============================================================================
