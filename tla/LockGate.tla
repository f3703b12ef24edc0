------------------------------- MODULE LockGate -------------------------------
(***************************************************************************)
(* internal/services/lockgate.go: what a frame off the BLE link says about *)
(* the car's locks, and the verdict on whether the Pi's access point should*)
(* be up.  Pure operators; LockWatch drives them.  Times are naturals.     *)
(***************************************************************************)
EXTENDS Naturals

CONSTANT ActivityLease   \* how long an activity frame holds the AP up (3 min)

ASSUME LeaseAssumption == ActivityLease \in Nat

\* What DecodeLockSignal looks at, after protobuf decoding.
LockState == {"UNLOCKED", "LOCKED", "INTERNAL_LOCKED", "SELECTIVE_UNLOCKED"}
Presence  == {"UNKNOWN", "NOT_PRESENT", "PRESENT"}
Frame == [readable : BOOLEAN,     \* the RoutableMessage unmarshals
          vcsec : BOOLEAN,        \* from the vehicle-security domain
          reply : BOOLEAN,        \* request_uuid is set
          sealed : BOOLEAN,       \* carries AES-GCM response data
          body : {"empty", "garbled", "status", "other"},
          lock : LockState,
          presence : Presence]

LockSignal == [kind : {"none", "status", "activity"},
               locked : BOOLEAN, present : BOOLEAN]

Signal(kind) == [kind |-> kind, locked |-> FALSE, present |-> FALSE]

DecodeLockSignal(f) ==
    IF ~f.readable \/ ~f.vcsec \/ f.reply \/ f.sealed
        \/ f.body \in {"empty", "garbled"}
      THEN Signal("none")
      ELSE IF f.body = "other"
        THEN Signal("activity")
        ELSE [kind |-> "status",
              locked |-> f.lock = "LOCKED",
              present |-> f.presence # "NOT_PRESENT"]

GateState == [haveStatus : BOOLEAN, locked : BOOLEAN, present : BOOLEAN,
              activityUntil : Nat]

\* The zero value: nothing heard from the car.
EmptyGate == [haveStatus |-> FALSE, locked |-> FALSE, present |-> FALSE,
              activityUntil |-> 0]

Apply_extends(g, sig, now) ==
    CASE sig.kind = "status" ->
           [g EXCEPT !.haveStatus = TRUE, !.locked = sig.locked,
                     !.present = sig.present]
      [] sig.kind = "activity" ->
           [g EXCEPT !.activityUntil = @ + ActivityLease]
      [] OTHER -> g

Apply(g, sig, now) ==
    CASE sig.kind = "status" ->
           [g EXCEPT !.haveStatus = TRUE, !.locked = sig.locked,
                     !.present = sig.present]
      [] sig.kind = "activity" ->
           [g EXCEPT !.activityUntil = now + ActivityLease]
      [] OTHER -> g

APShouldBeUp(g, now) ==
    \/ ~g.haveStatus
    \/ now < g.activityUntil
    \/ ~g.locked
    \/ g.present
=============================================================================
