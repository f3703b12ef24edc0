------------------------------ MODULE MCAirGap ------------------------------
(* Model-checking instances of AirGap.                                     *)
EXTENDS AirGap

CONSTANTS car, phone, grok, mine, a1, a2

TwoDevices  == {car, phone}
TwoIPs      == {a1, a2}
OneSys      == {grok}
OneUser     == {mine}

UDP == (grok :> {123}) @@ (mine :> {})
TCP == (grok :> {5228}) @@ (mine :> {})

\* cm.vn.services stands for the captive-check host under a denied apex.
SomeNames == {"tesla.com", "dl.tesla.com", "auth.tesla.com", "vn.services",
              "cm.vn.services"}
SomeZones == [n \in SomeNames |->
    {n} \cup IF n \in {"dl.tesla.com", "auth.tesla.com"} THEN {"tesla.com"}
            ELSE IF n = "cm.vn.services" THEN {"vn.services"} ELSE {}]
Floor     == {"dl.tesla.com", "vn.services"}

Accept22 == [enabled |-> TRUE, prio |-> 1, direction |-> "forward",
             device |-> "any", protocol |-> "tcp", port |-> 22,
             dest |-> "any", action |-> "accept"]
\* The form's defaults: tcp, and no port.
AcceptTCP  == [Accept22 EXCEPT !.port = NoPort]
AcceptHost == [AcceptTCP EXCEPT !.protocol = "all", !.dest = "host"]
SomeRows   == {Accept22, AcceptTCP, AcceptHost}
OneRule   == {1}

Seed == [devices |-> [m \in TwoDevices |-> IF m = car THEN "filtered" ELSE "none"],
         ip      |-> [m \in TwoDevices |-> IF m = car THEN a1 ELSE NoIP],
         rules   |-> [q \in OneRule |-> NoRow],
         filters |-> [f \in {grok, mine} |-> IF f = grok THEN "on" ELSE "none"],
         domains |-> [f \in {grok, mine} |-> [n \in SomeNames |->
                        IF f = grok /\ n = "auth.tesla.com" THEN "on" ELSE "none"]],
         limits  |-> [m \in TwoDevices |-> "none"],
         ap      |-> APDefaults]
OneSeed == {Seed}
=============================================================================
