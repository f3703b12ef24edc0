---------------------------- MODULE MCTrafficLog ----------------------------
(* A model-checking instance of TrafficLog.                                *)
EXTENDS TrafficLog

CONSTANTS car, phone, a1, a2

TwoDevices == {car, phone}
TwoIPs     == {a1, a2}
TwoNames   == {"tesla.com", "maps.tesla.com"}
OneName    == {"tesla.com"}
SomeZones  == [n \in TwoNames |-> {n, "tesla.com"}]
BothTails  == {"kernel", "dnsmasq"}
OnlyKernel == {"kernel"}
CarAtA1    == {[expiry |-> 0, mac |-> car, ip |-> a1]}

Drop443 == [tail |-> "kernel", kind |-> "forward", mac |-> car, ip |-> a1,
            name |-> "maps.tesla.com", action |-> "blocked"]
SomeLines == {Drop443,
    [Drop443 EXCEPT !.tail = "dnsmasq", !.kind = "query"],
    [Drop443 EXCEPT !.tail = "dnsmasq", !.kind = "reply"],
    [Drop443 EXCEPT !.tail = "sni", !.action = "allowed"]}

\* The kernel's journal may hold a line that no run has seen for a day, or a
\* line that has been saved and a newer one that has not.
Fresh == [lines |-> <<>>, cursor |-> 0, aged |-> 0, prior |-> 0]
Left(k, macs, names) == [ignored |-> macs, muted |-> names,
    logs |-> [t \in BothTails |-> IF t = "kernel" THEN k ELSE Fresh]]
SomeBefore == {
    Left([Fresh EXCEPT !.lines = <<Drop443>>, !.aged = 1], {car}, {}),
    Left([Fresh EXCEPT !.lines = <<Drop443, Drop443>>, !.cursor = 1, !.aged = 1],
         {}, OneName)}
=============================================================================
