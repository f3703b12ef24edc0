------------------------------- MODULE Leases -------------------------------
(***************************************************************************)
(* Who has which address: the readers of dnsmasq's lease file and of the   *)
(* kernel's ARP table in network.go, and the lookup of the SNI proxy.      *)
(* A lease is a record [expiry, mac, ip]; the table is a set, its file any *)
(* sequence of it.  An ARP table maps an address to a MAC or to NoMAC, an  *)
(* incomplete entry.                                                       *)
(***************************************************************************)
EXTENDS Integers, SequencesExt

CONSTANTS Devices, IPs, NoIP, NoMAC

ASSUME LeasesAssumption == NoIP \notin IPs /\ NoMAC \notin Devices

\* Before the first lease of a MAC; an expiry that does not parse counts as 0.
Unseen == [expiry |-> -1, ip |-> NoIP]

MutLastLineWins(found, lease) ==
    [found EXCEPT ![lease.mac] = [expiry |-> lease.expiry, ip |-> lease.ip]]

\* One line of the file: a later one wins only if it expires later.
Take(found, lease) ==
    [found EXCEPT ![lease.mac] =
        IF lease.expiry <= @.expiry
          THEN @ ELSE [expiry |-> lease.expiry, ip |-> lease.ip]]

mergeLeases(file) == FoldLeft(Take, [m \in Devices |-> Unseen], file)

\* A live ARP entry overrides the lease; of several the last one stays, and
\* their order is the kernel's.  The result is one of these.
mergeARP(found, arp) ==
    LET at(m) == {a \in IPs : arp[a] = m}
    IN  {f \in [Devices -> IPs \cup {NoIP}] : \A m \in Devices :
            IF at(m) = {} THEN f[m] = found[m].ip ELSE f[m] \in at(m)}

leasedIPsByMAC(leases, m) == {l.ip : l \in {k \in leases : k.mac = m}}

MutARPFirst(leases, arp, a) ==
    IF arp[a] # NoMAC THEN {arp[a]}
    ELSE {m \in Devices : a \in leasedIPsByMAC(leases, m)}

\* Leases first, in the order of a Go map; then ARP.
clientMAC(leases, arp, a) ==
    LET holders == {m \in Devices : a \in leasedIPsByMAC(leases, m)}
    IN  IF holders # {} THEN holders ELSE {arp[a]}

=============================================================================
