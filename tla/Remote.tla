------------------------------- MODULE Remote -------------------------------
(***************************************************************************)
(* remote.go: how the daemon is published through Tailscale.  tailscaled   *)
(* keeps, for each port of the node, the paths it proxies to the admin     *)
(* listener and whether Funnel opens the port to the Internet.  Every      *)
(* operation is a command or two under RemoteService.mu; one that holds mu *)
(* for one command is one step.  tailscaled itself restarts and comes up   *)
(* when it likes.  Access adds the requests that call the operations.      *)
(***************************************************************************)
EXTENDS Naturals, FiniteSets

CONSTANT Nobody   \* mu is free

funnelPort     == 443
MutSharedPort  == 443
adminServePort == 10000
bleFunnelPath  == "/api/ble"
Ports          == {443, 10000}

VARIABLES
    node,    \* tailscaled: "absent", "login" (needs one), "starting" (has one,
             \* and is inactive, Stopped or Starting) or "running"
    serve,   \* of each port, the paths proxied and whether Funnel is on
    boot,    \* main's goroutine that re-asserts the admin mapping
    alone,   \* history: the node has come up by itself, when that goroutine
             \* was gone, and the admin mapping has not been asserted since
    mu

remoteVars == <<node, serve, boot, alone, mu>>

NoServe == [p \in Ports |-> [paths |-> {}, funnel |-> FALSE]]

RemoteTypeOK ==
    /\ node \in {"absent", "login", "starting", "running"}
    /\ alone \in BOOLEAN
    /\ serve \in [Ports -> [paths : SUBSET {"/", bleFunnelPath}, funnel : BOOLEAN]]
    /\ boot \in {"status", "serve", "done"}

-----------------------------------------------------------------------------
(* The commands.  Funnel's flag belongs to the port, not to the path.      *)

\* tailscale funnel --set-path=/api/ble
Funnelled ==
    [serve EXCEPT ![funnelPort] = [paths |-> @.paths \cup {bleFunnelPath}, funnel |-> TRUE]]

\* tailscale funnel --set-path=/api/ble off
Hidden ==
    [serve EXCEPT ![funnelPort] =
        LET rest == @.paths \ {bleFunnelPath}
        IN  [paths |-> rest, funnel |-> @.funnel /\ rest # {}]]

\* tailscale serve --https=<port> turns the port tailnet-only.
AdminServed ==
    [serve EXCEPT ![adminServePort] = [paths |-> @.paths \cup {"/"}, funnel |-> FALSE]]

-----------------------------------------------------------------------------
(* tailscaled on its own.                                                  *)

LoggedIn == node \in {"starting", "running"}

\* It is restarted, or stopped, and may lose its serve configuration.
tailscaledRestarts ==
    /\ node = "running"
    /\ node' = "starting"
    /\ serve' \in {serve, NoServe}
    /\ UNCHANGED <<boot, alone, mu>>

tailscaledComesUp ==
    /\ node = "starting"
    /\ node' = "running"
    /\ alone' = (alone \/ boot = "done")
    /\ UNCHANGED <<serve, boot, mu>>

-----------------------------------------------------------------------------
(* The operations; ok: the command succeeds.  One that fails with its only *)
(* command changes nothing and is left out.                                *)

EnableBLEFunnel ==
    /\ mu = Nobody /\ LoggedIn
    /\ serve' = Funnelled
    /\ UNCHANGED <<node, boot, alone, mu>>

DisableBLEFunnel ==
    /\ mu = Nobody /\ LoggedIn
    /\ serve' = Hidden
    /\ UNCHANGED <<node, boot, alone, mu>>

\* The installer: a new node needs a login, or finds that of an earlier
\* installation; one that runs is left alone or upgraded and restarted.
Install ==
    /\ mu = Nobody
    /\ \/ node = "absent" /\ node' \in {"login", "starting"}
       \/ node = "running" /\ node' = "starting"
       \/ node # "absent" /\ UNCHANGED node
    /\ serve' \in (IF node' = node THEN {serve} ELSE {serve, NoServe})
    /\ UNCHANGED <<boot, alone, mu>>

\* tailscale up; mu stays locked for the serve command that follows.
UpLogsIn(r, ok) ==
    /\ mu = Nobody /\ node # "absent"
    /\ IF ok THEN node' = "running" /\ mu' = r ELSE UNCHANGED <<node, mu>>
    /\ UNCHANGED <<serve, boot, alone>>

\* ensureAdminServeLocked; an error is only logged.
UpServes(r, ok) ==
    /\ mu = r
    /\ serve' = IF ok THEN AdminServed ELSE serve
    /\ alone' = (alone /\ ~ok)
    /\ mu' = Nobody
    /\ UNCHANGED <<node, boot>>

\* tailscaled may forget its serve configuration with the login.
RemoteLogout ==
    /\ mu = Nobody /\ LoggedIn
    /\ node' = "login"
    /\ serve' \in {serve, NoServe}
    /\ UNCHANGED <<boot, alone, mu>>

\* main: Status, outside mu, and EnsureAdminServe if the node is running; one
\* that is not, or not yet, is none of the goroutine's business any more.
BootStatus(ok) ==
    /\ boot = "status"
    /\ boot' = IF ok /\ node = "running" THEN "serve" ELSE "done"
    /\ UNCHANGED <<node, serve, alone, mu>>

\* Without a login the command fails.
EnsureAdminServe(ok) ==
    /\ boot = "serve" /\ mu = Nobody
    /\ serve' = IF ok /\ LoggedIn THEN AdminServed ELSE serve
    /\ alone' = (alone /\ ~(ok /\ LoggedIn))
    /\ boot' = "done"
    /\ UNCHANGED <<node, mu>>

MutNoReassert ==
    /\ serve' \in {serve, NoServe}
    /\ boot' = "done" /\ mu' = Nobody /\ alone' = FALSE
    /\ UNCHANGED node

\* The daemon is started again, perhaps with tailscaled; a reinstall or a
\* reset may have dropped the serve configuration.
RemoteRestarts ==
    /\ node' \in (IF node = "running" THEN {"running", "starting"} ELSE {node})
    /\ serve' \in {serve, NoServe}
    /\ boot' = "status" /\ mu' = Nobody /\ alone' = FALSE

\* Only /api/ble is ever public, "the load-bearing safety property": no port
\* that Funnel opens carries the admin pages, in whatever order the funnel
\* and the admin mapping were set up, torn down and set up again.
AdminStaysPrivate ==
    \A p \in Ports : serve[p].funnel => serve[p].paths \subseteq {bleFunnelPath}
=============================================================================
