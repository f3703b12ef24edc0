# TLA+ models of rpi-network-filter (airgapp-rpi)

The repository is the daemon of a Raspberry Pi that stands between a car and
the Internet.  It runs a WiFi access point with a default-deny firewall, and it
owns the Pi's only Bluetooth adapter, over which web clients talk to the car.
This directory holds TLA+ models of its stateful parts, the TLC instances that
check them, and TLAPS proofs.  Source paths below are relative to `src/`.

    tlc -workers 2 -config MCBleSession.cfg MCBleSession     # one run
    tlapm BleSessionProofs.tla                               # one proof module

`PROJECT.json` maps every modelling definition to its source lines and lists
the runs, the mutants that show each property can fail, the hazards, the
findings and the theorems.

## 1. Inventory

### The car side: Bluetooth

| Component | State | Operations | Talks to |
|---|---|---|---|
| BLE session service (`internal/services/tesla_session.go`) | `sessions` map, `openSeq`, `pendingCancel`/`pendingOwner` under `s.mu`; per session `waiters`, `subs`, `closed` under `sess.mu`, `stop`, `pumpDone`, `lastUsed` | Open, Close, CloseForToken, Exchange, Subscribe, Unsubscribe, CurrentSession, the pump and the reaper goroutine | the adapter lock; HTTP handlers; the lock watcher |
| Adapter lock and pairing (`internal/services/tesla.go`) | `bleMu`, a channel of capacity 1 | Lock with a context, Unlock (panics when empty), AcquireBLEForVIN, sendUnauthenticated | held for the whole life of a session |
| Client tokens (`tesla_token.go`, `handlers/tesla_tokens.go`, `middleware.go`) | table `tesla_client_tokens` with a claim window | issue, enrol, validate (claims on first use), revoke, delete then CloseForToken, prune | checked once per request, at its start |
| Lock watcher (`lockgate.go`, `lockwatch.go`) | the gate (last lock status, activity lease), `enforcer`, `lastWanted`, `mu` and `applyMu`, `startOnce`, `stop`, `done` | Start, Stop, SetEnforcer, ReportExternal, Ingest, settle, the supervisor and the ticker goroutine | subscribes to the live session; would command the access point |

What is hard here: requests that take tens of seconds race each other, their
own deadline, the reaper, a token's removal and a dropping radio link; every
path that leaves the adapter must release it exactly once; state is read under
one lock and used after it was dropped.  What makes it correct: the adapter is
held by exactly one party and is never leaked; the newest client gets it
without waiting for a timer; a removed token's sessions end; each reply goes to
the caller that asked; nobody is left waiting on a dead session; the access
point does what the last verdict says and fails open when the car is not heard.

### The network side

| Component | State | Operations | Hard part |
|---|---|---|---|
| Firewall (`firewall.go`) | rules table, `/etc/nftables.conf`, kernel ruleset, `mu` | rule edits, Apply, Verify | file and kernel diverge when `nft -f` fails; Apply reads its tables one query at a time; Verify reads three things at three moments, without a lock |
| Hotspot (`hotspot.go`) | settings, hostapd config and run state, the firewall gate | Apply, SetEnabled | raising is gated in SetEnabled, but Apply restarts hostapd as well |
| Devices and leases (`network.go`, `handlers/devices.go`) | device table; dnsmasq's leases and the kernel's ARP table are outside | scan, status, ignore flag, delete | one device, several leases; edits race the Applies |
| Domain filters, DNS, SNI proxy (`filter.go`, `protected.go`, `dns.go`, `sniproxy.go`) | filters and their domains, the protected floor, the generated dnsmasq config, a policy cache | edits, Apply, RefreshCache, the decision on a connection | two deciders with suffix rules of their own over one floor; the cache lags |
| Bandwidth (`bandwidth.go`) | limits, `tc` classes | edits, Apply | bound to addresses that change |
| Service wiring (`services.go`, `cmd/netfilterd`) | none | New, ApplyAll at boot, the goroutines | goes on after a failed step |
| Traffic log (`trafficlog.go`) | `query_log`, journal cursors, caches of muted names, ignored devices and allowed names, a DNS name cache | tails, insert, refreshes, mute, wipe, Clear, retention, paging | a crash between insert and cursor save; slow refreshes |
| Admin login (`auth.go`, `handlers/auth.go`) | sessions, failure buckets | login, logout, throttle | check, then slow bcrypt, then record |
| Remote access (`remote.go`) | tailscaled's login and serve configuration | install, up, logout, funnel on and off, the admin mapping | Funnel's flag is per port; a boot goroutine asks once and acts later; tailscaled restarts and comes up by itself |

What makes this side correct: what is enforced is what the tables say, once the
Applies are through; classes of devices and the protected names are treated as
documented whatever the operator configures; the access point is not raised
over a kernel without rules; the log loses no line that journalctl shows it; a
client is taken for the device it is; a bearer that was claimed works until it is removed
and not a moment longer; the admin pages are reachable and never public.

The browser client, the migrations, the preview and proof-of-concept commands
and the helpers (executor, validation, configuration, routing) are listed in
`PROJECT.json` with the reason each is left out (section 7).

## 2. Modules

    BleSession ── MCBleSession            runs radio, ble_live, newest_wins, removed_token
        └──────── BleSessionProofs
    SessionPump ─ MCSessionPump           runs pump, pump_live, reaper_conversation
        └──────── SessionPumpProofs
    LockGate ── LockWatch ── MCLockWatch  run lockwatch
                    └─────── LockWatchProofs
    Policy ──── AirGap ───── MCAirGap     runs airgap, open_air
                    └─────── AirGapProofs
    Leases ──── TrafficLog ─ MCTrafficLog run traffic
      │ Delivery ─┘ └─────── TrafficLogProofs
      └──────────── LeasesProofs ──┘
    Remote ──── Access ───── MCAccess     run access
                    └─────── AccessProofs

BleSession sees many sessions from outside: who has the adapter.  SessionPump
looks inside one of them: who gets a frame.  LockWatch sees a session only as
something that comes and goes and delivers frames.  AirGap composes Firewall,
DNS, Bandwidth, Hotspot, SNI proxy, the handlers that edit their tables and
main; Policy has their pure half.  TrafficLog composes the tails, the SNI
proxy's events, the caches, the device handlers and the scanner; Delivery is
the abstract specification it implements.  Access composes the bearers, the
login and the Tailscale mapping of Remote.

### BleSession

Models Open and everything that competes with it.  One member of `Opens` is one
POST /sessions request; since session ids are fresh random values, the request
also names the session it registers.  An action is one critical section of
`s.mu`, one operation on the `bleLock` channel or one call into the radio
library; anything may happen between two of them.

| Code | Model |
|---|---|
| bearer middleware, then `Open` up to `beginOpen` | `Authorize`, `OpenWithoutVIN`, `BeginOpen` |
| `preemptExisting`: snapshot of the ids, then `Close` of each | `PreemptSnapshot`, `CloseOne` / `CloseReturns`, `PreemptDone` |
| `AcquireBLEForVIN`: initAdapter, `Lock`'s two-way select, scan, connect, error paths | `Acquire`, `TakeLock`, `LockGivesUp`, `ScanAndConnect`, `OpenUnlock` |
| id generation, the `openSeq` test, registration, back-out | `NoSessionId`, `Register`, `BackoutDisconnect`, `OpenUnlock` |
| deferred `endOpen` | `EndOpen` |
| teardown: delete from the map, stopPump, `conn.Close`, `Unlock` | `ClientClose`/`CloseOne`/`Reap`, then `StopPump`, `ReleaseConn`, `ReleaseLock` |
| `touch`, the TTL and the reaper | `Touch`, `TTLPasses`, `Reap` |
| token removal and `CloseForToken` | `DeleteToken`, `Sweep`, `CloseOne`/`CloseReturns`, `RemovalReturns` |
| `sendUnauthenticated` (pairing) | the `Pair...` actions |

The handler's 30 s deadline and the client's disconnect are `ContextEnds`; once
Open holds the lock, a context that ends shows only as a failing scan, which
may fail anyway.  `panicked` records the `panic` of `bleLock.Unlock` and
`doomed` is a history variable (which Opens had begun when a sweep ran).  VINs,
error texts and audit records are left out.

### SessionPump

The inside of one session.  Frames are numbered; a frame answers one Exchange
call or nobody, which is what the correlators in the code find out.  Calls in
`Blind` carry no correlator and take the first frame that comes.  Channels are
records of a buffer and a closed flag, with their capacities (1 for a waiter,
`SubCap` for a subscriber); a send on or a close of a closed channel sets
`panicked`.  `routeFrame` is two steps, because the send to a claimed waiter
happens after `sess.mu` is released; lookup (`s.get`) and use (`sess.mu`) are
two steps in Exchange, Subscribe and Unsubscribe for the same reason.  The car
and the link are external: `CarSends`, `LinkDrops`.

### LockGate and LockWatch

`LockGate` has the pure operators of lockgate.go: `DecodeLockSignal` of a frame
(after protobuf decoding), `Apply`, `APShouldBeUp`.  `LockWatch` has the
goroutines: supervisor, ticker, any number of `ReportExternal` and
`SetEnforcer` calls.  `settle` is two actions, `Decide` and `Enforce`, with
`applyMu` held in between exactly when an enforcer is called; `at` is the time
that was read when the operation began and may be old when it is used.  At this
commit the daemon runs the watcher without an enforcer and has no caller of
`ReportExternal` ("PHASE 1 - OBSERVE ONLY", services.go), so the model is of
the component's interface as it is written, tested and documented.
Diagnostic counters and DescribeFrame are logging and are left out.

### Policy and AirGap

`Policy` says what the tables mean.  A database is a record of tables; a
configuration is what an Apply renders, abstracted to the decisions the system
takes from it: `Fate` is the path of a flow's first packet through the chains
prerouting and forward, `Resolves` is dnsmasq's suffix rule for `server=`
lines, `Spliced` the SNI proxy's decision, `shaped` the addresses `tc` limits.
A name has the set of names it equals or is below (`Zones`), so the suffix
rules are set membership.

`AirGap` is how tables become policy in force.  An actor (main, a request, the
SNI ticker) has a list of jobs, and each job is the service's Apply:

| Code | Model |
|---|---|
| `mu.Lock`, one query after the other | `Read` (one view per step), `Misread` where the code falls back to a default, `ReadFails` where it returns (in the firewall also when `ListRules` itself fails) |
| `Hotspot.Apply` rejects settings | `Refuse` |
| `os.WriteFile` | `WriteFile`; `WriteFails` and a crash leave the file torn |
| `nft -f`, `systemctl restart`, `tc`, the cache swap; `mu.Unlock` | `Load`, `LoadFails` |
| `SetEnabled` with Verify, reapply, Verify | `Verify` (three reads), `Raise`, `GateShut`, `Lower` |
| the handlers | `SetStatus`, `DeleteDevice`, `CreateRule` and so on: one write, then `todo` |
| `ApplyAll`, goroutines of main | `Init`/`Restart` with `todo[Main]`; requests, scanner and ticker only after it |
| scanner, ticker | `Scan`, `Tick` |
| crash of the daemon, reboot of the Pi | `Crash`, `Reboot` (each unit starts from its file, `Boot`) |

`stale` is a history variable: the services an error, or a handler that does
not apply them, has left behind the tables.  `InForce` promises nothing for
those, and everything for the others.

### Leases, TrafficLog and Delivery

`Leases` has the readers of dnsmasq's lease file and of the ARP table:
`mergeLeases` (a fold over the lines in file order), `mergeARP`, and the SNI
proxy's `clientMAC`.  Results that depend on Go's map order are sets.

`TrafficLog` has two tails (`ReadLine`, then `insertEntry` in a later step), the
cursor (`SaveCursor`, `StreamEnd`, `Open`), the SNI proxy's `LogSNIEvent`, the
three caches (`Query`, then `Swap`; `QueryFails`), the handlers with their later
statements (`DeviceIPByMAC`, `DeleteRow`, `WipeForDevice`), `cleanOldEntries`,
`Clear`, the scanner (`scan`, then `upsertDevice` device by device),
`Crash` and `Reboot`.  `done` counts how often each line was dealt with.

A tail that starts is shown what journalctl's arguments let through: with a
cursor the lines after it (`--after-cursor`), without one, or with one it cannot
read, the lines of the last day (`--since=1 day ago`, trafficlog.go:419-424), and
in the kernel's tail only the present boot (`-k`).  `aged` and `prior` say how
many lines of a journal are older than a day and older than the boot, `Age` and
`Reboot` move them on, `Hidden` is the last line that is not shown, and
`missed` records the lines a start has skipped without their having been dealt
with.  They are lost for good once a later cursor is saved past them.  The
lease file may be unreadable: `LogSNIEvent` then goes by the ARP table alone
(network.go:75-79), and `scan` by it too.  `Clear`'s statements, and the COUNT and
the SELECT of a page, are one step each; no property looks between them.

`log` is the table by
its AUTOINCREMENT id: a row, or `Nothing` where one was deleted (`Keep` is a
DELETE); `Clear` resets the ids as the code does.  `QueryPaginated` is an
operator on the log that returns the ids of a page; "ORDER BY id DESC" is the
number of matching rows with a larger id.

`Delivery` is at-least-once delivery with a horizon: a position may be
acknowledged only when every line up to it has been delivered or is lost, and a
line is lost only by a start at which it was shut out (`shut`: of an earlier boot),
or was a day old (`aged`) while nothing had been acknowledged or the
acknowledged position could not be read, which is a failure.  `DeliversJournal`
is `Delivery!Spec` with lines written, lines dealt with, the saved cursor and
`missed` for its variables.

### Remote and Access

`Remote` has tailscaled's serve configuration per port and the operations of
remote.go on it.  `node` is absent, without a login, starting (which stands for
everything Status reports as not authenticated although there is a login:
Starting, Stopped, an inactive daemon) or running.  tailscaled restarts and
comes up by itself, Install may be repeated over a node that runs, and either
may drop the mapping.  `alone` is a history variable: the node came up by itself
when main's goroutine was gone, and nobody has asserted the mapping since.
`Access` has the rest of who may do what.  A request is a
goroutine that takes one step per SQL statement or critical section: `Validate`
then `Claim` then perhaps `Revoke`; `IssueEphemeral`, `Prune`, `InsertToken`;
`Login`, `CheckPassword`, `StoreSession`, `recordLoginFailure` or
`recordLoginSuccess`.  `granted` and `removed` are history variables.  Whether
a password matches is a choice.

## 3. What is checked

| Run | Properties | What it shows |
|---|---|---|
| `radio` | TypeOK, RadioAccounted, OneLink, NewestFindsNoSession, SweptOpensStayOut | Two Opens, two tokens and their removal, closes, the reaper and pairing requests in all interleavings: `bleMu` is never leaked, shared or unlocked twice; one connection to the car at most, only under the lock; an Open that has preempted and is still the newest meets no session; an Open that had begun when its token was swept does not keep a session |
| `ble_live` | OpenReturns, StuckClientFreesRadio | Opens return without their deadline or the reaper having to fire; with the reaper, a vanished client loses the adapter |
| `pump` | TypeOK, DeliveryNeverFails, RightReply, OneDestination, NobodyHangs | A matched reply is never dropped and no channel is misused; replies are not mixed up between calls; a frame reaches one destination; after the pump has shut down, no select blocks |
| `pump_live` | NeverWedged, RemovalUnblocks, SlotsFreed | A subscriber that never reads does not stop the pump; removing the session unblocks every Exchange and frees every subscriber slot |
| `lockwatch` | TypeOK, OrdersObeyed, NoSessionNoHold, StopRaisesRadio, Converges | The actuator's last order is the recorded verdict; without a session the access point is not held down; Stop raises the radio that an attached watcher holds down on a verdict read off the link; a verdict that stays is in the end what the radio was told, also when only time changed it |
| `airgap` | TypeOK, InForce, ClassesHold, SealedNames, GateHolds, Settles | What kernel, dnsmasq, tc, hostapd and proxy act on is the tables as they are, as soon as no Apply is outstanding and none has reported an error, although each reads while the tables change; blocked, open, filtered and unknown devices are treated as the chain's comments say under any rules; no protected name is ever resolved or spliced; SetEnabled never starts hostapd over an empty kernel; every Apply ends and the proxy's cache catches up |
| `traffic` | TypeOK, DeliversJournal, RepeatsExcused, NewestLease, Recognised, PagesCover, CachesConverge, CaughtUp | The log implements at-least-once delivery of what journalctl shows: a saved cursor is behind every line not dealt with, save those a start was not shown (a day old without a cursor, or of an earlier boot); lines repeat only after a crash or a failed statement; the newest lease wins in any file order; a client is taken for the device that holds the lease, if the lease file can be read; the pages show every row once; caches and tails catch up |
| `access` | TypeOK, ClaimSticks, DeadStaysDead, Throttled, AdminStaysPrivate, AdminReachable | A bearer used in its window, or issued by the operator, works until removed; a spent bearer or a session that ended or expired never comes back, late statements included; parallel logins exceed the limit by no more than those that slipped through together; the admin pages share no port with Funnel, and are reachable while the node runs once boot and Up are through, unless a command failed or tailscaled came up by itself after the boot goroutine had returned |

Every property has a mutant in `PROJECT.json`: a plausible slip in the code
(`endOpen` without its number test, a waiter not removed from the list, a
cursor saved before the insert, last line of the lease file wins, a claim
written as an upsert, system filters deletable, a gate that tests only the
forward policy, and so on) under which TLC finds the property violated in the
same run.

### Four places where code and comment differ

Each has a run that exhibits the behaviour as a counterexample.

* `newest_wins`.  Open's comment says "Newest client wins: close the stale one"
  (tesla_session.go:200), but `preemptExisting` does not compare numbers.  Open A
  begins; Open B begins, connects and registers; A then snapshots the map and
  closes B's session, and backs out itself: nobody has a session.
* `removed_token`.  `CloseForToken` promises that "A removed user should lose
  access when they are removed" (tesla_session.go:707).  A request authorised just before the row is
  deleted that reaches `beginOpen` just after the sweep opens a session and
  keeps it until it idles out.  `SweptOpensStayOut` is the part of the promise
  that does hold, and it is proved.
* `reaper_conversation`.  "an active session never gets killed mid-conversation"
  (tesla_session.go:824): only a completed Exchange resets the idle clock, so
  the reaper can remove a session while one waits for its reply.
* `open_air`.  README.md:4 says "every outbound packet from every device on the
  hotspot has to be explicitly allowed".  A rule saved with the form's
  defaults (tcp, no port) renders as `tcp ... accept` (firewall.go:544), which
  nft refuses together with the whole file, already written.  The operator sees
  an error and the kernel keeps its rules; after a reboot nftables.service
  loads nothing, ApplyAll fails on the firewall, logs it and goes on to
  `Hotspot.Apply`, which restarts hostapd without the gate that `SetEnabled`
  insists on.  No accident is involved (`faults = 0`).  `GateHolds` is the part
  that holds: SetEnabled itself never does this.

### Observations

Met while modelling; none is a property of a run.

* Lock watcher: if Stop arrives between two attachments after a phone's report,
  supervise returns without a settle and the radio stays down, against Stop's
  comment (lockwatch.go:361).  Nothing calls ReportExternal yet.
* Firewall and friends: changing `dns_upstream` re-applies DNS, but Apply takes
  the upstream from the configuration file; the form's placeholder "80,443" for
  a port is not accepted by `portSpecRe`, so such a rule is skipped; the
  scanner's new device, a deleted device and `ap_country` are followed by no
  Apply of the firewall, bandwidth or hotspot (they are in `stale`); names
  below an exempt host are forwarded by dnsmasq's suffix rule; SetEnabled has
  no caller in production yet.
* Traffic log: `nflogMacRe` captures the whole frame header, so the MAC tests of
  `isIgnored` and `WipeForDevice` never match and devices are told by address
  alone (the comments at trafficlog.go:329 and :351 say otherwise); `Clear`
  leaves the cursors, its comment says it resets them; a slow refresh can undo
  AddMuted until the next tick; rows inserted between a wipe and the refresh
  stay; dnsmasq's log file is tailed from its end, so lines written while the
  daemon is down are lost; a cursor that cannot be read once costs the
  undelivered lines that are older than a day, and a reboot those of the kernel
  that were not read before it; the SNI proxy and the scanner start before the
  caches are primed.
* Remote access: "a reinstall / daemon restart / tailscale state reset can drop
  it, so we re-apply on every boot" (main.go:121-122).  The goroutine asks once;
  netfilterd.service
  is not ordered after tailscaled, so it may find tailscaled still starting and
  return, with no command having failed.  A mapping that was dropped then stays
  dropped until the next start of the daemon or Up.  The same holds for a
  tailscaled that is restarted later.  `AdminReachable` excludes exactly this case
  (`~alone`).
* Access: a code validated just before its window closes can be pruned before
  the UPDATE, whose error is dropped (`ClaimSticks` promises only claims made in
  time); a login that was under way when a lockout began may lift it early,
  by succeeding or by failing after the window of the first failure; the bound of `Throttled` needs `loginWindow < loginLockout`, which the
  constants satisfy; changing a password keeps the sessions, and
  `CleanExpiredSessions` has no caller.

### Bounds, and why they are enough

* BleSession: two Opens are enough for every pairwise race of the take-over
  protocol (newest against superseded, superseded in each phase), two tokens so
  that a sweep can meet its own and another token's Open.  `openSeq` needs no
  bound: it is at most the number of Opens plus the number of removals.
  Requests and tokens are interchangeable in `radio` (symmetry, invariants
  only).  `radio` has `MayPair = TRUE`.  `ble_live` has one token and no
  pairing, to keep the behaviour graph small; a pairing holds the lock only for
  radio calls bounded by its own context.  The proofs cover any number.
* SessionPump: two calls, one of them blind in `pump`, one subscriber with
  `SubCap = 1` (8 in the code; the full channel is the case that matters) and
  `MaxFrames = 2`, so that a late reply meets the next call and a full channel
  meets another frame.  The proofs cover any numbers and capacity.
* LockWatch: `MaxClock = 1`, `ActivityLease = 1`, so that a lease can be granted,
  run and run out; one reporter, one enforcer.  The proofs cover any numbers.
* AirGap: `MaxEvents = 2`, where an event is a request, a new address, a fault,
  a crash or a reboot, on top of the boot's own ApplyAll: every pair of an
  operation with another one, or with a fault, in every interleaving of their
  Applies.  Two devices, one of them unknown at first; a system filter with
  ports and a user's filter; five names around two protected ones, one with an
  exempt host below it; one rule slot with a usable row, one nft refuses and one
  that needs a host name resolved; the
  first boot with a good and with a torn nftables.conf.  The proofs cover any
  tables, names and number of events.
* TrafficLog: `MaxEvents = 2` likewise, a day passing and a reboot being events
  too; one journalled tail and one log file; the kernel's journal starts with a
  line that is a day old and was never read, or with an old line that was saved
  and a newer one that was not (`Before`), so that each start meets lines it is
  not shown, lines it has to read and lines it must not repeat;
  `CacheSize = 1` so that the name cache overflows; two devices and addresses,
  so that a device has two leases and an address changes hands; `PageSizes` has
  a size that is replaced by the default, and two that cut the log into several
  pages.  The proofs cover any values.
* Access: `MaxEvents = 4`, `MaxClock = 2`, two bearers, windows and sessions of
  one tick, `loginMaxFailures = 2`, `loginWindow = 1 < loginLockout = 2`, `Width =
  2` logins of one address at once: enough for a lockout reached by two
  parallel failures and for enrolment, claim, clean-up and removal to overlap.
  The run begins, where the node has a login, with the funnel of an earlier run
  in place (`MCInit`); without it the run would double for the state that a
  restart of tailscaled reaches with one event.  The proofs are about `Init`
  itself and cover any values.

`CHECK_DEADLOCK FALSE` appears only where requests or calls are used up and the
system is at rest.

### Fairness

Only the program's own goroutines are obliged to run.

* BleSession (`GoroutinesRun`): weak fairness of each request's steps, of a
  started Close, teardown and removal.  Scan and connect are bounded by their
  context.  `TakeLock` is strongly fair because goroutines that wait on a
  channel are served in FIFO order.  Nothing obliges a client, a deadline, the
  TTL or the reaper.  `StuckClientFreesRadio` adds the clocks as its hypothesis
  (`ReaperRuns`): without a reaper the statement would be false.
* SessionPump: the pump, stopPump after a removal, and Exchange without its
  timers.  Subscribers, the car and the timers owe nothing.
* LockWatch: goroutines and the ticker run.  `Decide` and `ForgetLastWanted`
  are strongly fair because `sync.Mutex` hands itself to a starving waiter.
  The car, the phone, the operator and the clock owe nothing.
* AirGap: an actor whose next step is possible takes it, well or badly (queries
  and commands return), and the SNI proxy's 30 s ticker ticks.  Weak fairness
  suffices although actors share mutexes, because requests are bounded.
  Nothing obliges operators, the scanner or faults.
* TrafficLog: handlers and the cache loop run, the 30 s ticker ticks, and a tail
  follows its stream and is started again when it has ended.  Saving a cursor,
  retention, writers, clients and faults owe nothing.

## 4. What is proved

All theorems hold for every value of the constants that satisfies the named
assumptions of the modules (`ConstantsAssumption`, `LeaseAssumption`,
`LockWatchAssumption`, `PumpAssumption`, `PolicyAssumption`, `AirGapAssumption`,
`SeedAssumption`, `LeasesAssumption`, `TrafficLogAssumption`, `AccessAssumption`).
Most say that markers are distinct from values and bounds are naturals.  The
ones with content are:

* the login window is shorter than the lockout (auth.go's constants);
* the zones of a name are suffixes of it, so of two of them one is below the
  other; the rule slots are finitely many integers (row ids); user filters have
  no ports of their own;
* the filters a migration seeds list only names that the handlers would accept
  (`SeedAssumption`; so it is for the names in migrations.go);
* the leases there are at the start are finitely many and give no address to two
  devices.

TLC evaluates these assumptions in the runs.

**BleSessionProofs.**

* `TypeCorrect`.
* `RadioIsAccounted`, `OneLinkAtATime`, `OneSessionAtATime`, from the inductive
  `RadioInv`.  RadioAccounted alone is not inductive: an Open and its own
  session could both claim the lock.  `SessionAfterOpen` excludes that, and
  `LinksAccounted` says exactly who has a connection.
* `PreemptionSuffices`, from `TakeoverInv`: numbers are unique and never ahead of
  `openSeq` (`SeqsDistinct`), and what the newest Open has yet to close is in
  its snapshot (`NewestIsClearing`).  Only the newest may register, so no
  session appears behind its back.
* `SweepIsFinal`, from `SweepInv`: `pendingCancel` belongs to the newest Open
  while it is in flight (`NewestIsPending`), so the sweep either supersedes a
  doomed Open or finds its session in the map (`DoomedAccounted`).

**SessionPumpProofs.**  `RoutingInvariant` is the inductive invariant, and
`TypeCorrect`, `DeliveriesSucceed`, `RepliesAreRight`, `OneDestinationEach` and
`NobodyIsLeftHanging` follow from it.  None of these properties is inductive.
The invariant adds:

* `InOrder`: frames are numbered in order of arrival and what is unread came
  after all that is elsewhere.  Without it OneDestination could break by a frame
  that was already given away being read again.
* `Registered`, `Fresh`: a registered waiter is in the list once and its channel
  is untouched, so the send of capacity 1 cannot find it full or closed.
* `InHand`: between the two halves of `routeFrame` the pump carries a frame for
  a call that has left the list, whose channel is still empty.  This is what
  makes the send outside `sess.mu` safe: `UnregisterWaiter` of the same call
  finds nothing, and shutdownPump is later in the same goroutine.
* `Ended`, `Subscribed`: shutdownPump has run exactly when `closed` is set, and
  then both lists are empty for good; a listed subscriber's channel is open, so
  only one of Unsubscribe and shutdownPump closes it.
* `Attended`: a waiting call is in the list, or the pump has its frame, or its
  channel holds a frame or is closed.  With `Ended` this gives NobodyHangs.
* `Claimed`: what lies in a waiter's channel answers its call.

**LockWatchProofs.**

* `TypeCorrect`, with lemmas on the gate's operators.
* `ActuatorAgrees`, from `OrderInv`: the holder of `applyMu` is the settle inside
  the call (`LockHeld`); the call is for the recorded verdict and, with no
  SetEnforcer under way, for the installed enforcer (`OrderIsVerdict`); an unset
  verdict is about to be settled (`InstallerSettles`); otherwise the last order
  stands (`LastOrderStands`).
* `FailsOpen` and `StopFailsOpen`, from `QuietInv`: a detached watcher that no
  phone has reported to has an empty gate, and an empty gate says up whatever
  the time.

**AirGapProofs.**  `PolicyInvariant` is the inductive invariant.  Its parts:

* `Running`: the plans an actor can have, and for each mutex who holds it, at
  which step, with how many views read.
* `Fresh`: for a service that is not in `stale`, what the holder of its mutex
  has read so far equals the tables, unless another actor has still to apply the
  service; and with nobody left to apply it, what is in force is what the tables
  say.  An edit that lands between two reads of an Apply breaks the first half
  only together with an Apply that follows: every handler either applies what
  it changed or puts it into `stale`.  This is the heart of `PolicyInForce`.
* `Sealed`: only names that may be listed are in the tables, in what was read,
  in dnsmasq's file and in dnsmasq.  `NamesStaySealed` needs in addition that
  a protected name has no listable name above it, which is where the zones being
  suffixes is used.
* `FwReads`: what the firewall has read makes a ruleset.
* `Seen`: once Verify has seen the forward chain, the kernel has rules until a
  reboot, which ends SetEnabled.  `GateIsKept` follows.

`ClassesTreated` follows from `PolicyInForce` and the path of a packet through the
chains: a lemma says what `Fate` is, case by case, for the ruleset that
`generateConfig` makes of the tables, with the first matching rule as the least
in the order of priority and id, which exists because the rules are finite.

**LeasesProofs.**  `MergeKeepsNewest`: what the loop of `mergeLeases` finds, for
every file.  The loop is a fold, so this is an induction over the lines.  The
library's induction theorems take an operator, which the provers cannot
instantiate; the lemma `SetInduction` states induction for sets of naturals
instead, from the least element of the set of counterexamples (`WFMin`), and
`LoopExists` uses it to show that the function the fold is defined by exists.

**TrafficLogProofs.**

* `TailsInvariant`: the inductive invariant of the tails.  NoGaps alone is not
  inductive: the cursor that will be saved (`last`) must itself have no gaps
  before it, except the line that is still pending, and a stream that starts
  does so behind lines that have all been dealt with or are in `missed`.  The repeats are
  counted against crashes and faults in the same invariant, line by line:
  lines at or before a running tail's position may have been dealt with once
  more than lines after it.
* `CursorSkipsNothing` (the invariant NoGaps, which `DeliversJournal` implies and
  the runs therefore do not repeat), `RepeatsAreExcused`, from it.
* `ImplementsDelivery`: the refinement.  Under the invariant a line that is dealt
  with is a `Deliver`, a saved cursor an `Ack` whose guard is NoGaps for the
  new position, a line written a `Write`, a day passing an `Age`, a reboot a
  `Shutdown`, a tail that starts a `Start` that loses what it is not shown, and every
  other step a failure or a stutter.
* `ClientsRecognised`: dnsmasq leases no address to two devices, which `Lease`
  preserves, so the holder found by `clientMAC` is unique.
* `NewestLeaseWins`: the lease table stays a finite set of leases, so a file of it
  lists each once, and `MergeKeepsNewest` applies.
* `PagesShowAll`: the number of newer matching rows is a bijection from the
  matching rows onto 0 .. n-1 that reverses the order of the ids, and the pages
  are consecutive intervals of it.  Division is only used through its defining
  inequality.
* `TypeCorrect`, from the invariant of the tails together with the types of the
  tables and of the journals.

**AccessProofs.**

* `TypeCorrect`.
* `ClaimsStick` from `BearerInv`: a claim under way is for a bearer that was
  issued and whose row still has the window the request read, or has become
  permanent, or was removed; a granted bearer not removed has a row without
  window; a removed one has no live row.  The last two are the property's
  strengthening: a claim's UPDATE only touches a row that is there.
* `DeadForGood`, an action property, from the same invariant: row by row, which
  step could make a spent bearer live, and why its guard fails; and a session
  whose login is answered is written by nobody but its end.
* `AdminPrivate`: the admin path is only ever on its own port and Funnel only
  ever on its own (`PortsApart`), which depends on the two ports being different.
* `AdminStaysReachable`: inductive with the type invariant; the cases are the
  interleavings of the boot goroutine with Up, Logout, Install and tailscaled's
  own restarts.  The node comes up with the goroutine gone only into `alone`.
* `LoginsThrottled` from `ThrottleInv`: at most `Width` logins of an address are
  under way; a bucket with enough failures is locked at least until its window
  has passed, so a failure still counted into it meets it locked (this is where
  `loginWindow < loginLockout` is used); and while it is locked no login begins,
  so failures plus logins under way do not grow.

## 5. What is only model-checked

The liveness properties: OpenReturns, StuckClientFreesRadio, NeverWedged,
RemovalUnblocks, SlotsFreed, Converges, Settles, CachesConverge and CaughtUp.
Fairness and ENABLED are outside what the proof system handles.  Every invariant
and every action property of a passing run is also a theorem.

## 6. Abstractions to keep in mind

Frames are not bytes: the correlator scan (`scanProtoField`, `readVarint`) is
represented by the call a frame answers, and protobuf decoding by the fields
DecodeLockSignal reads.  Configuration files are not text: a file is what its
reader decides from it, torn, or (for rules) refused as a whole.  A rule matches
on device, protocol and port; addresses and ranges are left out, except that a
host name may fail to resolve and that `tcp` or `udp` with an address is a line
nft refuses (`Loads`).  Established flows pass, so `Fate` is of
first packets.  One SQL statement is one step, because database.Open allows one
connection.  Time is a small natural number, or the single fact that a timer
has passed.  LockWatch knows a session only as up or down; that there is at
most one is BleSession's `OneSessionAtATime`.  External behaviour (what
tailscaled, dnsmasq, nft and journalctl do) is modelled from how the code uses
it: that a logout or a restart may or may not drop the serve configuration, that
nobody but the daemon puts a handler on :443 (an operator's, or one left by the
earlier version that remote.go:100-103 mentions, would be published by the
Funnel; `Init` assumes there is none), that the journal keeps its lines (rotation
is not modelled), that dnsmasq
leases an address to one device at a time, that nft takes a file as a whole.

## 7. Not modelled

* The wire scanner behind the correlators, the ClientHello parser and the
  regular expressions of the log: bytes and text.
* `EnsureDefaultDenyConfig` and `EnsureNoDnsmasqHijack`, which repair files of
  older installations before anything else runs.
* The migrations, each SQL text in a transaction of its own; full-text search
  and statistics, which only read.
* The spoofed hosts' static answers, the certificate, the key pair of the
  signer, system status and reboot, validation, configuration, routing and
  templates: no state of their own, or pure I/O.
* The browser client, a second program on the far side of the API: it is
  represented by clients that may call anything at any time.  The preview and
  proof-of-concept commands are tools.

## 8. Plan

1. **RadioLease**: an abstract specification of the adapter (free, or leased to
   one party, with preemption) refined by BleSession.
2. **Wire**: `scanProtoField` and `readVarint` with w-bit arithmetic against a
   reference scanner over short inputs.
3. LockWatch's enforcer as the caller of `SetEnabled`, once the code wires it.
