# A TLA+ model of ZicNode

ZicNode connects a machine to a ZicBoard panel: one process asks the panel which nodes
(inbounds) to serve and for which users, runs a modified xray-core for them, counts and
reports traffic, and follows every change of the panel or of its config file without a
restart. These modules model the parts of it that run concurrently and fail, TLC checks them
on small instances, and TLAPS proves the safety properties for every instance. Paths are
relative to `src/`.

## The system

| component | code | state | operations |
|---|---|---|---|
| reload loop | `cmd/server.go` | `current` bundle, `reloadCh` (one slot) | load, prepare, compare signatures, close, start, shut down |
| node controllers | `node/node.go`, `node/controller.go` | tag, node info, fingerprint, user list, tasks | `New`, `Prepare`, `StartPrepared`, `Close` |
| periodic tasks | `common/task/task.go` | interval, running flag, `Stop`, one-slot `changed` | `Start`, `SetInterval`, `ExecuteWithTimeout`, `Close` |
| monitor | `node/task.go`, `node/user.go` | none of its own | `nodeInfoMonitor`, `reportUserTrafficTask` |
| panel client | `api/zicboard/*.go` | hash of the last node answer, ETags, user list | `GetNodeInfo`, `GetUserList`, `GetUserAlive`, reports |
| core | `core/core.go`, `core/node.go`, `core/user.go` | the xray instance, inbounds, accounts, `uidMap` | `Prepare`, `StartPrepared`, `Close`, `AddNode`, `DelNode`, `AddUsers`, `DelUsers` |
| limiter | `limiter/*.go` | global registry by tag; users, online addresses, buckets | `AddLimiter`, `DeleteLimiter`, `UpdateUser`, `CheckLimit`, `GetOnlineDevice` |
| dispatcher | `core/app/dispatcher/*.go` | `LinkManagers`, `Counter` (both `sync.Map`) | `getLink`, `DispatchLink`, `CloseAllManagedLinks` |
| traffic counters | `common/counter/*.go` | two atomics per user | count, read, reset |
| inbounds | `core/inbound.go` | none | build an inbound from a node's information |
| config file | `conf/conf.go`, `conf/watch.go` | hash of the file, the ten deaf seconds | load, watch |
| certificates | `node/cert.go`, `node/lego.go` | files of certificate, key, account, metadata | choose, request, renew |
| routes | `core/custom.go`, `core/outbound.go` | none | build rules and outbounds; the dispatcher follows them |
| WARP | `core/warp.go` | the sidecar file | load, register, save an identity |
| rate limiting | `common/rate/*.go` | the rate of a bucket | wait, change the rate |

The rest builds library values from decoded fields (account builders), is generated, copied from
the library (sniffers), or wraps the standard library. `PROJECT.json` lists every part, with the
reason where it is left out.

How they interact. The main goroutine is the only one that creates and closes bundles. Each
controller starts periodic tasks; their executions call the panel, then the core and the
limiter, and set each other's interval. When a monitor sees a node that needs another core, or
a certificate was renewed, it puts an event into `reloadCh`; so does the watcher of the config
file; an event that finds the slot taken is dropped. During a reload two bundles exist, and
they share three things: the ports, the panel, and the registry of limiters, which is global
and keyed by tag. Every connection runs in goroutines of its own through the registry, the
limiter and the two maps of the dispatcher, while the monitor deletes its user or the main
goroutine closes the core. A start, a reload and the renewal task write the same certificate
files; the core that is being built reads them, and the node's sidecar.

What is hard, and so what the properties are about:

* several goroutines, without a common lock: `SetInterval` against the loop, executions that
  outlive their timeout against the next ones and against `Close`, connections against
  `DelUsers` and against the closing of the core;
* failures in the middle: of loading, preparing, closing, starting, of one request, of one user
  of a list;
* things remembered before they are used: the hash of an answer, the ETag of a list;
* entries of concurrent maps that are looked up and stored in two steps, by connections and the
  monitor: buckets, online addresses, counters, link managers;
* files that are truncated and written in place, by requests that may overlap or be cut;
* one list of rules for all nodes, where the order decides;
* a watcher that is deaf for a while after every event;
* one-slot channels that drop events;
* things that must happen in the end, though an `Execute` may hang for ever.

What makes each component correct: a task follows its interval, keeps ticking and stops; the
process always serves one complete runtime and nothing of another, and ends up with what the
panel says; the four copies of a user list agree with the ETag the client sends; every user is
billable; links of a deleted user or a closed core are cut; the devices and the speed of a user
are what the limits allow; no connection leaves by another way than its node's panel said; a
certificate and its key match and are renewed; a node keeps its WARP identity; a write of the
config file is noticed. Where the code has gaps, the properties name them and say that there are
no others.

## Modules

| module | models | composes |
|---|---|---|
| `LatestValue` | what a component promises that is reconfigured while it runs | |
| `PeriodicTask` | `common/task/task.go` with its callers; implements `LatestValue` | `INSTANCE LatestValue` |
| `Reload` | reload loop, controllers' lifecycle, core lifecycle, registry of limiters, watcher, the node half of the monitor | |
| `UserSync` | the user half of the monitor on client, core, ids and limiter | |
| `Dispatch` | connections, link managers, `DelUsers`, closing of the core | |
| `Traffic` | traffic counters from a connection's packets to the panel's books | |
| `NodeSettings` | a node's answer from its decoding to the inbound, and what the monitor and a reload do with the next one | |
| `DeviceLimit` | the devices of `CheckLimit`, `GetOnlineDevice` | |
| `SpeedLimit` | the buckets of `CheckLimit` and `UpdateUser` | |
| `Routing` | rules and outbounds of all nodes, and the way of a connection | |
| `CertStore` | requests for a certificate on its files, in starts, reloads and renewals | |
| `WarpIdentity` | the identity of a node with WARP, its sidecar file | |
| `ConfigWatch` | the watcher of the config file and the loads of the file | |
| `MCServing`, `MCUpkeep` | instances for TLC of the parts, one at a time | `NodeSettings`, `DeviceLimit`, `SpeedLimit`, `Routing`; `CertStore`, `WarpIdentity`, `ConfigWatch` |
| the other `MC…` | instances for TLC | |
| `DeviceLimitProofs`, `ServingProofs` | theorems about the parts of `MCServing` and about all of it | |
| `UpkeepProofs` | the same of `MCUpkeep` | |
| the other `…Proofs` | theorems about the module of that name | |

Actions carry the names of the functions or of what the step does; `PROJECT.json` maps each
definition to its lines. A definition that stands before the one it is a variant of, and that
nothing uses (`…Unbuffered`, `…Later`, `…Kept`, `…Short`, `…Copy` and the like), is the code with
a plausible bug: each property is checked to fail on one of them.

**PeriodicTask.** `interval`, `running` and `changed` are the fields of `Task`; `loop`,
`local`, `armed`, `fired` the goroutine of `Start`, its variable, its timer; `exec` has the
goroutine of each execution (in the body, or with its result in the buffered channel); `setter`
has the callers between the unlock in `SetInterval` and its non-blocking send. Time is abstract:
a timer fires and a deadline passes at any moment.

**Reload.** `rt["current"]` and `rt["prepared"]` are the two bundles: config, nodes, the answers
they were built from and those their clients saw last, state of the core, inbounds, running
tasks, executions in flight. `pc` is the main goroutine between two points where another
goroutine can matter; each request to the panel, each node it starts or closes is a step, and
each step that can fail has its failing action. A body of an answer is a model value with two
functions, `Fp` (the fingerprint as decoded) and `Settled` (after `Prepare` normalised the
certificate settings in place), a content of the file one with the nodes it configures and its
part of the signature.

**UserSync.** One node that has been started. `etag` stands for the list of the last full answer;
`userList`, `core`, `uids` and `limits` are the four copies. Up to two executions overlap, each
at its stage with the list it got and the difference it computed. `DelUsers` and `AddUsers` hold
`mapLock` from end to end, so each is one step, and may stop at any user.

**Dispatch.** One node. A connection is at a line of `getLink`; a manager has the name of the
connection that made it. `LinkManagers.Load` and `Store` are two steps. `CloseAll` takes the map
under its lock and closes the links without it. The task and the main goroutine cut links at the
same time. A dispatch asks the limiter and nothing else: a session of mux, anytls, hysteria2 or
tuic has authenticated once, so that `Accept` takes any user, with an account or without.
`limiter` is what the registry has for the tag: the entry of this runtime, none (also while it
serves, after a reload that changed nothing, `DiscardPrepared`), or that of the runtime a reload
has started since (`AddLimiter`), whose users may be any. `SkipUpdate` is a `DelUsers` or
`AddUsers` that fails at another user, after which the limiter is not told of those that are
deleted already. `escaped` is a history variable: the connections that were in `getLink`, past
the limiter, when a cutter looked for the managers (past `GetLimiter`, when the core closes),
those in a manager another first connection of the same user stored over, those a limiter let in
late that still knew the deleted user, and those the next runtime's limiter let into the closed
core. The code misses these and no others; that is what the two properties about cutting say.
`DispatchLink` registers links as `getLink` does. A writer's `Close` (leave the manager, then
close) is one step, since nothing looks at a link that is neither in a manager nor closed.

**Traffic.** The counters of the same node. A counter is the set of the packets counted into it,
so that it can be said of every packet where it went; uploads and downloads, which the code
treats alike, are one. A first connection, of any user the limiter has let in, deleted or not,
loads and stores the node's `TrafficCounter` in two steps, and an execution of the report loads a
user's counter and stores zero in two steps, while connections count. `mapLock`, held for reading
by executions that take counters, is the guard `Taking = {}` of `DeleteUser` and `AddUser`.
Histories: `sent`, `billed` and `lost` packets; `repeated`, whether two executions took counters
at once or a request was retried after the panel had booked it; `stranded`, the connections that
count into a storage no report reads, because another first connection stored over the node's
counters or the user was forgotten; `dropped`, those storages, with what they held and what is
still counted into them. One core: the next one shares no counter with it, so that what no report
has taken when it closes is gone.

**NodeSettings.** One node. An answer is a record of the fields that decide something: protocol,
TLS, mode and spelling of the certificate, transport, intervals. `Decode` is `GetNodeInfo`,
`Requested` what `requestCert` rewrites in place, `CoreFingerprint` and `buildInbound` the two
functions of the result that matter. The monitor and a reload each have a client and take answers
of their own. A reload whose configuration file cannot be loaded keeps the old runtime, also when
the node's own monitor has asked for it (`LoadFails`); one that cannot be prepared does so only
if something else has (`PrepareFails`). `lost` says that the answer it was for is not asked for
again. What comes out of it, beside the properties: a mode or target that the panel spells
differently from what `requestCert` makes of it (`AUTO`, `host:443`) makes the monitor request a
reload that is then skipped, and a change of the intervals that came with it is lost (`Followed`
says so); a pull interval of zero makes every execution time out at once (`info.pull > 0` guards
the monitor); vless and vmess without network settings are served over plain TCP whatever the
panel says; an unknown network, or settings that are a list, end the program for all its nodes.

**DeviceLimit.** The node passes on what the panel says of limits and living devices, so both are
read as any number at the moment of the check. `online` is `UserOnlineIP` (the sets in its maps),
`old` is `OldUserOnline`; a connection is in `CheckLimit` at one of its four map operations, a
report between the reading and the deleting of one user's map. `map[c] = "loose"` is a map that
was taken off while the connection held it. `seen` and `listed` remember what was let in and what
was reported; `mislaid` and `warranted` name the gaps. Two executions of the
report are taken not to be in `GetOnlineDevice` together: it does no I/O. A connection over
UDP of a protocol on TCP takes no part in it.

**SpeedLimit.** One user, since users do not meet. `place` is a connection's step between the
limit it read, the load and the store of a bucket; `update` is the monitor's. `astray` are the
connections a change of the limit does not reach. A change of the device limit alone updates the
bucket as well (`ModifySpeed` with the same speed). `l.SpeedLimit` and `UpdateDynamicSpeedLimit`
have no caller, so that the user's own limit is the only one.

**Routing.** `GetCustomConfig` reads the routes of one node after another and then builds its
WARP outbound; `config` is what it has made so far, `solo` what it would have made for each node
alone, and `routedDispatch` the way of a connection by such a config. The panel's routes are
drawn as they are read, so that TLC tries every list. A rule that is kept for an outbound that
cannot be built closes its connections rather than letting them out elsewhere (custom.go:285);
two nodes that use one tag share the outbound of the first (custom.go:279); a route without a tag
makes the build fail for all nodes (custom.go:385).

**CertStore.** One TLS node in one of the modes `file`, `self`, `managed` (ACME) and `auto`
(ACME, or self-signed when it fails). A file is a certificate, absent or torn; each request is at
a step of `requestCert`, and each write is a truncation and a filling. A request is part of a
start, a reload or a renewal; the renewal of a controller that was closed goes on (`late`). A
crash may come between any two steps, and a reload that fails may end the program in the middle
of another request. `soiled` says that the files were left by a cut or by two requests at a time,
until a request that is alone has written them. By design a request whose ACME fails overwrites a
certificate that is merely due by a self-signed one in mode `auto`; a reload for a renewed
certificate alone is skipped, since no signature contains it, and what serves it is the hourly
re-read of xray (`OcspStapling`, inbound.go:170); an account file that was torn stops renewals
for good (lego.go:282), which `Renewed` names.

**WarpIdentity.** `build` is a step of `resolveWarpRuntimeConfig`, `sidecar` the file, `runtime`
the identity in use. Fields follow one rule (the panel's value, the registered one, the default),
and two of them stand for all. Any error of reading an existing sidecar registers anew and
overwrites it (warp.go:126), which `unread` notes; what the panel set at the registration is
written into the sidecar and stays after the panel took it back.

**ConfigWatch.** `phase` is the program on its way from loading the file to watching it, `step`
the goroutine of an event, `deaf` the ten seconds in which other events are dropped. Contents
stand for their hashes. `Replace` is an editor that renames a file over the old one, which ends
the watch. A reload takes a content up or keeps the runtime: for a bad file, and for a content
with the same nodes (`Local`, its part of the signature) if these cannot be prepared or turn out
unchanged. That content counts as known all the same; `skipped` is the last one, of which the
core's log settings are not in force (the program's own are, if the nodes were prepared).
`overlooked` says that the last write was one nothing will look at, `mistaken` that the last look
took a content for known that no reload has brought to the runtime.

## Runs

| run | instance | states | shows |
|---|---|---|---|
| `periodic_task` | 3 intervals, 2 overlapping executions, 1 peer | 8,559 | the loop comes back to its select though executions hang, ends after `Close`, loses no change of its interval, implements `LatestValue` |
| `reload` | 2 nodes, 3 contents and a bad one, 3 answers, 1 write, 1 change | 1,059,741 | a resting process serves one complete runtime, no two cores are open, the registry follows |
| `reload_changes` | 1 node, 2 contents and a bad one, 2 answers, 2 writes, 2 changes | 777,074 | seen changes have an event queued; the process ends up with what the panel says |
| `user_sync` | 3 users (one unusable), 6 lists, 2 executions, 3 changes | 157,000 | ids for all users, copies agree, the last list is reached |
| `dispatch` | 2 users, 3 connections | 3,441,250 | managers hold open links only; cut users and closed cores keep only escaped links |
| `traffic` | 2 users, 2 connections, 3 packets, 2 executions, minimum 1 | 1,159,085 | open connections count where the report reads; counters it does not read are those of deleted users or overwritten; a packet is lost in three named ways only; none is billed twice |
| `serving` | one part at a time: settings (98 answers, 7 of them later), devices (2 users, 2 addresses, 2 connections), speed (2 connections, 3 speeds), routes (2 nodes, 3 routes) | 1,386,057 | what stands between the panel and a served connection: the inbound has the TLS and the certificate its node asks for and follows the panel; known devices are let in and others checked; speed follows the limit; no traffic leaks and nodes do not disturb each other |
| `upkeep` | one part at a time: certificate (2 requests, 2 certificates, 1 crash), identity (1 value of the panel, 2 registrations), watch (3 contents and a bad one) | 542,628 | what is kept in files: certificate and key match, a valid one is kept and a due one replaced; the WARP identity stays; a write of the config file is found but in the named cases, and a content passed over has the nodes that run |

`serving` and `upkeep` are sums: a behaviour belongs to one of the parts, chosen at the start by
the variable `part`, and the others stand still. The parts share no variable and do not interact;
they are together because each is small.

Why these bounds are enough to see the interesting cases. A task's `changed` channel has one
slot, so two callers and three values reach a signal that stands for several changes; two
executions are the abandoned and the current one. Two nodes let a failure come between the first
and the second; three contents are one that changes the nodes, one that changes only what no
runtime depends on, and one that does not load; three answers are two that `Prepare` makes equal
and one that needs another core. With two writes and two changes an event can be dropped at a
full slot, be consumed in the middle of a reload, and a node can change back. Three changes of
the list let an abandoned execution with an old list meet a new one. Three connections of one
user are a first, a second first one that stores over it, and one that joins either. Counters
`edits` and `changes` are only bounds on the environment. `reload` and `reload_changes` divide
the properties so that each instance stays small. With a minimum of one, two packets make a
counter due and the third falls between its load and its zeroing; two connections are two first
ones of a node, or of a user; two executions are the abandoned and the current one. Two
connections at a time are one that registers an address and one that joins, is refused or comes
from another user at the same address, and the history is kept of one pair of a user and an
address, which by symmetry is any; limits of 0 and 1 with 0 or 1 devices alive are all outcomes
of the comparison. Four buckets are those of two connections, the registered one and a new one.
Two nodes with two and one routes let a rule of either stand before the other's, and outbounds
come twice with one tag, unbuildable and without a tag. Two requests are the renewal and a
Prepare, or two renewals of which one is late; two certificates are an old and a new one, and
`Renewed` names the bound. Two registrations are the first and an undue second one. Three
contents are the one that runs, the one that was hashed and the one that is there; two of them
configure the same nodes. `dispatch` and `traffic` use symmetry of users, connections, packets
and executions, and `serving` that of the connections in `CheckLimit` (they check invariants, and
`serving` one property of single steps); `dispatch` has no deadlock check, since connections are
used once each and the closed process does nothing.

### Where the code and its own statements disagree

Each of these runs checks one property and finds it violated.

* `reload_limiter`, `ServingHasLimiter`. A reload that finds the signature unchanged discards the
  prepared runtime by closing it; its controllers know their tags already, so `Controller.Close`
  deletes the registry entries of the nodes that serve. New connections are rejected with
  `limiter_not_found` until the next full reload. A write of the config file that keeps the nodes
  is enough.
* `reload_panic`, `NoPanic`. `Task.Close` neither cancels nor waits for the execution in flight;
  the core's fields are then set to nil under it.
* `reload_lost`, `NodeChangeNotLost`. The client remembers an answer before the reload it asks
for. If that reload ends as `keep_old_runtime`, the change is not asked for again.
* `user_sync_retry`, `RetriedNextTick`. The ETag of a list is stored when it is decoded. If the
  execution then times out or fails half-way, the next ticks get 304 and the list is not applied.

The passing properties name these and the other exceptions where they bite (`skipped`,
`retained`, `hurt`, `escaped`, `stranded`, `dropped`, `lost`, `repeated`, `mislaid`, `warranted`,
`astray`, `soiled`, `unread`, `overlooked`, `mistaken`), so that they say what is true of
everything else. Each of these is a history variable that an action sets at the line where the
exception happens.

## Fairness

* `PeriodicTask`: weak fairness of the loop (it always has a next step out of a timeout) and of
  each pending send (it does not block); strong fairness of the stop case, because Go's `select`
  picks at random among ready cases. Nothing is assumed of `Execute`.
* `Reload`: weak fairness of the main goroutine (every request has a timeout, it waits for no
task), of the watcher's check (a sleeping goroutine wakes up), of each monitor (tasks tick, which
`PeriodicTask` shows). Nothing makes a failing step fail or succeed, and nothing makes the panel
or the file change.
* `UserSync`: weak fairness of ticks and of an execution past its request; strong fairness of an
  answer with a list: a panel that is asked again and again answers in the end. `Converges`
  depends on it, the safety properties do not.
* `CertStore`: weak fairness of each request (its steps are bounded by timeouts), of the service
  manager that starts the program again and of the renewal task's executions; strong fairness of
  ACME, which succeeds now and then if it is asked again and again. Only `Renewed` depends on it,
  and in `upkeep` it is assumed of the behaviours of that part.
* `Dispatch`, `Traffic` and the other modules have no liveness property and no fairness.

## Proofs

The theorems hold for any constants that satisfy the named assumptions of the modules; TLC
evaluates those on every run.

* `PeriodicTaskProofs`: `TypeCorrect`, `NoIntervalLost`, and `FollowsSafely`, the refinement of
`LatestValue` without its liveness. `IntervalTracked` is not inductive, since the loop takes the
interval one step before it arms the timer; `Tracked` adds that step.
* `ReloadProofs`: `TypeCorrect`, `AlwaysServesComplete`, `NeverTwoOpenCores`,
  `RegistryAlwaysFollows`, `NoFileRequestLost`, `NoNodeRequestLost`. `Coherent` says for each
  phase of the main goroutine what it has established of the two bundles and the registry (while
  closing, the registry holds nothing outside `todo`; while starting, exactly the nodes outside
  it). `Requested` says where a pending request is at each phase: in the slot, or ahead in the
  reading of file and panel. `BaseKnown` is needed since `Differs` compares with an answer
  that must be there. The assumptions used: contents with the same local part configure the same
  nodes, `Settled` is idempotent on the answers, and `None` and `Bad` are values of their own.
* `UserSyncProofs`: `TypeCorrect`, `AlwaysBillable`, `AlwaysSynced`. `BillingKnown` is inductive
  with types. `Synced` speaks of rest only; `InStep` follows the single execution that is not
  abandoned through its stages.
* `DispatchProofs`: `TypeCorrect`, `NoDeadLinks`, `DeletedAlwaysCut`, `ClosedAlwaysCut`.
`Consistent` ties managers, links, connections and cutters to one user; `WithinReach` says that a
link is in its user's registered manager, on its way there, taken by a cutter or escaped;
`TaskCuts` and `MainCuts` what each cutter has left of a user's links where it is: what a limiter
lets in after its user was cut is in `escaped` from then on. Unregistering a manager is the
delicate step: it removes whatever is registered by then, and is harmless because nothing within
reach is left of that user.
* `TrafficProofs`: `TypeCorrect`, `AlwaysReachable`, `NothingVanishes`, `NeverBilledTwice`.
`Reaching` adds to `CountsReachable` that a connection about to look for its storage does so in
the registered table; `Filed` adds to `Collected` that a stranded connection counts into a
storage known to be dropped. `Accounted` is inductive with types: each step moves packets from
one place of it to another; the two together are `Kept`. `BilledOnce` follows from `Separate` and
types: only one execution takes counters as long as nothing is repeated, and what it has read is
still in the counter it will zero. Counters as sets of packets need no theory of sums.

* `DeviceLimitProofs`: `TypeCorrect`, `AddressesRemembered`, `KnownLetIn`, `LimitIsHonoured`.
`Mapped` ties the map a connection works on to the user's entry. `Sole` makes `Remembered`
inductive and gives the action property `KnownNotRefused`: of an address that is not mislaid, one
connection at most has registered it and is not through, so no other can take it away or let it
in before the check; while that one waits for its check, the address is not let in yet, and if it
was reported, `OldUserOnline` has it. `Warranted` says of addresses outside the named gaps that
no report has taken them.
* `ServingProofs`: `TlsIsServed` and `AnswersFollowed`; `LimitIsFollowed`; `NothingLeaks` and
`NodesAreIsolated`; `ServingTypeCorrect` and, for each part, its type invariant. `SettingsShape`
says that everything a controller has follows from its node information, of which a monitor that
takes over intervals must not disturb what the inbound was built from; `Pursued` where an answer
is that does not run yet: with a reload, or lost with one that kept the old runtime. `InReach`
follows the registered bucket through an update, in which connections may hold it at its old rate
(`dated`). `Covered` says which rules a node has once it has been read, and that a DNS rule is of
nodes without WARP only. `Embedded` is the argument for `Isolated`: an order-preserving map takes
the rules a node would have alone onto the rules of the common list that apply to it, and
outbounds with tags no other node names are the same in both; so the first rule that applies is
the same, and so is where it leads. That there is a first one is `Least`, from the
well-foundedness of the naturals.
* `UpkeepProofs`: `FilesMatch`, `ValidNotOverwritten` (an action property) and `ChangesHeard`;
`FirstIdentityKept`; `NothingMissed`; `UpkeepTypeCorrect` and, for each part, its type invariant.
`Alone` says what a request that has the files for itself finds in them at each of its steps,
`Clean` that every request that issues is one while the files are not soiled, and that it found
no valid certificate; together they give `PairMatches` and `ValidKept`. `Heard` follows a new
certificate from the metadata to the renewal that will tell of it, through renewals that overlap
it. `FirstKept` adds the steps of a build to `IdentityKept`, `Attended` to `NotMissed` who is
still to look at the file, and that a content a reload has passed over has the nodes of the
runtime.
* `PartsAreKept`, in both: a behaviour of the composition that TLC explores is one of each part,
so that the theorems about the parts hold of the runs `serving` and `upkeep`. Of the certificates
it is the specification without its fairness, which no safety property uses.

What these proofs assume of constants: a fresh token bucket can always be made
(`BucketsAssumption`: more buckets than connections can hold, as the code allocates one whenever
it needs it); limits are not negative (`SpeedsAssumption`, of the panel); the tags of WARP
outbounds differ from node to node, as they are made from the node's tag, and those of routes are
neither theirs nor built-in ones (`OutboundAssumption`, the latter of the panel); and values that
stand for nothing (`None`, `NoNode`, `NoCert`, `NoIdentity`, `TornFile`, `NoContent`) are none of
the others.

TLC also checked the inductive invariants on the instances above before they were proved, and
every invariant a run checks is now proved, as are the action properties. Only model-checked: the
liveness properties `LoopResponsive`, `StopHonoured`, `Settles`, `Converges`, `Renewed` and the
liveness part of `FollowsLatest`, since the prover has no rule for fairness and none for ENABLED.

## Assumptions about what is outside

A user manager of the library rejects the removal of an unknown user and the adding of an
existing one, and may reject an account. A uuid keeps its id, and a list does not name a uuid
twice. `Range` of a `sync.Map` visits every key that is there throughout. A write of the file is
seen as a whole. The panel answers with what it holds at that moment. The watch of fsnotify is on
the file it was given and ends with it. The router of the library takes the first rule that
applies, and a rule with no other condition applies to its whole inbound; a rule to a tag without
outbound closes the connection. ACME gives a certificate with its key or none. Outbounds of
routes have other tags than the built-in ones and those of WARP. The router's and the ACME
client's own state is theirs.

## Not modelled, and the plan

Done in this order, the core of the process first: `LatestValue` and `PeriodicTask`, `Reload`,
`UserSync`, `Dispatch`, `Traffic`, each with its proofs; then `NodeSettings`, `DeviceLimit`,
`SpeedLimit`, `Routing`, `CertStore`, `WarpIdentity` and `ConfigWatch`; then the proofs about
these.

Left, in the order of importance:

1. Compositions: the executions of `PeriodicTask` in flight at the `Close` of `Reload`, and
   `Dispatch` with `Traffic`. Both would need larger instances than those above; the interfaces
   are the histories `escaped` and `stranded`, and `NoPanic`.
2. An abstract specification of billing that `Traffic` implements. `Kept` and
   `BilledOnce` together are what it would say.

Not modelled: the sniffers (copies of the library's, pure functions of one connection's payload)
and generated code; the builders of accounts and the options of single protocols (ciphers,
padding, obfuscation), which decide no step; the rules by which strings and lists of the panel's
answer are spelled; the names of the resolver's servers; the token bucket and the ACME protocol,
which are libraries'; utilities and the command line, which have no state. Left out inside
modelled parts: that a target of a certificate changes, writes that fail without ending the
program, and placeholders in `CertFile`, which `lego.go:153` expands where a certificate is
written and nothing expands where it is read.

Hazards without a property, and why: the race on the plain map at `limiter.go:106` (its outcome
is a crash inside one statement); a uuid that gets another id (`node/user.go:87`; `UserSync`
takes a uuid for its id); an interval of zero (`node.go:871`; nothing says what it should mean);
the counters of a closed core (`core.go:123`; gone by construction).
