# ncqq-manager: TLA+ models, checks and proofs

ncqq-manager runs NapCat QQ bots in Docker containers: a FastAPI backend on one
asyncio event loop, a plugin inside each bot, a React frontend fed by
WebSockets. Its logic lies less in what a request computes than in what happens
*between two awaits*: the state engine takes listings and applies them later,
while plugins, bots and users write the same table. That is what these modules
model. Paths below are relative to `src/`.

A step of a backend module is what the code runs between two `await`s. Nothing
else can interleave on an event loop, and anything may at an await.

## 1. The system

| Component | State | Operations | Interacts with | Hard behaviour |
|---|---|---|---|---|
| State engine, `services/container_state.py` | `_idle_interval`, `_force_event`, `_engine_initialized`, locals of a tick | `_tick_once`, `notify_change`, `wait_for_change` | reads Docker and remote nodes, writes the instance table, raises alerts, wakes the feeds | listings are stale when applied; listings fail; alerts from differences of snapshots |
| Instance table, `instance_subsystem.py`, `container_instance.py` | `name -> ContainerInstance` | `upsert`, `cleanup`, `update_login`, `update_heartbeat`, `clear_runtime`, `update_qr` | written by the engine and by every handler | keyed by name only; memory only |
| Plugin reports, `routers/ws_router.py` (`ws_plugin_link`), `internal_plugin_router.py`, `container_runtime/internal.py` | open links | login, logout, heartbeat, open, close | instance table, alerts | overlapping links; a close arrives after the next open |
| OneBot heartbeats, `bot_heartbeat.py` | account to status | `_sync_to_instance` | instance table | a second source for the same fields |
| NapCat reverse WS, `services/napcat_ws_service.py`, `ws_napcat_named` | registry entry, `NapCatApiProxy`, pending futures | accept, event, response, close, `call_action`, `cleanup` | login result, bot API, message monitor | several sockets per name, late ends, calls in flight |
| Message monitor, same service, `ws_bot_messages` | ring buffer, wake-up event, `last_pushed_id` | `push_message`, `wait_for_message`, sessions | NapCat events, frontend chat | lost wake-ups, eviction, clearing |
| WebSocket admission, `ws_manager.py`, `rate_limiter.py` | connection set, per-address counter, last handshake | handshake, accept, end | `/ws/public`, `/ws/events` | await between check and registration |
| Public feed, `ws_public`, `usePublicWebSocket.ts` | previous snapshot, subscription, client view | full, patch, heartbeat, subscribe | instance table, engine notifications | changes during a send, broken connections |
| Feed timers, `_loop`, `wait_for_change`, `useWebSocket.ts` | four timers | tick, event, beat, give up | engine, session, client | timers chosen apart from one another |
| Frontend hooks, `useWebSocket.ts`, `usePublicWebSocket.ts` | socket, close reason, reconnect and heartbeat timer | mount, change of path, open, close, error, retry | the feeds | reasons and timers that outlive their socket |
| Interlink plugin, `plugin/ncqq-interlink/index.mjs` | link, timers, login state, heartbeat watch | init, connect, reconfigure, report, confirm, clean up | NapCat's API, `ws_plugin_link` (it has no HTTP fallback of its own) | awaits while connecting and confirming; sockets that report late |
| Setup, login, layout: `App.tsx`, `Setup.tsx`, `Login.tsx`, `AdminLayout.tsx` | cookie, routes, permission, container list and its poll | setup, login, logout, push, refresh, poll | manager, `/ws/events` | redirects that trust different answers; answers older than pushes |
| Instance list and user panel: `Dashboard.tsx`, `UserDashboard.tsx` | selection, filters, batch, dialogs; login codes | single and batch actions; refresh of a code | instance table, the feeds | loops over awaits; two sources for one code |
| Users, nodes, cluster settings: `Users.tsx`, `Nodes.tsx`, `ClusterSettings.tsx`, `node_router.py` | lists, dialogs, forms, log console | create, edit, delete, new key, log, save | manager | one dialog serves many requests; whole forms saved |
| Alert settings: `AlertSettings.tsx`, `useAlertSettingsController.ts` | rules, switch, SMTP form, mail rules | change, reload, save, create in turn | `alert_manager.py` | failures half way; a password that is never shown |
| BotShepherd's page: `BotShepherd.tsx` and dialogs | process, rows, log | start, stop, edit, poll | the service through the manager | answers that close the next dialog |
| Endpoint library: `pages/bot-backend/` | entries, debounced save, probes, injection | edit, probe, collect, inject | manager, instances, BotShepherd | probes by index, saves of state not loaded |
| Container editor: `NetworkConfig.tsx`, `FileManager.tsx` | file, endpoints; folder, editor | load, toggle, save; list, read, write, delete | files of an instance | the file changes under the tab |
| Login injection: `docker_lifecycle.py`, `docker_login.py`, `docker_manager.py` | clients in a bot's file, marker, `_reserved_ports` | detect a login, inject, synchronise, clear | instance table, BotShepherd | threads and awaits between reading and writing; failures half way |
| Ports of containers: `docker_async.py`, `container_crud_router.py`, `data_recreate.py` | table `reserved_ports`, `_port_lock` | allocate, release, create, recreate | Docker, database | lists that are old when used; requests that break off; restarts |
| BotShepherd's process and monitor: `botshepherd.py`, `bs_activation_service.py` | `_process`; `_running`, `_task` and loops | start, stop, restart when it died | requests, threads | starts in threads that nobody can stop; checks before an await |
| Alert dispatch, sessions, cluster client, BotShepherd's HTTP client | cooldowns, tokens, nodes | trigger, validate, proxy | external services | mostly sequential I/O |
| Operation logs, backup, images, configuration, launcher | files, database rows | requests | - | sequential I/O |

What makes the core correct: an alert is raised exactly when something happened;
a flag shown to a user has something behind it; a login is not dropped in
silence and does not survive its bot; the newest socket serves and nothing an
older one does takes that away; what a session believes it has sent is what the
client shows; counters that admission depends on do not leak. In the console the
same question returns per page: every handler awaits its request, the user goes
on clicking, and answers arrive in any order. What is sent must be meant for
what was on show when the button was pressed, and what an answer brings must be
shown as what it is of.

## 2. Modules

| Module | Models | Depends on |
|---|---|---|
| `StateEngine` | engine tick, instance table, all report paths, deletion, restart | - |
| `MCStateEngine` | its instances for TLC | `StateEngine` |
| `StateEngineProofs` | theorems about it | `StateEngine`, TLAPS |
| `NapcatWs` | registry, proxy and calls of one container name | - |
| `NapcatWsProofs` | theorems about it | `NapcatWs`, TLAPS |
| `BotMessages`, `BotMessagesProofs` | ring buffer and monitor sessions of one bot | TLAPS |
| `PublicWs` | admission of WebSockets | - |
| `PublicFeed` | session, channel and client of `/ws/public` | - |
| `LoginInjection` | what a login sets off: file, marker, BotShepherd's connection | - |
| `PortLease` | leases of host ports, creating and recreating containers | - |
| `Watchdog` | BotShepherd's process and the monitor that restarts it | - |
| `Services` | `PublicFeed`, `LoginInjection`, `PortLease`, `Watchdog` side by side | these four |
| `ServicesProofs` | theorems about all four: feed, meeting of bot and BotShepherd, ports, watchdog | `Services`, TLAPS |
| `KeepAlive` | the timers of the event feed, in seconds | - |
| `LiveLink` | what a reconnecting link promises (abstract) | - |
| `SocketHook`, `SocketHookProofs` | the two WebSocket hooks; implements `LiveLink` | `LiveLink`, TLAPS |
| `Interlink`, `InterlinkProofs` | the plugin inside a bot; implements `LiveLink` | `LiveLink`, TLAPS |
| `Streams` | `PublicWs`, `BotMessages`, `KeepAlive` and `SocketHook` side by side | these four |
| `Endings`, `MCStreams` | `Streams` and, for what they must do in the end, `PublicFeed`, `UserPanel`, `AppShell`, `AdminList`; instances for TLC | all of these |
| `StreamsProofs` | theorems about `PublicWs`; those about `BotMessages` and `SocketHook` carried over | `Streams`, their proofs, TLAPS |
| `AppShell` | routes, setup, login, logout, the menu | - |
| `AdminList` | the container list: pushed, fetched, polled | - |
| `Dashboard` | the instance list: filters, selection, single and batch actions | - |
| `UserPanel` | login codes from pushes and refreshes | - |
| `UsersPage`, `NodesPage`, `ClusterForm`, `AlertPage`, `ShepherdPage` | the pages of these names | - |
| `BackendPage` | endpoint library, probes, injection | - |
| `NetworkTab`, `FilesTab` | the container editor's tabs | - |
| `Console`, `MCConsole` | the twelve pages, one mounted at a time; instances for TLC | all of these |
| `ConsoleProofs` | theorems about the pages | `Console`, TLAPS |

### StateEngine

`docker` is the truth; `known` and `inst` are the table; `links` counts open
plugin WebSockets. `_tick_once` is split at its awaits: `Wake` (computes
`prev_running`), `ListLocal`, `Refresh` (the remote listing returns; upserts,
`clear_runtime`, `cleanup` and both differences happen without an await),
`AlertOffline` and `AlertOnline` (one await each), `HeartbeatScan`, `AlertLost`,
`QrNext` and `QrRead` (the file is read in a thread), `TickEnd`. Between any two
of them run `LinkOpen`, `LinkLogin`, `LinkLogout`, `LinkHeartbeat`, `LinkClose`,
the HTTP handlers, `OneBotReport`, `RunAlertTask`, `DeleteContainer`,
`ClearData`, `CleanupInstance`; and the world takes steps: containers start and
stop, 90 seconds pass (`Elapse`), the manager restarts. Docker events may be
lost (`Event`).

`stopped` and `started` are ghosts: containers that stopped or started since a
listing last showed otherwise. Nothing of the code depends on them; the alert
properties are stated with them.

Abstracted: heartbeat timestamps are `none`, `fresh` or `stale`; every Docker
state but `running` is one; ports, statistics, images are left out; port
resolution is an await without effect on a property.

### NapcatWs

One container name. `entry` is the `_ConnEntry`, `since` abstracts
`disconnect_ts` and its 15 second grace. A proxy is identified with its socket,
since a handler creates at most one. `call`, `via`, `fut`, `pending` follow an
API call from `call_action` to its end: a send that may fail, an answer, a
failure, a timeout, a cancellation. `latest` and `reported` are ghosts.

### BotMessages

Messages are numbers in order of arrival, standing for `message_id`. A session
is `sending`, `waiting`, `woken` or `beating`; `push_message` wakes only those
`waiting`, because `wait_for_message` clears the event before it waits.

### PublicWs

`Ask` is everything before the await of `accept()`, `Accepted` all after it,
`Ends` the `finally` block. `/ws/events` sessions (`AskEvents`) share the
connection set.

### PublicFeed

A table in insertion order (paging depends on it), one session of `ws_public`,
a channel, and the client. `Patches` says whether the client applies `patch`
messages: with `TRUE` the protocol itself is checked, with `FALSE` the hook as
written, which handles `full` and `heartbeat` only.

### LoginInjection

A detection (`tasks`) is one run of `_on_login_detected`, and a step of it is
what it does up to its next await, in a thread or not: it looks for the file,
for the marker, allocates a port, reads the file, writes it, marks, asks
BotShepherd for the connection, puts it back. `Login` and `Logout` are
`update_login_cache`; around them a user clears data or adds an endpoint, the
cleanup deletes the connection, NapCat writes a file of its own, the manager
restarts. A client is its port; a connection is its port, whether it passes on
to the manager, and whether it has a user's endpoint. `good` and `mine` are
ghosts: bots whose last detection nothing disturbed, and user's endpoints that
were not added between a detection's reading and writing. A detection takes the
lowest port that is neither reserved nor listened on (`Used`); BotShepherd may be
down, or a connection switched off, and then a port that was released may be
handed out to a second bot (`Crossed`): the two count as disturbed, for
BotShepherd can listen for one of them only. The restart of the
container and `webui.json` change nothing that a property looks at; group
notices come after all else.

### PortLease

A request (`reqs`) is an `api_create_container` or `api_recreate_container`; it
names a port, takes the one the old container had, or allocates one: `Lock`,
`Listed` (Docker makes its list), `Leased` (the answer arrives, the leases are
read, the lowest free port is leased, without an await in between). `Finish` is
`create_container` with the release after it, `Breaks` the ways out that pass
the release by. `sure` and `orphans` are ghosts: requests that nothing came
between, and leases that outlived their request.

### Watchdog

Event loop and threads are what matters here. `starts` is how far each start of
the process is, by a request or a loop: it looks whether one runs, kills those
that a search of command lines finds, spawns. `hidden` are processes the search
does not find, since they were started with the manager's own Python and have a
bare `main.py` in their command line; and a search or a kill may fail, after
which the start goes on. It goes on in its thread when the loop that awaits it is
cancelled (`Abandoned`), and while the event loop is busy: `/start` and `/stop`
start and stop the process in the handler itself (`busy`). `flag` and `task` are
`_running` and `_task` of the monitor, `loops` the loops there really are, those
it has lost track of included. `calm` is a ghost: `/stop` was the last that was
asked for, and no start was under way when it began or came before it ended;
`sole` says that the last start's search did not fail, and that no other start
spawned, and no reference was dropped, between its killing and its spawning. What the monitor shows of connections
is left out, as are the lengths of its waits.

### KeepAlive

Seconds are counted. `Hidden` admits events that wake the engine and change
nothing the feed pushes, which a plugin heartbeat is. Every tick wakes the
sessions, and so restarts their 10 second wait, also one that pushes nothing.

### LiveLink, SocketHook, Interlink

`LiveLink` is the abstract specification: a link is `off`, `trying`, `up` or
`stopped`; while it is wanted and tried, it comes up or is refused.

`SocketHook` is one mounted hook, of either kind. A socket is `connecting`,
`open`, `closing`, `aborted` (closed before it was open) or `free`; `close()`
only begins the end of a socket, and `OnClose` comes later, after whatever the
hook did meanwhile. `closing` is `closeReasonRef`, `timers` counts reconnect
timers, so that a second one would be seen. The two hooks differ in `Classify`,
`Final` and the effect on `[path]`. The delay between retries is left out.

`Interlink` is the plugin: `connectWS` awaits the WebSocket class (`opening`
counts its callers), a login check awaits NapCat (`Answered`), and sockets that
were replaced still report. `muted` are sockets whose `onclose` was taken away.
`told` and `excuse` are ghosts: what the manager was told last, and whether a
logout would be true or NapCat failed to answer. Socket identifiers are used
again after a socket's end. Assumed: the plugin is configured (without a URL or a
name `connectWS` returns at once, and nothing happens), a WebSocket class exists,
and `get_login_info` answers atomically. What the manager does with a report is
`StateEngine`.

### Services, Streams, Endings, Console

Parts that share no state are checked together: a behaviour picks one
part (`part`, `what`, `page`), its module's `Next` moves, the others rest. Nothing is
lost by that, since their steps commute; the state space is a sum instead of a
product. Pages of the console are really alone: one is mounted at a time and its
state dies with it. (`AdminList` lives in the layout around them; `Dashboard`
takes any change of its list.) `Endings` is where liveness is checked of parts
that `Services` and `Console` check for safety with larger bounds.

### The pages

A step is a handler up to its next `await`, an answer, a timer or an effect. A
request carries what its handler captured; what a handler reads after its await
(a ref, a functional update, the dialog that is open by then) it reads from the
page. Answers come in any order, and any of them may fail. Left out: paging,
sorting, wording, fields that no property tells apart (a whole row is a version),
and React's batching: the updates of a handler are one step.

- `AppShell`: `server` (initialized, cookie), `tab` (App's state, route, pages).
  `Reload` starts all again and loses answers; another tab may change the cookie.
- `AdminList`: a list is the number of changes it has seen, so older is smaller.
- `Dashboard`: cards are pairs of node and name; the selection holds names.
- `UserPanel`: `heard` is a ghost, the last report that arrived for a card.
- `UsersPage`, `NodesPage`, `ShepherdPage`: single dialogs for many requests.
- `ClusterForm`: page and handlers, with the mask of the API key.
- `AlertPage`: rule, switch and password with their reloads, mail rules in turn,
  one sequence of them at a time. A failed request may have been carried out.
- `BackendPage`: `lib.timer` is the debounce of the save; saves are numbered, and
  stored in any order. `refused` and `unread` are ghosts of an injection. Bounds:
  one injection at a time, the page is not left during it, and nobody else writes
  its targets meanwhile.
- `NetworkTab`: the file is found by name on every load, saved as a whole.
- `FilesTab`: one folder inside the root stands for the tree. A file that is gone
  opens as an empty text; `gone` are the items that were deleted.

**What the page properties exclude.** A page does not survive every crossing;
each module says, beside the property, after which one the code gives no
guarantee, as a conjunct or a ghost that names it:

- a dialog was closed while its answer was awaited: the next dialog gets the key
  (`UsersPage`), the log or the form (`NodesPage`);
- an answer was overtaken by a newer push, which `/ws/events` does not repeat
  (`AdminList`, `late`);
- loads and saves of `NetworkTab` overlapped (`overlap`); once a load was under way
  while something was saved, or loads crossed (`mixed`), the fields of one account
  are in the file of another, and every later load and save keeps them there;
- the endpoint list moved under a probe, which answers by index (`BackendPage`);
- names were ticked under another filter: the batch goes to the node that is
  shown (`Dashboard`);
- the settings were saved though their load had failed (`ClusterForm`);
- the answer to a change that the manager made was lost: nothing is fetched, and
  the switch goes back (`AlertPage`, `fetched` and `flips` = `lost`);
- the save of the endpoints that was sent last is not the one that was stored
  last (`BackendPage`, `held # sent`);
- BotShepherd refused an injection, which the page counts as done (`refused`), or
  the configuration of an instance was not read (`unread`);
- a file was deleted and opened, or saved, afterwards (`FilesTab`, `gone`).

## 3. Runs

| Run | Bounds | Shows |
|---|---|---|
| `engine_safety` | 2 containers on 2 nodes, 1 account, 2 links per name, listings succeed | alerts justified (`OfflineAlertsJustified`, `OnlineAlertsJustified`), none missing (`RunningNeverDroppedSilently`), no login lost in silence (`NoSilentLogout`), no online flag without a link (`OnlineOnlyWithLink`), no QR code of a stopped container (`QrOnlyWhileRunning`) |
| `engine_fallback` | 1 container, all report paths, listings may fail | the 90 s fallback acts (`SilentIsLoggedOut`) |
| `napcat_registry` | 2 sockets, 2 calls, 1 account | connected means a socket (`ConnectedHasSocket`), the last socket keeps its proxy (`LatestKeepsProxy`), no call is orphaned (`NoOrphanCall`), calls end with their socket (`LostSocketEndsCalls`) |
| `services` | feed: 2 instances, page size 1, 3 subscriptions, 1 message in flight; injection: 2 bots, 2 detections, 2 logins, 1 trouble (restart, cleared data, failure, BotShepherd not listening), 2 ports; leases: 2 containers, 2 requests, 2 ports, one of which may be named, 1 restart or failed listing; watchdog: 2 requests, 2 loops, 2 processes | client in step (`InStep`); bot and BotShepherd meet after a login, at a port that is no other bot's, and users' endpoints stay (`ReachesBot`); ports are reserved as long as needed and by one only (`PortsHeld`); BotShepherd stays down when stopped, is one process of those that can be found, and its monitor is on when it says so (`ShepherdKept`) |
| `interlink` | 2 sockets, 2 troubles (losses, reconfigurations, removals) | the plugin is never stranded (`NeverStranded`), reports no logout without cause (`LogoutExcused`), implements `LiveLink` (`ImplementsLink`), a login that lasts becomes known and stays so (`LoginKnown`) |
| `streams` | 3 public sockets and 1 authenticated from 2 addresses, limits 2 and 2; 2 monitors, buffer of 2, 3 messages; the code's own timers 3, +3, 30, 10, 25; a hook with 2 sockets and 2 paths; feed: 1 instance, 2 QR states, page size 1, 3 subscriptions, 1 message in flight; panel: 1 card; shell: 2 loads; list: 3 changes, 2 answers | counters exact (`CountersExact`, `ConnectionsExact`), messages in order, once, without gaps (`InOrderOnce`, `NothingSkipped`), a woken session delivers and the client of a feed hears again (`WaitersHear`), one link per hook (`OneLink`), which implements `LiveLink` (`ImplementsLink`), a client that applies patches comes to show the table (`Converges`), waits on the pages end (`WaitingEnds`) |
| `console` | see `Console.cfg`: 2 of each thing, 2 or 3 requests under way or asked for, 1 single action beside a batch | the type invariant and the six properties below |
| `engine_quiet_plugin` | 1 container, WebSocket path | violation, see section 6 |
| `feed_hook` | 1 instance, the hook as written | violation, see section 6 |
| `messages_lost_wakeup` | 1 session, 2 messages | violation, see section 6 |
| `setup_loop` | 2 loads of the page, the question about the setup is answered | violation, see section 6 |
| `napcat_reconnect` | 2 sockets | violation, see section 6 |

The properties of `console` are conjunctions over pages, one per theme; each
conjunct is defined and explained in its page's module. (`WaitingEnds` is of
the run `streams`.)

| Property | Conjuncts |
|---|---|
| `SentAsMeant` | `Dash!BatchHitsTicked`, `SelectionScoped`; `Users!SavedAsMeant`; `Nodes!SavedForNode`; `Shepherd!RowSavedAsEdited`; `Network!SavedToItsFile`; `Files!DeletesListed`; `Cluster!KeyKept` |
| `ShownOfOwner` | `Users!KeyOfOwner`, `Nodes!LogOfNode`, `Files!TextKept`, `Shell!MenuEarned` |
| `QuietInStep` | `List!ListInStep`, `Panel!LastWordShown`, `Cluster!SavedComesBack`, `Alerts!RulesInStep`, `AllowHonest`, `Backend!SavedAsShown`, `Network!ShownIsStored` |
| `NothingLeftRunning` | `List!OnePoll`, `Shepherd!LogPolled`, `Nodes!NodesSettle`, `Backend!ProbeSettles` |
| `DoneIsDone` | `Alerts!MailsForAll`, `Backend!InjectedAll` |
| `OnlyEdited` | `Cluster!EditedOnly`, `Alerts!ReplacedOnly`, `Backend!AddedOnly` |
| `WaitingEnds` | `Panel!LoadingEnds`, `Shell!LogoutLeaves`, `List!PollsOn` |

**Why these bounds are enough.** The engine relates instances only through set
differences keyed by `(name, node)`: one container per node already separates
the two listings, two links give every overlap of an old close and a new open,
and the tick is a loop whose states are all reached. In `NapcatWs` every
conflict is between an older and a newer socket, and so it is in `SocketHook`
and `Interlink`; the theorems cover any number. Three messages over a buffer of
two evict the one a session sent last, and clear and refill. Two instances and
pages 0, 1, 2 move an instance between pages when another is removed; that a feed
converges is a question of what wakes its session, for which one instance does. Two detections of one bot overlap in every
order of their steps, and a second bot takes the port that the first may want;
two requests and two containers give every order of a list, a start and a
release, and the second port shows what a lease of the first prevents. Two starts
that overlap leave one loop of the monitor too many, and a request that is done is
used again, so a stop and a new start meet what is left. A page goes wrong when an
answer meant for one thing meets another: two things, two requests in either order, and a
third step for the dialog in between show each pair of crossings.

The bounds in the modules are `MaxLinks`, `MaxMsgs`, `MaxChan`, `MaxTrouble`, `MaxLogins`,
`MaxTroubles`, `MaxPort`, `Hazards`, and
of the pages `MaxLoads`, `MaxChanges`, `MaxAnswers`, `MaxFlights`, `MaxUserReqs`,
`MaxFetches`, `MaxAsks`, `MaxShepherdAsks`, `MaxBackendAsks`, `MaxNetAsks`,
`MaxFilesAsks`; sockets and calls of `NapcatWs` and `PublicWs` are used once each.

`CHECK_DEADLOCK FALSE` is given where the bounded system stops: when all
messages have been pushed, all sockets and calls are used, or the administrator
has asked for all that the bound admits.

**Mutants.** Beside a definition stand operators marked "faulty": the same code
with a plausible bug (a node that is not recorded, a proxy replaced without
being closed, a diff that forgets removals, an id that is not reset). Each
property fails for one; of the themes of `console`, each conjunct has its own
faulty variant in its module, and one or two of them are recorded in `PROJECT.json`.

## 4. Fairness

- `StateEngine!FairSpec`: weak fairness of the tick. Every await in it is
  bounded: listings by timeouts (`docker_async.py:193`, 5 s for the remote
  list), webhooks by their own, and `_loop` catches what a tick raises and goes
  on. Nothing is assumed of plugins, bots or users. `TimedSpec` adds that time
  passes.
- `NapcatWs!PromptSpec`: what is ready runs (a future that is done, a handler
  whose peer left), and a send ends within its 5 seconds. No answer and no
  answer timeout is assumed.
- `PublicFeed!FairSpec`, and `Endings!EndFairness` where the feed is the
  part that runs: the session and the client run; a send tried again and again
  succeeds now and then (strong fairness of `Sent`, `Beaten`, `Receive`), since a
  connection that always breaks converges to nothing. No notification of the
  engine is assumed: the 10 s wait alone must do. Of injections, leases and the
  watchdog no liveness is claimed.
- `Interlink!FairSpec`: timers fire, the WebSocket class and NapCat answer, a
  closed socket reports it; a connection attempted for ever is accepted some day
  (strong fairness of `OnOpen`). `LoginKnown` assumes besides, in its own
  formula, that NapCat announces logins.
- `Streams!Fairness`: monitor sessions run (sends are bounded by 5 s, waits by
  15 s); seconds pass and due timers fire, and `Second` is strongly fair because
  an event that occurs infinitely often in one instant would otherwise stop
  time; closed sockets report, retries fire, and a server that is tried again
  and again accepts some day.
- `Endings!EndFairness`: requests of the panel and of the shell are answered or
  fail, and the poll's timer fires. Nobody has to click. `Console` and `Services`
  assume nothing, and promise nothing that needs it.
- `BotMessages!FairSpec` and `AppShell!ShellSpec` say the same of the violation
  runs: the session runs; answers arrive and the timer fires.

## 5. Proofs

Checked by TLAPS for every value of the constants; the only assumptions are the
named ones on the constants. `ConnsAssumption`, `CapAssumption` and
`HookAssumption` are hypotheses of their theorems, since the modules are
instantiated; `Streams!PartsAssumption` and `Console!PagesAssumption` assert
those of the parts and the pages, which TLC evaluates for the instances it checks.

| Theorem | Statement | Argument |
|---|---|---|
| `StateEngineProofs!TypeCorrect` | `[]TypeOK` | one lemma per group of actions; lemmas on what each `ContainerInstance` method returns |
| `NeverDroppedSilently` | `RunningNeverDroppedSilently` | needs `PrevCovers`: between `Wake` and `Refresh` the running set of the table is within `prev_running`. It holds because handlers never set `status` and deletion only shrinks the table |
| `OfflineJustified` | `[]OfflineAlertsJustified`, given `DistinctNames` and no failing listing | `OfflineInv`: the table holds deployed containers only (`OnlyDeployed`), and whatever the table, `prev_running` or the local listing under way shows running and Docker does not is in `stopped` (`StoppedAccounts`). The property alone is not inductive: it says nothing about the snapshots the difference is taken from |
| `OnlineHasLink` | `[]OnlineOnlyWithLink` | `OnlineLinked`, inductive with the type invariant: `LinkClose` is the only action that takes a link, and always clears the flag |
| `OnlineJustified` | `[]OnlineAlertsJustified`, given `DistinctNames` and no failing listing | `OnlineInv`: a container that runs is either shown running by the copy the next difference is taken from (`TableAccounts`, `TickAccounts`), or in `started`; a container a user is removing has stopped or counts as started (`RemovedFresh`) |
| `QrWhileRunning` | `[]QrOnlyWhileRunning`, given `DistinctNames` | `QrInv`: the names the QR loop still holds were listed running in this tick (`ListedRun`), no handler changes `status`, and only the next refresh does, which clears the code of what stopped (`QrCached`) |
| `LogoutTold` | `NoSilentLogout`, given `DistinctNames` | one step per action that can end a login: each queues a login-lost alert in that step, or removes the instance, or takes it from running. It rests on `OnlyDeployed` (`DeployedAlways`): without two nodes for one name, the remote listing of a refresh cannot override the local one |
| `NapcatWsProofs!TypeCorrect` | `[]TypeOK` | `ProxyTypes` for what closing a proxy leaves |
| `ConnectedBound` | `[]ConnectedHasSocket` | `ConnectedInv` adds that a connected entry is a known one; a socket that is bound is unbound by its own end |
| `LatestServes` | `[]LatestKeepsProxy` | inductive with the type invariant |
| `NoCallOrphaned` | `[]NoOrphanCall` | `OrphanInv` adds `ProxiesAccepted`: proxies belong to accepted sockets, the registered one is never closed, a call in flight has a proxy. `ClosingEndsAll` says closing leaves no pending future |
| `StreamsProofs!Counters`, `Connections` | `[]CountersExact`, `[]ConnectionsExact` of `PublicWs` | a counter moves with the cardinality of the open sockets of its address, which one socket joins or leaves; so a counter that is taken down was above zero |
| `BotMessagesProofs!InOrder`, `NothingLost` | `[]InOrderOnce`, `[]NothingSkipped` | the buffer is a run of numbers without gaps that ends with the newest message (`Newest`); what a session sent is increasing, no newer than `last_pushed_id`, and its batch follows on it (`Sound`); what is still in the buffer and no newer than that has been sent (`Kept`) |
| `SocketHookProofs!NeverTwo`, `HeartbeatIsOwn` | `[]OneLink`, `[]HeartbeatOwn` | `LinkInv`: what is not closed is the socket in `wsRef`, and while it is there no reconnect timer runs; a hook that was refused, and one that is unmounted, has neither. `closing` alone, which outlives its socket, gives nothing to rest on |
| `SocketHookProofs!IsALink` | `Spec => Link!Safety` | the refinement: initial states map to `off`, and every step to a step of `LiveLink` or a stutter, by a table of the phase before and after each action |
| `InterlinkProofs!AlwaysTries` | `[]NeverStranded` | an initialised plugin has a timer, a `connectWS` under way, or a socket in `_ws` that is neither gone nor muted; muting happens only where one of the first two follows |
| `InterlinkProofs!PluginTyped` | `[]TypeOK` | `LinkInv` has the types of the link, and that a timer the plugin has a handle of runs; those of the reports need nothing else |
| `InterlinkProofs!LogoutsConfirmed` | `[]LogoutExcused` | `ReportInv` adds that an account that is not logged in is an excuse: what a confirmation finds other than a login is the account's absence or a failure of NapCat, and a report only arrives over a link |
| `StreamsProofs!TypeCorrect`, `InOrder`, `NothingLost`, `NeverTwo` | `[]TypeOK`, `[]InOrderOnce`, `[]NothingSkipped`, `[]OneLink` | the theorems of the parts hold of the composition TLC checks: each part's steps are steps of its module or leave its variables alone, so a behaviour of `Streams` is one of each part |
| `ServicesProofs!LeasesKept` | types, `LeasesHeld` and `PortsApart` of `PortLease` | `LeaseInv` adds `SureKnown`: a request nothing came between holds its port, or waits for a list that shows every port that containers use by now (without it the step that leases a port says nothing of containers started since the list was made), and `PortsGiven`: what runs or is being created has a port |
| `ServicesProofs!ReservationsExact` | types and `ReservedExact` of `LoginInjection` | inductive with the types: only allocation makes a holder, with a port that is free (`InjectionMin`), and whoever stops holding a port, which no other holds, releases it (`Released`) |
| `ServicesProofs!PortsAlwaysHeld` | `[]PortsHeld` | the two above: the property the run `services` checks |
| `ServicesProofs!BotsReached` | `[]ReachesBot` | `BotInv` adds `Undisturbed`: what a detection that is still good read of the file is in the file, and the port it goes on with too; what a write that crosses another takes away, it takes from detections and promises alike. A connection that was read before a user added an endpoint does not make a promise (`mine`). `ApartInv` is what keeps ports apart: no other connection and no other detection has the port of a bot that is good, or of a detection that is undisturbed (`NoOtherHas`); a port that BotShepherd does not listen on is given out again only with `Crossed`, which takes the promise from all who have it |
| `ServicesProofs!ShepherdAlwaysKept` | types and `ShepherdKept` of `Watchdog` | `DogInv` adds `StopsSettled`: while a stop that nothing came between is under way, and after it, the flag is off and nobody starts the process; and `AloneFindsNone`: who killed all that a search finds and was not overtaken leaves none but those it does not find. `StaysStopped` alone is not inductive: a thread that starts the process outlives the loop that was cancelled |
| `ServicesProofs!FeedInStep` | types and `InStep` of `PublicFeed` | `FeedInv`: the messages in flight lead (`Leads`) from what the client shows to `prev`, and what is being sent is the difference between `prev` and `curr` (`SendsCurr`), which a client that applies it turns into `curr` (`PatchedByDiff`). `InStep` is stated by a function that is recursive over the channel; that it exists and is the only one (`ChainExists`, `ChainUnique`) is shown by the least index at which it fails |
| `ServicesProofs!ServicesTyped` | `[]ServicesTypeOK` | the four type invariants |
| `ConsoleProofs!PagesTyped` | `[]TypeOK` | each page has an inductive invariant, which it opens with and each of its steps keeps; a page that rests keeps it too. The rows below follow from these twelve |
| `ConsoleProofs!MeantIsSent` | `[]SentAsMeant` | a dialog is of what its button stands for (`usersUi.target = usersUi.meant`, `nodesUi.holds = nodesUi.edits`, `bsUi.held = bsUi.dialog.id`, `fm.path = fm.listed`), so what it sends is; the fields of a file are of its account as long as nothing was mixed (`NetUnmixed`, about files, page and saves under way together) |
| `ConsoleProofs!ShownOnceQuiet` | `[]QuietInStep` | says for each page where the last word is while it is not on show: no list is newer than the manager's (`AdminList`), a card shows what it last heard (`UserPanel`), the form differs from the store in what was edited here or saved elsewhere (`ClusterForm`), a fetch that was passed by a change has another behind it (`FetchesInStep`), the entries are under the timer, in the save that was sent last, or in the library if that was stored last (`SavesInStep`), the only save is of the file on show (`NetApart`) |
| `ConsoleProofs!NothingSpins` | `[]NothingLeftRunning` | a veil has a fetch under way that lifts it; an entry that is probed has its probe at its index, or entries have moved |
| `ConsoleProofs!ReportedIsDone` | `[]DoneIsDone` | what is no longer to do is done, being written, or was refused (`MailsInStep`, `InjectionInStep`) |
| `ConsoleProofs!OwnersAreShown` | `ShownOfOwner` | `left` is the ghost of dialogs that were closed over a request: without one, what is under way is of the dialog that is open. What a file is opened with, and saved with, is its own text or, if it was deleted, the empty one (`TextOf`). The menu follows step by step: who enters the layout asks whose it is (`ShellNavigates`), and only the answer about an administrator's cookie ends the question with the menu up |
| `ConsoleProofs!EditsAreKept` | `OnlyEdited` | a whole form that is sent equals the form but for what was edited since, and the form the store but for what was edited or saved elsewhere; an injection writes what it read and one more, and nobody else writes meanwhile |

Only model-checked: every liveness property (fairness and `ENABLED` are beyond
the prover), hence the liveness half of both refinements, and the safety half
of `Interlink`'s, which is plain: its three phases may follow each other in any
order. `KeepAlive` is a question about five particular numbers and stays with TLC, but
for its type invariant (`StreamsProofs!TimersTyped`).

`DistinctNames` is a real limit of the code, not of the proofs: the table is
keyed by name alone, and a running container on one node with a stopped
namesake on another makes the table alternate between the two.

## 6. Where code and documentation disagree

Runs that end in a violation, listed under "findings":

- `engine_quiet_plugin`: closing the plugin WebSocket sets the heartbeat time
  to 0 (`ws_router.py:665`), and the 90 second check skips instances whose time
  is 0. A plugin that dies and never returns stays logged in, against
  `container_state.py:286`.
- `napcat_reconnect`: the entry of a reconnected socket stays disconnected when
  the socket came without `X-Self-Id`; `ensure_uin` only updates the uin.
- `messages_lost_wakeup`: a message pushed while the session awaits a send has
  set the event that `wait_for_message` then clears.
- `feed_hook`: `usePublicWebSocket.ts` drops every `patch`.
- `setup_loop`: after a setup that succeeded, `App` still believes the manager
  is not set up and sends every route to `/setup`, which sends it to `/login`:
  back and forth until the page is loaded again (`App.tsx:71`).

Met while modelling, not runs of their own:

- two starts of the monitor that overlap leave two loops, of which `self._task`
  holds one, and a stop cancels that one; the other ends when it wakes up, or goes
  on beside the next monitor (`bs_activation_service.py:146-165`);
- a stop of BotShepherd while the monitor is starting it finds nothing to stop,
  and the thread, which cancelling does not end, brings it up with no monitor
  beside it (`StaysStopped` without its condition on starts under way);
- a thread that has started the process while `/stop` waits for the old one to end
  loses it: the reference is dropped, and the process lives until the next start
  (`OneProcess` without `sole`);
- without a Python of its own BotShepherd is started as `main.py` by the manager's
  (`botshepherd.py:407-408`), and the search for what is left of it, which wants
  "botshepherd" in the command line, does not find it; if the search fails, the
  start goes on as if it had found nothing (`botshepherd.py:397-398`). In both cases
  there may be two processes (`OneProcess` without `hidden`);
- ticks that push nothing restart the 10 second wait, so the feed of an idle
  system is silent for up to 28 seconds; the client gives up at 25
  (`useWebSocket.ts:25`), and connects again (`KeepAlive!HeardAgain` is stated so);
- an instance whose configuration cannot be read is taken to have no clients,
  and those it has are replaced by an injection (`BotBackend.tsx:143-163`,
  against line 54 of `BOT_BACKEND_MODULE_GUIDE.md` beside it; `AddedOnly` without
  `unread`);
- an injection into connections is announced as "Injected to {n} BS connection(s),
  hot-reload applied" (`i18n/translations/en/botBackend.ts:17`) though BotShepherd
  refused it or was down: `updateConnection` is awaited and counted without a look
  at `success` (`BotBackend.tsx:126-127`), the manager answers HTTP 200
  (`botshepherd.py:534-573`), and connections are read from files meanwhile
  (`botshepherd.py:523-529`; `InjectedAll` without `refused`);
- two saves of the endpoint library may be under way, and nothing orders them: the
  older may be stored last (`BotBackend.tsx:44-53`);
- a change of the alert settings whose answer is lost is stored, and shown as if it
  were not: the switch goes back, and nothing is fetched
  (`useAlertSettingsController.ts:226-251`);
- a file that is gone opens as an empty editor under its name
  (`container_config_router.py:42-43`, `FileManager.tsx:110-112`), and a save brings
  it back empty;
- the menu of the console is the administrator's until the first answer, and after
  it that of the last answer, although the cookie may have changed
  (`AdminLayout.tsx:39`);
- the endpoint library is saved, empty, a second after the page was opened when
  its load takes longer or fails (`BotBackend.tsx:26-53`);
- what is saved in the network tab while a reload has found another account's file
  and not yet read it goes to that file with the fields of the first, and every
  later load and save keeps them (`NetworkConfig.tsx:165-203`, `mixed`);
- the switch of the WS client in the cluster settings is never stored
  (`routers/node_router.py:36-49`);
- a listing that fails yields `[]`, and every running instance is reported as
  stopped (`OfflineAlertsJustified` with `ListFails = TRUE`);
- a logout over HTTP alerts no one (`NoSilentLogout` without its condition on
  `Sources`);
- a container started during a refresh can have its fresh login cleared;
- two containers of one name on two nodes alternate in the table;
- ports are allocated "atomically" (`docker_async.py:486`), but Docker's list is
  awaited before the leases are read: if another request's container starts and
  its lease is deleted in between, its port is in neither and is allocated again
  (`PortsApart` of `PortLease` without `sure`). The second container does not start;
- a container that is stopped is not in Docker's list of ports, so its port is
  given to another and it does not start again;
- a request that names a port deletes the lease of another request for it, and a
  recreation, which takes the port of the old container, has no lease at all
  between deleting that one and starting the new one;
- a recreation whose variables are refused has deleted the old container, and
  keeps the leases it took (`data_recreate.py:213`), as does an exception other
  than Docker's in `create_container`; they are deleted by a restart, if older
  than 300 seconds then (`docker_async.py:506`);
- an injection releases its port before BotShepherd listens on it, and BotShepherd
  may be down or a connection switched off, so two bots may be given one port; a
  bot whose marker is there keeps the port of its first client, which may be
  another's by then (`docker_lifecycle.py:118`; `PortOfItsOwn` without the bots
  that `Crossed` takes out of `good`);
- two detections of one bot at once leave two clients in its
  file, and when the file cannot be written BotShepherd is told of the port
  all the same (`docker_lifecycle.py:190-199`);
- a bot whose marker is there and whose file NapCat has written anew is not
  injected again: no URL is found in it (`docker_lifecycle.py:118`), until the
  data are cleared with the scope "all";
- an endpoint that a user adds while a detection has read the connection and not
  yet written it is lost;
- `call_action` documents `RuntimeError` and lets `CancelledError` through
  (`fut = "cancelled"` of `NapcatWs`);
- a probe that ends while no socket is bound renews the grace period of
  `is_alive`;
- sockets being accepted at the same time can exceed `_MAX_PUBLIC_WS` and
  `_MAX_PUBLIC_WS_PER_IP`, and `/ws/events` sessions count against the former.

## 7. What is left, and what is not modelled

Every part of the core plan is written: engine, registry, monitor, admission,
feed, timers, hooks, plugin, login injection, ports, BotShepherd's watchdog, and
the console's pages that keep state across an await. What could still be added, in
this order:

1. that the watchdog brings BotShepherd up again after a crash, under fairness of
   its loops and threads;
2. the rules that alerts are sent by (`alert_manager.py:252`), which await one
   after the other;
3. dropped Docker events (`docker_async.py:151`), which the engine's tick makes
   up for; the expiry of a session (`middleware/auth.py:54`), which the console
   sees as `CookieChanges`; a logout over HTTP that alerts no one
   (`internal_plugin_router.py:58`); the plugin's message counter
   (`index.mjs:292`); the operation log's feed (`useOperationLogsFeed.ts:99`);
4. dialogs that only pass on what they are given: advanced SMTP, the activation
   popover, the tabs `BasicInfo` and `NapcatLogs`.

Not modelled, and why: HTTP clients of Docker, BotShepherd and other nodes
(I/O; their results are nondeterministic where used); database, configuration,
logging, metrics, backup, images (sequential, no shared state between awaits
that a property is about); the launcher, styling and wording;
`docker_events.py`, which nothing imports. React's double effects in
development are not modelled, and the `enabled` option of the hooks never
changes in this code.

## 8. Running

    tlc -config StateEngineSafety.cfg MCStateEngine
    tlc -config StateEngineLive.cfg MCStateEngine
    tlc -config NapcatWs.cfg NapcatWs
    tlc -config Services.cfg Services
    tlc -config Interlink.cfg Interlink
    tlc -config Streams.cfg MCStreams
    tlc -config Console.cfg MCConsole
    tlapm StateEngineProofs.tla
    tlapm NapcatWsProofs.tla
    tlapm BotMessagesProofs.tla
    tlapm SocketHookProofs.tla
    tlapm InterlinkProofs.tla
    tlapm StreamsProofs.tla
    tlapm ServicesProofs.tla
    tlapm ConsoleProofs.tla

`engine_safety`, `services`, `interlink` and `console` take two to three minutes, the others less.
