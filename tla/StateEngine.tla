---------------------------- MODULE StateEngine ----------------------------
(***************************************************************************)
(* The container state engine (services/container_state.py), the instance  *)
(* table it writes (services/instance_subsystem.py, container_instance.py) *)
(* and the handlers that write the same table between the engine's awaits: *)
(* the interlink plugin's WebSocket (routers/ws_router.py), its HTTP       *)
(* fallbacks (routers/internal_plugin_router.py,                           *)
(* routers/container_runtime/internal.py), the OneBot heartbeats           *)
(* (services/bot_heartbeat.py) and container deletion.                     *)
(*                                                                         *)
(* Everything runs on one asyncio event loop: a step of this specification *)
(* is what the code does between two awaits.  One tick of the engine is    *)
(* therefore several steps, and any handler may run between two of them.   *)
(***************************************************************************)
EXTENDS Naturals, FiniteSets

CONSTANTS
    Names,      \* container names
    Uins,       \* bot accounts
    NoUin,      \* the empty uin
    Deployed,   \* the containers <<name, node>> that may exist
    MaxLinks,   \* bound: plugin WebSockets open at once for one name
    ListFails,  \* may a container listing time out or fail (it then yields [])?
    Sources     \* the report paths in use, a subset of {"ws", "http", "onebot"}

Nodes == {"local", "remote"}
Containers == Names \X Nodes

ASSUME NamesAssumption == NoUin \notin Uins /\ Deployed \subseteq Containers
ASSUME LinksAssumption == MaxLinks \in Nat \ {0}
ASSUME FailsAssumption == ListFails \in BOOLEAN /\ Sources \subseteq {"ws", "http", "onebot"}

\* What Docker says of a container.  Every state other than "running"
\* (created, paused, exited ...) is treated alike by the engine.
ContStatus == {"absent", "exited", "running"}

\* ContainerInstance: hb abstracts bot_heartbeat_ts (none: 0; fresh or
\* stale: set, at most or more than 90 seconds ago), qr the cached QR code.
Inst == [node       : Nodes,
         status     : {"exited", "running"},
         logged_in  : BOOLEAN,
         uin        : Uins \cup {NoUin},
         bot_online : BOOLEAN,
         hb         : {"none", "fresh", "stale"},
         qr         : {"none", "ok", "expired"}]

NewInst == [node |-> "local", status |-> "exited", logged_in |-> FALSE,
            uin |-> NoUin, bot_online |-> FALSE, hb |-> "none", qr |-> "none"]

VARIABLES
    docker,       \* the truth: [Containers -> ContStatus]
    known,        \* keys of InstanceSubsystem._instances
    inst,         \* the ContainerInstance of each known name
    links,        \* number of plugin WebSockets open per name
    removing,     \* names whose delete / clear request awaits Docker
    alertTasks,   \* notify_login_lost tasks created and not yet run
    force,        \* _force_event
    initialized,  \* _engine_initialized
    pc,           \* where the tick is suspended
    prevRunning,  \* tick local: prev_running
    localList,    \* tick local: local_containers
    runningLocal, \* tick local: running_local_names
    offline,      \* tick local: went_offline, alerts not yet sent
    online,       \* tick local: came_online, alerts not yet sent
    lost,         \* tick local: prev_login, alerts not yet sent
    qrTodo,       \* tick local: names whose QR code is still to be refreshed
    reading,      \* tick local: the name whose QR file is being read, in a set
    stopped,      \* ghost: containers that left "running" since a listing last showed them running
    started       \* ghost: containers that entered "running" since a listing last showed them not running

table  == <<known, inst>>
tick   == <<pc, prevRunning, localList, runningLocal, offline, online, lost, qrTodo, reading>>
ghosts == <<stopped, started>>
vars   == <<docker, known, inst, links, removing, alertTasks, force, initialized, tick, ghosts>>

NoList == [n \in Names |-> "absent"]

Init ==
    /\ docker \in [Containers -> ContStatus]
    /\ \A c \in Containers \ Deployed : docker[c] = "absent"
    /\ known = {}
    /\ inst = [n \in Names |-> NewInst]
    /\ links = [n \in Names |-> 0]
    /\ removing = {} /\ alertTasks = {}
    /\ force = FALSE /\ initialized = FALSE
    /\ pc = "wait"
    /\ prevRunning = {} /\ localList = NoList /\ runningLocal = {}
    /\ offline = {} /\ online = {} /\ lost = {} /\ qrTodo = {} /\ reading = {}
    /\ stopped = {} /\ started = {}

-----------------------------------------------------------------------------
(* ContainerInstance methods *)

\* Faulty: the cached QR code outlives the container.
ClearRuntimeKeepsQr(i) ==
    [i EXCEPT !.bot_online = FALSE, !.hb = "none", !.logged_in = FALSE]

ClearRuntime(i) ==
    [i EXCEPT !.qr = "none", !.bot_online = FALSE, !.hb = "none", !.logged_in = FALSE]

\* update_login: a given uin is stored; logging out without one clears it.
UpdateLogin(i, ok, u) ==
    [i EXCEPT !.logged_in = ok,
              !.uin = IF u # NoUin THEN u ELSE IF ok THEN @ ELSE NoUin]

Beat(i, on) == [i EXCEPT !.bot_online = on, !.hb = "fresh"]

LoggedIn(n) == n \in known /\ inst[n].logged_in

\* The containers the table shows as running, as (name, node_id) pairs.
TableRunning(k, t) ==
    {c \in Containers : c[1] \in k /\ t[c[1]].status = "running" /\ t[c[1]].node = c[2]}

\* notify_change
Notify == force' = TRUE

-----------------------------------------------------------------------------
(* The world outside: Docker, and the passage of time *)

\* A Docker event wakes the engine, unless the event stream is down.
Event == force' \in {force, TRUE}

Start(c) ==
    /\ docker[c] # "running"
    /\ docker' = [docker EXCEPT ![c] = "running"]
    /\ started' = started \cup {c}
    /\ Event
    /\ UNCHANGED <<table, links, removing, alertTasks, initialized, tick, stopped>>

Stop(c, to) ==
    /\ docker[c] = "running" \/ (docker[c] = "exited" /\ to = "absent")
    /\ docker' = [docker EXCEPT ![c] = to]
    /\ stopped' = IF docker[c] = "running" THEN stopped \cup {c} ELSE stopped
    /\ Event
    /\ UNCHANGED <<table, links, removing, alertTasks, initialized, tick, started>>

\* More than 90 seconds have passed since the last report for n.
Elapse(n) ==
    /\ n \in known /\ inst[n].hb = "fresh"
    /\ inst' = [inst EXCEPT ![n].hb = "stale"]
    /\ UNCHANGED <<docker, known, links, removing, alertTasks, force, initialized, tick, ghosts>>

-----------------------------------------------------------------------------
(* Handlers.  Each writes the table without an await. *)

\* A handler that replaces the instance of n, when there is one, by i.
Write(n, i) ==
    /\ inst' = IF n \in known THEN [inst EXCEPT ![n] = i] ELSE inst
    /\ UNCHANGED known

Frame == UNCHANGED <<docker, removing, initialized, tick, ghosts>>

\* ws_plugin_link up to its receive loop.
LinkOpen(n) ==
    /\ "ws" \in Sources
    /\ docker[<<n, "local">>] = "running" /\ links[n] < MaxLinks
    /\ links' = [links EXCEPT ![n] = @ + 1]
    /\ Write(n, Beat(inst[n], TRUE))
    /\ Notify
    /\ Frame /\ UNCHANGED alertTasks

\* A "login" message.  Without a uin update_login_cache does nothing.
LinkLogin(n, u) ==
    /\ links[n] > 0
    /\ Write(n, Beat(IF u = NoUin THEN inst[n] ELSE UpdateLogin(inst[n], TRUE, u), TRUE))
    /\ Notify
    /\ Frame /\ UNCHANGED <<links, alertTasks>>

\* Faulty: no alert for a bot already shown offline.
LinkLogoutIfOnline(n) ==
    /\ links[n] > 0
    /\ Write(n, [UpdateLogin(inst[n], FALSE, inst[n].uin) EXCEPT !.bot_online = FALSE])
    /\ alertTasks' = IF inst[n].bot_online THEN alertTasks \cup {n} ELSE alertTasks
    /\ Notify
    /\ Frame /\ UNCHANGED links

\* A "logout" message: the alert is a task of its own, created even when
\* the name is unknown or already logged out.
LinkLogout(n) ==
    /\ links[n] > 0
    /\ Write(n, [UpdateLogin(inst[n], FALSE, inst[n].uin) EXCEPT !.bot_online = FALSE])
    /\ alertTasks' = alertTasks \cup {n}
    /\ Notify
    /\ Frame /\ UNCHANGED links

LinkHeartbeat(n) ==
    /\ links[n] > 0
    /\ Write(n, Beat(inst[n], TRUE))
    /\ Notify
    /\ Frame /\ UNCHANGED <<links, alertTasks>>

\* Faulty: the heartbeat is forgotten but the online flag stays.
LinkCloseKeepsOnline(n) ==
    /\ links[n] > 0
    /\ links' = [links EXCEPT ![n] = @ - 1]
    /\ Write(n, [inst[n] EXCEPT !.hb = "none"])
    /\ Notify
    /\ Frame /\ UNCHANGED alertTasks

\* The finally block: whichever socket of n closes, n is marked offline.
LinkClose(n) ==
    /\ links[n] > 0
    /\ links' = [links EXCEPT ![n] = @ - 1]
    /\ Write(n, [inst[n] EXCEPT !.bot_online = FALSE, !.hb = "none"])
    /\ Notify
    /\ Frame /\ UNCHANGED alertTasks

\* plugin_report, and the older login-event and heartbeat endpoints, which
\* leave bot_online alone on a login or logout.
HttpLogin(n, u, beat) ==
    /\ "http" \in Sources /\ n \in known
    /\ LET i == IF u = NoUin THEN inst[n] ELSE UpdateLogin(inst[n], TRUE, u)
       IN  Write(n, IF beat THEN Beat(i, TRUE) ELSE i)
    /\ Notify
    /\ Frame /\ UNCHANGED <<links, alertTasks>>

HttpLogout(n, beat) ==
    /\ "http" \in Sources /\ n \in known
    /\ LET i == UpdateLogin(inst[n], FALSE, inst[n].uin)
       IN  Write(n, IF beat THEN [i EXCEPT !.bot_online = FALSE] ELSE i)
    /\ Notify
    /\ Frame /\ UNCHANGED <<links, alertTasks>>

HttpHeartbeat(n, on) ==
    /\ "http" \in Sources /\ n \in known
    /\ Write(n, Beat(inst[n], on))
    /\ Notify
    /\ Frame /\ UNCHANGED <<links, alertTasks>>

\* _sync_to_instance: a OneBot heartbeat, connect or disconnect of account u
\* is written to an instance with that uin, else to the one the reverse-WS
\* registry names.  A report of "offline" refreshes the timestamp too.
OneBotReport(u, on) ==
    /\ "onebot" \in Sources
    /\ \E n \in known :
          /\ inst[n].uin = u \/ \A m \in known : inst[m].uin # u
          /\ Write(n, Beat(inst[n], on))
    /\ Frame /\ UNCHANGED <<links, alertTasks, force>>

\* A created notify_login_lost task runs.
RunAlertTask(n) ==
    /\ n \in alertTasks
    /\ alertTasks' = alertTasks \ {n}
    /\ UNCHANGED <<table, links, force>> /\ Frame

-----------------------------------------------------------------------------
(* Deleting a container or clearing its data: Docker first, then, after the *)
(* await, cleanup_instance_services. *)

Remove(n, to) ==
    /\ n \notin removing
    /\ docker' = [docker EXCEPT ![<<n, "local">>] = to]
    /\ stopped' = IF docker[<<n, "local">>] = "running" THEN stopped \cup {<<n, "local">>} ELSE stopped
    /\ removing' = removing \cup {n}
    /\ Event
    /\ UNCHANGED <<table, links, alertTasks, initialized, tick, started>>

\* action "delete": fails, and does nothing, when Docker has no such container.
DeleteContainer(n) == docker[<<n, "local">>] # "absent" /\ Remove(n, "absent")

\* scope "all", of a name with a local data directory: a running container
\* is stopped first.
ClearData(n) ==
    /\ <<n, "local">> \in Deployed
    /\ LET s == docker[<<n, "local">>] IN Remove(n, IF s = "running" THEN "exited" ELSE s)

CleanupInstance(n) ==
    /\ n \in removing
    /\ removing' = removing \ {n}
    /\ known' = known \ {n}
    /\ inst' = [inst EXCEPT ![n] = NewInst]
    /\ Notify
    /\ UNCHANGED <<docker, links, alertTasks, initialized, tick, ghosts>>

-----------------------------------------------------------------------------
(* _tick_once, split at its awaits *)

\* prev_running.
PrevRunningLocalOnly == {c \in TableRunning(known, inst) : c[2] = "local"}   \* faulty
PrevRunning == TableRunning(known, inst)

\* came_online, empty until the first tick is complete.
CameOnlineAlways(curr) == curr \ prevRunning   \* faulty
CameOnline(curr) == IF initialized THEN curr \ prevRunning ELSE {}

\* _force_event.wait() returns, or times out; then prev_running is computed.
Wake ==
    /\ pc = "wait"
    /\ pc' = "local"
    /\ force' = FALSE
    /\ prevRunning' = PrevRunning
    /\ UNCHANGED <<docker, table, links, removing, alertTasks, initialized, localList,
                   runningLocal, offline, online, lost, qrTodo, reading, ghosts>>

\* What a listing of a node returns: its containers, or [] when it fails.
Listing(node) ==
    {[n \in Names |-> docker[<<n, node>>]]} \cup (IF ListFails THEN {NoList} ELSE {})

\* The ghosts forget what a listing l of a node has shown.
Shown(l, node) ==
    /\ stopped' = {c \in stopped : ~(c[2] = node /\ l[c[1]] = "running")}
    /\ started' = {c \in started : ~(c[2] = node /\ l[c[1]] # "running")}

ListLocal ==
    /\ pc = "local"
    /\ pc' = "remote"
    /\ localList' \in Listing("local")
    /\ Shown(localList', "local")
    /\ UNCHANGED <<docker, table, links, removing, alertTasks, force, initialized,
                   prevRunning, runningLocal, offline, online, lost, qrTodo, reading>>

\* Faulty: the node of a remote container is not recorded.
UpsertedNoNode(n, l, r) ==
    LET i == IF n \in known THEN inst[n] ELSE NewInst
        j == IF l[n] = "exited" \/ r[n] = "exited" THEN ClearRuntime(i) ELSE i
    IN  [j EXCEPT !.node = "local", !.status = IF r[n] # "absent" THEN r[n] ELSE l[n]]

\* Faulty: the status is taken from the local listing only.
UpsertedLocalStatus(n, l, r) ==
    LET i == IF n \in known THEN inst[n] ELSE NewInst
        j == IF l[n] = "exited" \/ r[n] = "exited" THEN ClearRuntime(i) ELSE i
    IN  [j EXCEPT !.node = IF r[n] # "absent" THEN "remote" ELSE "local", !.status = l[n]]

\* upsert, once for the local and once for the remote container of a name
\* (the remote one is last and wins), with clear_runtime after each upsert
\* of a container that is not running.
Upserted(n, l, r) ==
    LET i == IF n \in known THEN inst[n] ELSE NewInst
        j == IF l[n] = "exited" \/ r[n] = "exited" THEN ClearRuntime(i) ELSE i
    IN  [j EXCEPT !.node   = IF r[n] # "absent" THEN "remote" ELSE "local",
                  !.status = IF r[n] # "absent" THEN r[n] ELSE l[n]]

\* list_remote_containers_async returns: upserts, cleanup and the detection
\* of instances that went offline or came online.  An empty list with an
\* empty table ends the tick before anything is marked initialized.
Refresh ==
    /\ pc = "remote"
    /\ \E r \in Listing("remote") :
         LET active == {n \in Names : localList[n] # "absent" \/ r[n] # "absent"}
             t      == [n \in Names |-> IF n \in active THEN Upserted(n, localList, r) ELSE NewInst]
             curr   == TableRunning(active, t)
         IN  /\ Shown(r, "remote")
             /\ IF active = {} /\ known = {}
                THEN /\ pc' = "wait"
                     /\ UNCHANGED <<table, runningLocal, offline, online>>
                ELSE /\ pc' = "alerts"
                     /\ known' = active
                     /\ inst' = t
                     /\ runningLocal' = {n \in Names : localList[n] = "running"}
                     /\ offline' = prevRunning \ curr
                     /\ online' = CameOnline(curr)
    /\ prevRunning' = {} /\ localList' = NoList
    /\ UNCHANGED <<docker, links, removing, alertTasks, force, initialized, lost, qrTodo, reading>>

\* notify_instance_offline, one container after the other, then
\* notify_instance_online.
AlertOffline ==
    /\ pc = "alerts"
    /\ \E c \in offline : offline' = offline \ {c}
    /\ UNCHANGED <<docker, table, links, removing, alertTasks, force, initialized, pc, prevRunning,
                   localList, runningLocal, online, lost, qrTodo, reading, ghosts>>

AlertOnline ==
    /\ pc = "alerts" /\ offline = {}
    /\ \E c \in online : online' = online \ {c}
    /\ UNCHANGED <<docker, table, links, removing, alertTasks, force, initialized, pc, prevRunning,
                   localList, runningLocal, offline, lost, qrTodo, reading, ghosts>>

\* Faulty: a bot already shown offline is not timed out.
TimedOutOnline == {n \in runningLocal : LoggedIn(n) /\ inst[n].hb = "stale" /\ inst[n].bot_online}

\* Names the engine logs out for want of a heartbeat.
TimedOut == {n \in runningLocal : LoggedIn(n) /\ inst[n].hb = "stale"}

\* The ports are resolved (an await whose result no property depends on);
\* then the heartbeat timeout check.
HeartbeatScan ==
    /\ pc = "alerts" /\ offline = {} /\ online = {}
    /\ initialized' = TRUE
    /\ inst' = [n \in Names |->
                  IF n \in TimedOut THEN UpdateLogin(inst[n], FALSE, inst[n].uin) ELSE inst[n]]
    /\ lost' = {[name |-> n, uin |-> inst[n].uin, node |-> inst[n].node] : n \in TimedOut}
    /\ pc' = IF TimedOut = {} THEN "qr" ELSE "lost"
    /\ qrTodo' = runningLocal
    /\ UNCHANGED <<docker, known, links, removing, alertTasks, force, prevRunning, localList,
                   runningLocal, offline, online, reading, ghosts>>

\* notify_login_lost for one of them, skipped if it is logged in again.
AlertLost ==
    /\ pc = "lost"
    /\ \E x \in lost : lost' = lost \ {x}
    /\ pc' = IF lost' = {} THEN "qr" ELSE "lost"
    /\ UNCHANGED <<docker, table, links, removing, alertTasks, force, initialized, prevRunning,
                   localList, runningLocal, offline, online, qrTodo, reading, ghosts>>

\* The next name of the QR loop: a known, logged-out one has its file read.
QrNext ==
    /\ pc = "qr" /\ reading = {}
    /\ \E n \in qrTodo :
          /\ qrTodo' = qrTodo \ {n}
          /\ reading' = IF n \in known /\ ~inst[n].logged_in THEN {n} ELSE {}
    /\ UNCHANGED <<docker, table, links, removing, alertTasks, force, initialized, pc, prevRunning,
                   localList, runningLocal, offline, online, lost, ghosts>>

\* The file has been read: update_qr on the instance the loop holds, which
\* may have left the table (only the engine creates one) or logged in since.
QrRead ==
    /\ pc = "qr"
    /\ \E n \in reading, q \in {"none", "ok", "expired"} : Write(n, [inst[n] EXCEPT !.qr = q])
    /\ reading' = {}
    /\ UNCHANGED <<docker, links, removing, alertTasks, force, initialized, pc, prevRunning,
                   localList, runningLocal, offline, online, lost, qrTodo, ghosts>>

TickEnd ==
    /\ pc = "qr" /\ qrTodo = {} /\ reading = {}
    /\ pc' = "wait"
    /\ runningLocal' = {}
    /\ UNCHANGED <<docker, table, links, removing, alertTasks, force, initialized, prevRunning,
                   localList, offline, online, lost, qrTodo, reading, ghosts>>

\* The manager process ends and starts again: all of this is memory only.
Restart ==
    /\ known' = {} /\ inst' = [n \in Names |-> NewInst]
    /\ links' = [n \in Names |-> 0]
    /\ removing' = {} /\ alertTasks' = {}
    /\ force' = FALSE /\ initialized' = FALSE
    /\ pc' = "wait"
    /\ prevRunning' = {} /\ localList' = NoList /\ runningLocal' = {}
    /\ offline' = {} /\ online' = {} /\ lost' = {} /\ qrTodo' = {} /\ reading' = {}
    /\ stopped' = {} /\ started' = {}
    /\ UNCHANGED docker

-----------------------------------------------------------------------------
TickStep ==
    \/ Wake \/ ListLocal \/ Refresh \/ AlertOffline \/ AlertOnline
    \/ HeartbeatScan \/ AlertLost \/ QrNext \/ QrRead \/ TickEnd

\* A report of the plugin of n, over any path.
Report(n) ==
    \/ LinkOpen(n) \/ LinkHeartbeat(n)
    \/ \E u \in Uins \cup {NoUin} : LinkLogin(n, u)
    \/ \E u \in Uins \cup {NoUin}, beat \in BOOLEAN : HttpLogin(n, u, beat)
    \/ \E on \in BOOLEAN : HttpHeartbeat(n, on)

Handler ==
    \/ \E n \in Names :
          \/ Report(n) \/ LinkLogout(n) \/ LinkClose(n) \/ RunAlertTask(n)
          \/ \E beat \in BOOLEAN : HttpLogout(n, beat)
          \/ DeleteContainer(n) \/ ClearData(n)
          \/ CleanupInstance(n)
    \/ \E u \in Uins, on \in BOOLEAN : OneBotReport(u, on)

World ==
    \/ \E c \in Deployed : Start(c) \/ \E to \in {"exited", "absent"} : Stop(c, to)
    \/ \E n \in Names : Elapse(n)
    \/ Restart

Next == TickStep \/ Handler \/ World

Spec == Init /\ [][Next]_vars

\* The loop keeps running: every await of the tick is bounded by a timeout.
FairSpec == Spec /\ WF_vars(TickStep)

\* And time passes.
TimedSpec == FairSpec /\ \A n \in Names : WF_vars(Elapse(n))
-----------------------------------------------------------------------------
TypeOK ==
    /\ docker \in [Containers -> ContStatus]
    /\ known \subseteq Names /\ inst \in [Names -> Inst]
    /\ links \in [Names -> 0..MaxLinks]
    /\ removing \subseteq Names /\ alertTasks \subseteq Names
    /\ force \in BOOLEAN /\ initialized \in BOOLEAN
    /\ pc \in {"wait", "local", "remote", "alerts", "lost", "qr"}
    /\ prevRunning \subseteq Containers /\ localList \in [Names -> ContStatus]
    /\ runningLocal \subseteq Names
    /\ offline \subseteq Containers /\ online \subseteq Containers
    /\ lost \subseteq [name : Names, uin : Uins \cup {NoUin}, node : Nodes]
    /\ qrTodo \subseteq Names /\ reading \subseteq Names
    /\ stopped \subseteq Containers /\ started \subseteq Containers

\* No name is used on two nodes: the table is keyed by the name alone.
DistinctNames == \A c, d \in Deployed : c[1] = d[1] => c = d

(* An "instance stopped" alert is only ever queued for a container that did *)
(* stop running since a listing last showed it running: the difference of    *)
(* two snapshots taken across awaits, deletions and restarts of the manager  *)
(* raises no false alarm, as long as listings do not fail and no name is     *)
(* used on two nodes.                                                        *)
OfflineAlertsJustified == offline \subseteq stopped

(* An "instance online" alert is only ever queued for a container that       *)
(* started since this manager started: the first refresh after a restart     *)
(* announces nothing, and a table entry removed and created again is not     *)
(* announced unless its container did restart; as long as listings do not    *)
(* fail and no name is used on two nodes.                                    *)
OnlineAlertsJustified == online \subseteq started

(* The engine never drops a running instance silently: an instance that      *)
(* leaves the table's running set is queued for an offline alert in the same *)
(* step, unless a user removed it or the manager restarted.                  *)
RunningNeverDroppedSilently ==
    [][\A c \in TableRunning(known, inst) \ TableRunning(known', inst') :
          c \in offline' \/ c[1] \in removing \ removing' \/ Restart]_vars

(* With the plugin WebSocket as the only report path, an instance shown      *)
(* online has a plugin WebSocket open, whatever the order of overlapping     *)
(* connects and closes and of refreshes.                                     *)
OnlineOnlyWithLink ==
    Sources = {"ws"} => \A n \in known : inst[n].bot_online => links[n] > 0

(* A login that is lost while the instance stays known and running has a     *)
(* login-lost alert queued in the same step, whether a logout, the heartbeat *)
(* timeout or a refresh took it, where no name is used on two nodes.  (The   *)
(* HTTP endpoints alert no one.)                                             *)
NoSilentLogout ==
    [][\A n \in known \cap known' :
          ("http" \notin Sources /\ inst[n].logged_in /\ ~inst'[n].logged_in /\ inst'[n].status = "running")
             => n \in alertTasks' \/ \E x \in lost' : x.name = n]_vars

(* The heartbeat fallback works: a local instance that is logged in and has  *)
(* been silent for more than 90 seconds does not stay so, however the ticks  *)
(* interleave with other reports.                                            *)
Silent(n) == LoggedIn(n) /\ inst[n].hb = "stale" /\ inst[n].node = "local"
SilentIsLoggedOut == \A n \in Names : Silent(n) ~> ~Silent(n)

(* A logged-in instance whose container runs on but whose plugin stops       *)
(* reporting is marked logged out: the reports go on for ever, or the login  *)
(* is dropped.                                                               *)
QuietPluginIsLoggedOut ==
    \A n \in Names : <>[](docker[<<n, "local">>] = "running")
        => []<><<Report(n)>>_vars \/ []<>~LoggedIn(n)

(* The QR loop holds an instance across its awaits, yet an instance that     *)
(* the engine does not show running never keeps a QR code, where no name is  *)
(* used on two nodes.                                                        *)
QrOnlyWhileRunning == \A n \in known : inst[n].qr # "none" => inst[n].status = "running"
=============================================================================
