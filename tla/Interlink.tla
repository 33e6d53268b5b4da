------------------------------ MODULE Interlink ------------------------------
(***************************************************************************)
(* The plugin inside a bot (plugin/ncqq-interlink): its WebSocket to the   *)
(* manager, and the login, logout and heartbeat reports it sends over it.  *)
(*                                                                         *)
(* The plugin runs on the event loop of its host.  A step is what it runs  *)
(* between two awaits: connectWS waits for a WebSocket class, login checks *)
(* wait for an answer of NapCat's API.  The events of a socket arrive      *)
(* later than what caused them, also at a plugin that has replaced it.     *)
(* The plugin is configured: it has the manager's URL and the name of its  *)
(* bot, without which connectWS returns at once and nothing here happens.  *)
(***************************************************************************)
EXTENDS Naturals, FiniteSets

CONSTANTS Socks, NoSock,
          MaxTrouble  \* bound: losses, reconfigurations and removals of a run

ASSUME InterlinkAssumption == IsFiniteSet(Socks) /\ NoSock \notin Socks /\ MaxTrouble \in Nat

VARIABLES
    ws,        \* _ws
    sock,      \* what each socket is; "gone": its peer is, unnoticed so far
    muted,     \* sockets whose onclose was set to null
    timers,    \* reconnect timers that run
    tracked,   \* _wsReconnectTimer holds the last of them
    opening,   \* connectWS calls that wait for the WebSocket class
    initWait,  \* plugin_init waits for its connectWS
    active,    \* _ctx is set
    watching,  \* _hbWatchTimer runs
    watch,     \* where the callback of that timer is
    checking,  \* a checkAndReportLogin is scheduled or waits for its answer
    online, failed, hb, grace,  \* _botOnline, _loginFailReported, _lastHbTs, _initTs
    good,      \* NapCat's API does not fail, and it announces logins
    qq,        \* the account is logged in
    told,      \* the last login or logout that reached the manager
    trouble,   \* how much of MaxTrouble is left
    excuse     \* since it was told "in", the account was lost or the API failed

link == <<ws, sock, muted, timers, tracked, opening, initWait, active, watching>>
bot == <<watch, checking, online, failed, hb, grace>>
ext == <<good, qq, trouble>>
view == <<told, excuse>>
vars == <<link, bot, ext, view>>

TypeOK ==
    /\ ws \in Socks \cup {NoSock} /\ muted \subseteq Socks
    /\ sock \in [Socks -> {"free", "connecting", "open", "gone", "failing", "closing"}]
    /\ opening \in Nat /\ timers \in Nat /\ (tracked => timers > 0)
    /\ {tracked, initWait, active, watching, checking, online, failed, grace} \subseteq BOOLEAN
    /\ watch \in {"idle", "confirm", "late"} /\ hb \in {"none", "fresh", "old"}
    /\ trouble \in Nat /\ {good, qq, excuse} \subseteq BOOLEAN /\ told \in {"none", "in", "out"}

Init ==
    /\ ws = NoSock /\ sock = [s \in Socks |-> "free"] /\ muted = {}
    /\ timers = 0 /\ tracked = FALSE /\ opening = 0 /\ initWait = FALSE /\ active = FALSE /\ watching = FALSE
    /\ watch = "idle" /\ checking = FALSE
    /\ online = FALSE /\ failed = FALSE /\ hb = "none" /\ grace = FALSE
    /\ good \in BOOLEAN /\ qq = FALSE /\ told = "none" /\ excuse = TRUE /\ trouble = MaxTrouble

Troubled == trouble > 0 /\ trouble' = trouble - 1

-----------------------------------------------------------------------------
(* Sending. *)

Linked == ws # NoSock /\ sock[ws] = "open"

\* sendWS: a message reaches the manager over an open socket, and is dropped
\* without one.
Send(report) ==
    IF Linked THEN told' = report /\ excuse' = (excuse /\ report # "in")
              ELSE UNCHANGED view

\* What get_login_info may answer.
Answers ==
    {IF qq THEN "in" ELSE "out"} \cup (IF ~good \/ ~active THEN {"error"} ELSE {})

-----------------------------------------------------------------------------
(* The link. *)

\* Bound of the model: a socket that is free, or will be, for every connectWS
\* under way or due.
Room == Cardinality({s \in Socks : sock[s] \notin {"connecting", "open"}}) > opening + timers

\* Faulty: _scheduleReconnect clears the timer and forgets the handle.
ScheduledUntracked ==
    /\ timers' = IF tracked THEN timers - 1 ELSE timers
    /\ tracked' = TRUE

\* _scheduleReconnect: it replaces the timer it knows of.
Scheduled ==
    /\ timers' = IF tracked THEN timers ELSE timers + 1
    /\ tracked' = TRUE

\* clearTimeout(_wsReconnectTimer)
Cleared ==
    /\ timers' = IF tracked THEN timers - 1 ELSE timers
    /\ tracked' = FALSE

\* It calls connectWS, which forgets a timer that still runs.
PluginInit ==
    /\ ~active /\ ~initWait /\ Room
    /\ active' = TRUE /\ failed' = FALSE /\ grace' = FALSE
    /\ opening' = opening + 1 /\ initWait' = TRUE /\ tracked' = FALSE
    /\ UNCHANGED <<ws, sock, muted, timers, watching, watch, checking, online, hb, ext, view>>

\* A reconnect timer fires.
Reconnect ==
    /\ timers > 0
    /\ timers' = timers - 1 /\ tracked' = FALSE /\ opening' = opening + 1
    /\ UNCHANGED <<ws, sock, muted, initWait, active, watching, bot, ext, view>>

\* connectWS goes on: the socket cannot be created.
CreateFails ==
    /\ opening > 0 /\ Troubled /\ opening' = opening - 1 /\ Scheduled
    /\ \/ initWait /\ initWait' = FALSE /\ watching' = TRUE
       \/ (initWait => opening > 1) /\ UNCHANGED <<initWait, watching>>
    /\ UNCHANGED <<ws, sock, muted, active, bot, good, qq, view>>

\* connectWS goes on: it creates a socket.  The call of plugin_init returns,
\* which starts the watch.
Create ==
    /\ opening > 0 /\ \E s \in Socks : sock[s] = "free"
    /\ opening' = opening - 1
    /\ LET s == CHOOSE x \in Socks : sock[x] = "free"   \* one is as good as another
       IN ws' = s /\ sock' = [sock EXCEPT ![s] = "connecting"] /\ UNCHANGED muted
    /\ \/ initWait /\ initWait' = FALSE /\ watching' = TRUE
       \/ (initWait => opening > 1) /\ UNCHANGED <<initWait, watching>>
    /\ UNCHANGED <<timers, tracked, active, bot, ext, view>>

OnOpen(s) ==
    /\ sock[s] = "connecting"
    /\ sock' = [sock EXCEPT ![s] = "open"] /\ checking' = TRUE
    /\ UNCHANGED <<ws, muted, timers, tracked, opening, initWait, active, watching, watch, online,
                   failed, hb, grace, ext, view>>

\* Faulty: onerror leaves the reconnection to an onclose that may not come.
OnErrorWaits(s, closes) ==
    /\ sock[s] = "failing"
    /\ sock' = [sock EXCEPT ![s] = IF closes THEN "closing" ELSE "free"]
    /\ UNCHANGED <<ws, timers, tracked, muted, opening, initWait, active, watching, bot, ext, view>>

\* A handshake that fails raises onerror, and then onclose or nothing.
OnError(s, closes) ==
    /\ sock[s] = "failing"
    /\ sock' = [sock EXCEPT ![s] = IF closes THEN "closing" ELSE "free"]
    /\ IF tracked THEN UNCHANGED <<ws, timers, tracked>> ELSE ws' = NoSock /\ Scheduled
    /\ muted' = IF closes THEN muted ELSE muted \ {s}
    /\ UNCHANGED <<opening, initWait, active, watching, bot, ext, view>>

OnClose(s) ==
    /\ sock[s] \in {"gone", "closing"}
    /\ sock' = [sock EXCEPT ![s] = "free"]
    /\ IF s \in muted THEN UNCHANGED <<ws, timers, tracked>> ELSE ws' = NoSock /\ Scheduled
    /\ muted' = muted \ {s}
    /\ UNCHANGED <<opening, initWait, active, watching, bot, ext, view>>

\* The plugin closes the socket it holds, with its onclose taken off.
Dropped ==
    /\ ws' = NoSock /\ Cleared
    /\ IF ws = NoSock \/ sock[ws] = "free" THEN UNCHANGED <<sock, muted>>
       ELSE /\ muted' = muted \cup {ws}
            /\ sock' = [sock EXCEPT ![ws] = CASE @ = "failing" -> @
                                              [] @ = "connecting" -> "failing"
                                              [] OTHER -> "closing"]

SetConfig ==
    /\ active /\ Room /\ Troubled
    /\ Dropped /\ opening' = opening + 1
    /\ UNCHANGED <<initWait, active, watching, bot, good, qq, view>>

PluginCleanup ==
    /\ active /\ Troubled
    /\ Dropped /\ active' = FALSE /\ watching' = FALSE
    /\ UNCHANGED <<opening, initWait, bot, good, qq, view>>

-----------------------------------------------------------------------------
(* The reports. *)

CheckAndReportLogin ==
    /\ checking /\ checking' = FALSE
    /\ \E a \in Answers :
         IF a = "in" /\ active
           THEN online' = TRUE /\ failed' = FALSE /\ hb' = "fresh" /\ Send("in")
           ELSE /\ UNCHANGED <<online, failed, hb, told>>
                /\ excuse' = (excuse \/ (active /\ a = "error"))
    /\ UNCHANGED <<link, watch, grace, ext>>

\* After a heartbeat timeout the plugin asks before it reports; it does so too
\* when the grace period for a login has passed.
TimedOutBeat == online /\ hb = "old"
NeverCame == ~online /\ ~failed /\ grace

\* Faulty: a heartbeat timeout is reported unconfirmed.
WatchTickUnconfirmed ==
    /\ watching /\ watch = "idle" /\ TimedOutBeat
    /\ online' = FALSE /\ failed' = FALSE /\ told' = IF Linked THEN "out" ELSE told
    /\ UNCHANGED <<link, watch, checking, hb, grace, ext, excuse>>

WatchTick ==
    /\ watching /\ watch = "idle" /\ (TimedOutBeat \/ NeverCame)
    /\ watch' = IF TimedOutBeat THEN "confirm" ELSE "late"
    /\ UNCHANGED <<link, checking, online, failed, hb, grace, ext, view>>

Confirmed ==
    /\ watch = "confirm"
    /\ \E a \in Answers :
         IF a = "in"
           THEN hb' = "fresh" /\ watch' = "idle" /\ UNCHANGED <<online, failed, view>>
           ELSE /\ online' = FALSE /\ failed' = FALSE /\ UNCHANGED hb
                /\ watch' = IF grace THEN "late" ELSE "idle"
                /\ told' = IF Linked THEN "out" ELSE told
                /\ excuse' = (excuse \/ a = "error")
    /\ UNCHANGED <<link, checking, grace, ext>>

\* Faulty: after a login that is found late, the callback goes on.
LateCheckedGoesOn ==
    /\ watch = "late" /\ watch' = "idle"
    /\ \E a \in Answers :
         /\ IF a = "in" THEN online' = TRUE /\ hb' = "fresh" ELSE UNCHANGED <<online, hb>>
         /\ failed' = TRUE /\ told' = IF Linked THEN "out" ELSE told
         /\ excuse' = (excuse \/ a = "error")
    /\ UNCHANGED <<link, checking, grace, ext>>

LateChecked ==
    /\ watch = "late" /\ watch' = "idle"
    /\ \E a \in Answers :
         IF a = "in"
           THEN online' = TRUE /\ hb' = "fresh" /\ UNCHANGED failed /\ Send("in")
           ELSE /\ failed' = TRUE /\ UNCHANGED <<online, hb>>
                /\ told' = IF Linked THEN "out" ELSE told
                /\ excuse' = (excuse \/ a = "error")
    /\ UNCHANGED <<link, checking, grace, ext>>

Heartbeat ==
    /\ active /\ hb' = "fresh" /\ online' = TRUE
    /\ UNCHANGED <<link, watch, checking, failed, grace, ext, view>>

\* The account logs in; NapCat may announce it as bot_online or as a lifecycle
\* event, after which the plugin asks.
LogIn ==
    /\ ~qq /\ qq' = TRUE
    /\ \/ /\ active /\ online' = TRUE /\ hb' = "fresh" /\ Send("in") /\ UNCHANGED checking
       \/ /\ active /\ checking' = TRUE /\ UNCHANGED <<online, hb, view>>
       \/ /\ ~active \/ ~good
          /\ UNCHANGED <<online, hb, checking, view>>
    /\ UNCHANGED <<link, watch, failed, grace, good, trouble>>

\* The account is lost, with or without a bot_offline notice.
LogOut(noticed) ==
    /\ qq /\ Troubled /\ qq' = FALSE /\ excuse' = TRUE
    /\ IF noticed /\ active
         THEN online' = FALSE /\ told' = IF Linked THEN "out" ELSE told
         ELSE UNCHANGED <<online, told>>
    /\ UNCHANGED <<link, watch, checking, failed, hb, grace, good>>

-----------------------------------------------------------------------------
(* The network and the clock. *)

Breaks(s) ==
    /\ Troubled
    /\ \/ sock[s] = "connecting" /\ sock' = [sock EXCEPT ![s] = "failing"]
       \/ sock[s] = "open" /\ sock' = [sock EXCEPT ![s] = "gone"]
    /\ UNCHANGED <<ws, muted, timers, tracked, opening, initWait, active, watching, bot, good, qq, view>>

Elapse ==
    /\ \/ hb = "fresh" /\ hb' = "old" /\ UNCHANGED grace
       \/ ~grace /\ active /\ grace' = TRUE /\ UNCHANGED hb
    /\ UNCHANGED <<link, watch, checking, online, failed, ext, view>>

\* What becomes of a socket that failed or was closed is reported.
Reports(s) == OnClose(s) \/ \E closes \in BOOLEAN : OnError(s, closes)

\* NapCat's API has answered the watch.
Answered == Confirmed \/ LateChecked

Next ==
    \/ Reconnect \/ Create \/ CheckAndReportLogin \/ WatchTick \/ Answered
    \/ \E s \in Socks : Reports(s)
    \/ CreateFails \/ PluginInit \/ SetConfig \/ PluginCleanup \/ Heartbeat \/ LogIn \/ Elapse
    \/ \E s \in Socks : OnOpen(s) \/ Breaks(s)
    \/ \E noticed \in BOOLEAN : LogOut(noticed)

Spec == Init /\ [][Next]_vars

\* What is due runs; a manager that is tried again and again accepts some day.
FairSpec ==
    /\ Spec /\ WF_vars(Reconnect) /\ WF_vars(CheckAndReportLogin)
    /\ WF_vars(Answered) /\ WF_vars(Create)
    /\ \A s \in Socks : WF_vars(Reports(s)) /\ SF_vars(OnOpen(s))

-----------------------------------------------------------------------------
(* Whatever closes, errors and reconfigurations overlap, an initialised      *)
(* plugin holds a socket that can still be lost, or tries to get one.        *)
NeverStranded ==
    active => timers > 0 \/ opening > 0 \/ (ws # NoSock /\ sock[ws] # "free" /\ ws \notin muted)

(* The manager is not told of a logout unless the account was lost since it  *)
(* was told of the login, or NapCat's API failed: a heartbeat timeout and    *)
(* the grace period are confirmed before they are reported.                  *)
LogoutExcused == told = "out" => excuse

(* The plugin implements a reconnecting link that is never stopped: while it *)
(* is initialised and the network does not fail it for ever, it is linked    *)
(* again, whatever sockets of earlier configurations still report.           *)
Link == INSTANCE LiveLink WITH phase <- IF ~active THEN "off" ELSE IF Linked THEN "up" ELSE "trying"
ImplementsLink == Link!Spec

(* If NapCat announces logins and its API works, then of an account that     *)
(* stays logged in while the plugin stays linked, the last thing the manager  *)
(* was told becomes, and stays, its login: a logout that the watch or a lost  *)
(* link reported before is made good.                                         *)
LoginKnown ==
    good => (<>[](qq /\ active /\ Linked) => <>[](told = "in"))

=============================================================================
