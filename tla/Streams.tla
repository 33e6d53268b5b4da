------------------------------ MODULE Streams -------------------------------
(***************************************************************************)
(* Four parts that share no state: the admission of WebSockets, the        *)
(* message monitor, the timers of a feed and the hook that keeps a socket. *)
(* A behaviour is of one of them, part; the others rest in an initial      *)
(* state.                                                                  *)
(***************************************************************************)
EXTENDS Naturals

CONSTANTS
    Conns, Public, Ips, Ip, MaxPublic, MaxPerIp,    \* PublicWs
    Subs, Cap, MaxMsgs,                             \* BotMessages
    Socks, Paths, NoSock                            \* SocketHook

VARIABLES
    part,
    admitted, gone, connections, perIp, cooling,               \* PublicWs
    buf, pushed, session, last, batch, got,                    \* BotMessages
    interval, untilTick, untilBeat, silence, open,             \* KeepAlive
    kind, mounted, path, ref, sock, spath, timers, hb, closing, connected, lastReason    \* SocketHook

Admit == INSTANCE PublicWs WITH pc <- admitted

Monitor == INSTANCE BotMessages WITH pc <- session

\* The code's own numbers, in seconds.
Timers == INSTANCE KeepAlive WITH
    IntervalMin <- 3, IntervalStep <- 3, IntervalMax <- 30,
    WaitTimeout <- 10, ClientTimeout <- 25, Hidden <- TRUE

Hook == INSTANCE SocketHook

ASSUME PartsAssumption ==
    /\ Admit!ConnsAssumption /\ Admit!LimitsAssumption
    /\ Monitor!CapAssumption /\ Timers!TimersAssumption /\ Hook!HookAssumption

admitVars == <<admitted, gone, connections, perIp, cooling>>
monitorVars == <<buf, pushed, session, last, batch, got>>
timersVars == <<interval, untilTick, untilBeat, silence, open>>
hookVars == <<kind, mounted, path, ref, sock, spath, timers, hb, closing, connected, lastReason>>
vars == <<part, admitVars, monitorVars, timersVars, hookVars>>

Init ==
    /\ part \in {"admit", "monitor", "timers", "hook"}
    /\ Admit!Init /\ Monitor!Init /\ Timers!Init /\ Hook!Init
    /\ part # "hook" => kind = "events" /\ path = CHOOSE p \in Paths : TRUE

Next ==
    /\ UNCHANGED part
    /\ IF part = "admit" THEN Admit!Next ELSE UNCHANGED admitVars
    /\ IF part = "monitor" THEN Monitor!Next ELSE UNCHANGED monitorVars
    /\ IF part = "timers" THEN Timers!Next ELSE UNCHANGED timersVars
    /\ IF part = "hook" THEN Hook!Next ELSE UNCHANGED hookVars

\* Sends complete or fail (they are bounded by 5 seconds), a session that was
\* woken runs, and the 15 seconds of its wait pass.  Time passes, timers that are
\* due fire, the client acts.  A socket that was closed reports it, and a server
\* that is tried again and again accepts some day.
Fairness ==
    /\ \A s \in Subs :
         /\ WF_monitorVars(part = "monitor" /\ Monitor!Session(s))
         /\ WF_monitorVars(part = "monitor" /\ Monitor!Idle(s))
    /\ \A s \in Socks :
         /\ SF_hookVars(part = "hook" /\ Hook!OnOpen(s))
         /\ WF_hookVars(part = "hook" /\ Hook!Reports(s))
    /\ WF_hookVars(part = "hook" /\ Hook!Retry)
    /\ SF_timersVars(part = "timers" /\ Timers!Second)
    /\ WF_timersVars(part = "timers" /\ Timers!Tick)
    /\ WF_timersVars(part = "timers" /\ Timers!Beat)
    /\ WF_timersVars(part = "timers" /\ Timers!GiveUp)
    /\ WF_timersVars(part = "timers" /\ Timers!Reconnect)

Spec == Init /\ [][Next]_vars /\ Fairness

-----------------------------------------------------------------------------
(* The type invariants of the parts. *)
TypeOK == Admit!TypeOK /\ Monitor!TypeOK /\ Timers!TypeOK /\ Hook!TypeOK

(* The counter of an address is the number of its open public sockets        *)
(* (_public_ws_per_ip).                                                      *)
CountersExact == Admit!CountersExact

(* The registered connections are the sockets that are open.                 *)
ConnectionsExact == Admit!ConnectionsExact

(* A monitor gets messages in their order, and none twice.                   *)
InOrderOnce == Monitor!InOrderOnce

(* A monitor skips no message it could have been sent.                       *)
NothingSkipped == Monitor!NothingSkipped

(* Who waits for a message hears of it: a session that one has woken delivers *)
(* it, and a client of a feed in which nothing changes hears of it, or        *)
(* connects again.                                                            *)
WaitersHear == Monitor!WokenDelivers /\ Timers!HeardAgain

(* A hook has one socket, or one reconnect timer, and its heartbeat timer is *)
(* of the socket it has.                                                     *)
OneLink == Hook!OneLink /\ Hook!HeartbeatOwn

(* The hook implements the reconnecting link of LiveLink.                    *)
ImplementsLink == Hook!ImplementsLink
=============================================================================
