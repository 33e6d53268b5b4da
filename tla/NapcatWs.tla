------------------------------ MODULE NapcatWs ------------------------------
(***************************************************************************)
(* The registry of reverse WebSockets and the API proxy of one container   *)
(* name: services/napcat_ws_service.py, with the endpoint that drives it,  *)
(* ws_napcat_named and _ob11_recv_loop in routers/ws_router.py.  The code  *)
(* keys everything by the container name and never relates two names, so   *)
(* one name is modelled; several sockets may be open for it at once (a     *)
(* quick reconnect, a probe by BotShepherd).                               *)
(*                                                                         *)
(* A step is what runs between two awaits of the event loop.               *)
(***************************************************************************)
CONSTANTS
    Socks,   \* the sockets that may be accepted, each once
    NoSock,  \* no socket
    Calls,   \* the API calls that may be made, each with an echo of its own
    Uins,    \* bot accounts
    NoUin    \* the empty uin

ASSUME NoSockAssumption == NoSock \notin Socks
ASSUME NoUinAssumption == NoUin \notin Uins

\* The X-Self-Id header of a socket: "0" (a probe), absent, or an account.
Headers == {"0", "absent"} \cup Uins

ASSUME HeaderAssumption == {"0", "absent"} \cap Uins = {}

VARIABLES
    sock,     \* [Socks -> state of the handler]; "gone": the peer left, the handler has not noticed
    header,   \* [Socks -> Headers]
    entry,    \* the _ConnEntry of the name; since abstracts disconnect_ts
    proxy,    \* the socket of the registered NapCatApiProxy (each handler creates at most one)
    closed,   \* sockets whose proxy has _closed set
    pending,  \* [Socks -> set of calls]: _pending of each proxy
    call,     \* [Calls -> how far call_action is]
    via,      \* [Calls -> socket of the proxy the call uses]
    fut,      \* [Calls -> state of the call's Future]
    latest,   \* ghost: the last non-probe socket accepted, until its handler ends or cleanup runs
    reported  \* ghost: has an event been received on it?

vars == <<sock, header, entry, proxy, closed, pending, call, via, fut, latest, reported>>

Entry == [known : BOOLEAN, uin : Uins \cup {NoUin}, connected : BOOLEAN,
          since : {"none", "grace", "expired"}, ref : Socks \cup {NoSock}]

NoEntry == [known |-> FALSE, uin |-> NoUin, connected |-> FALSE, since |-> "none", ref |-> NoSock]

Init ==
    /\ sock = [s \in Socks |-> "new"]
    /\ header = [s \in Socks |-> "absent"]
    /\ entry = NoEntry
    /\ proxy = NoSock
    /\ closed = {}
    /\ pending = [s \in Socks |-> {}]
    /\ call = [c \in Calls |-> "idle"]
    /\ via = [c \in Calls |-> NoSock]
    /\ fut = [c \in Calls |-> "none"]
    /\ latest = NoSock
    /\ reported = FALSE

-----------------------------------------------------------------------------
(* NapCatWsService: the connection registry *)

\* on_connect
Connected(u, s) == [known |-> TRUE, uin |-> u, connected |-> TRUE, since |-> "none", ref |-> s]

\* is_alive
IsAlive == entry.connected \/ entry.since = "grace"

\* Faulty: decides by the registered proxy instead of the bound socket.
DisconnectedByProxy(s) ==
    IF ~entry.known \/ proxy # s THEN entry
    ELSE [entry EXCEPT !.connected = FALSE, !.since = "grace", !.ref = NoSock]

\* on_disconnect: a socket other than the bound one is skipped, but when no
\* socket is bound any one restarts the grace period.
Disconnected(s) ==
    IF ~entry.known \/ entry.ref \notin {NoSock, s} THEN entry
    ELSE [entry EXCEPT !.connected = FALSE, !.since = "grace", !.ref = NoSock]

\* ensure_uin
EnsuredUin(u, s) ==
    IF ~entry.known THEN Connected(u, s)
    ELSE IF IsAlive THEN [entry EXCEPT !.uin = u]
    ELSE entry

\* get_login_result
LoginResult(e) == e.known /\ e.connected /\ e.uin # NoUin

-----------------------------------------------------------------------------
(* NapCatApiProxy and its registration *)

\* close: cancel what is pending, for the proxy of socket p (or none).
CloseProxy(p) ==
    /\ closed' = closed \cup ({p} \ {NoSock})
    /\ fut' = [c \in Calls |-> IF fut[c] = "pending" /\ p # NoSock /\ c \in pending[p]
                               THEN "cancelled" ELSE fut[c]]
    /\ pending' = [s \in Socks |-> IF s = p THEN {} ELSE pending[s]]

KeepProxies == UNCHANGED <<closed, fut, pending>>

\* Faulty: the proxy it replaces is dropped without being closed.
RegisterNoClose(s) == proxy' = s /\ KeepProxies

\* register_proxy
Register(s) == proxy' = s /\ CloseProxy(proxy)

\* Faulty: whichever socket ends, the proxy is unregistered.
UnregisterAny(s) == proxy' = NoSock /\ CloseProxy(proxy)

\* unregister_proxy: only the proxy bound to the socket that ended.
Unregister(s) ==
    IF proxy = s THEN proxy' = NoSock /\ CloseProxy(s)
    ELSE UNCHANGED proxy /\ KeepProxies

-----------------------------------------------------------------------------
(* ws_napcat_named *)

\* Faulty: an absent header is registered as an account.
AcceptedAnyHeader(s, h) == IF h = "0" THEN entry ELSE Connected(h, s)

\* What accepting a socket makes of the entry: a probe or a missing header
\* registers nothing.
Accepted(s, h) == IF h \in {"0", "absent"} THEN entry ELSE Connected(h, s)

Accept(s, h) ==
    /\ sock[s] = "new"
    /\ sock' = [sock EXCEPT ![s] = "open"]
    /\ header' = [header EXCEPT ![s] = h]
    /\ entry' = Accepted(s, h)
    /\ IF h = "0" THEN UNCHANGED <<proxy, latest, reported>> /\ KeepProxies
       ELSE Register(s) /\ latest' = s /\ reported' = FALSE
    /\ UNCHANGED <<call, via>>

\* An event with self_id u: _handle_ob11_event up to ensure_uin.
Event(s, u) ==
    /\ sock[s] = "open"
    /\ entry' = EnsuredUin(u, s)
    /\ reported' = (reported \/ s = latest)
    /\ UNCHANGED <<sock, header, proxy, closed, pending, call, via, fut, latest>>

\* A message with the echo of call c, on the socket the call went out on: it
\* is given to the proxy registered now.
Response(s, c, ok) ==
    /\ sock[s] = "open" /\ via[c] = s
    /\ proxy # NoSock /\ c \in pending[proxy] /\ fut[c] = "pending"
    /\ fut' = [fut EXCEPT ![c] = IF ok THEN "ok" ELSE "failed"]
    /\ UNCHANGED <<sock, header, entry, proxy, closed, pending, call, via, latest, reported>>

PeerLeaves(s) ==
    /\ sock[s] = "open"
    /\ sock' = [sock EXCEPT ![s] = "gone"]
    /\ UNCHANGED <<header, entry, proxy, closed, pending, call, via, fut, latest, reported>>

\* The handler notices: the two finally blocks, with no await between them.
HandlerEnds(s) ==
    /\ sock[s] = "gone"
    /\ sock' = [sock EXCEPT ![s] = "closed"]
    /\ entry' = Disconnected(s)
    /\ IF header[s] = "0" THEN UNCHANGED proxy /\ KeepProxies ELSE Unregister(s)
    /\ latest' = IF latest = s THEN NoSock ELSE latest
    /\ reported' = (reported /\ latest # s)
    /\ UNCHANGED <<header, call, via>>

\* cleanup, when the container is deleted or its data cleared.
Cleanup ==
    /\ entry' = NoEntry
    /\ proxy' = NoSock /\ CloseProxy(proxy)
    /\ latest' = NoSock /\ reported' = FALSE
    /\ UNCHANGED <<sock, header, call, via>>

\* The grace period (_RECONNECT_GRACE) runs out.
GraceEnds ==
    /\ entry.since = "grace"
    /\ entry' = [entry EXCEPT !.since = "expired"]
    /\ UNCHANGED <<sock, header, proxy, closed, pending, call, via, fut, latest, reported>>

-----------------------------------------------------------------------------
(* call_action *)

\* call_action ends, and pops its echo.
End(c, outcome) ==
    /\ call' = [call EXCEPT ![c] = outcome]
    /\ pending' = [s \in Socks |-> pending[s] \ {c}]
    /\ UNCHANGED <<sock, header, entry, proxy, closed, via, fut, latest, reported>>

Start(c) ==
    /\ call[c] = "idle"
    /\ IF proxy = NoSock \/ proxy \in closed THEN End(c, "error")
       ELSE /\ call' = [call EXCEPT ![c] = "sending"]
            /\ via' = [via EXCEPT ![c] = proxy]
            /\ fut' = [fut EXCEPT ![c] = "pending"]
            /\ pending' = [pending EXCEPT ![proxy] = @ \cup {c}]
            /\ UNCHANGED <<sock, header, entry, proxy, closed, latest, reported>>

\* send_json returns ...
Sent(c) ==
    /\ call[c] = "sending" /\ sock[via[c]] # "closed"
    /\ call' = [call EXCEPT ![c] = "waiting"]
    /\ UNCHANGED <<sock, header, entry, proxy, closed, pending, via, fut, latest, reported>>

\* ... or raises, at the latest after 5 seconds.
SendFails(c) == call[c] = "sending" /\ End(c, "error")

\* Faulty: a future cancelled by close() never resumes the caller.
AnsweredOnly(c) ==
    /\ call[c] = "waiting"
    /\ \/ fut[c] = "ok" /\ End(c, "returned")
       \/ fut[c] = "failed" /\ End(c, "error")

\* The future is done; a cancelled one raises CancelledError, which
\* `except asyncio.TimeoutError` lets through.
Answered(c) ==
    /\ call[c] = "waiting"
    /\ \/ fut[c] = "ok" /\ End(c, "returned")
       \/ fut[c] = "failed" /\ End(c, "error")
       \/ fut[c] = "cancelled" /\ End(c, "cancelled")

\* The timeout of the answer.
TimesOut(c) == call[c] = "waiting" /\ End(c, "error")

-----------------------------------------------------------------------------
CallStep(c) == Sent(c) \/ SendFails(c) \/ Answered(c) \/ TimesOut(c)

Next ==
    \/ \E s \in Socks :
          \/ \E h \in Headers : Accept(s, h)
          \/ \E u \in Uins : Event(s, u)
          \/ \E c \in Calls, ok \in BOOLEAN : Response(s, c, ok)
          \/ PeerLeaves(s) \/ HandlerEnds(s)
    \/ Cleanup \/ GraceEnds
    \/ \E c \in Calls : Start(c) \/ CallStep(c)

Spec == Init /\ [][Next]_vars

\* The event loop runs what is ready: futures that are done, and handlers
\* whose peer left.  No timeout is assumed to fire.
PromptSpec ==
    /\ Spec
    /\ \A c \in Calls : WF_vars(Sent(c) \/ SendFails(c)) /\ WF_vars(Answered(c))
    /\ \A s \in Socks : WF_vars(HandlerEnds(s))
-----------------------------------------------------------------------------
InFlight(c) == call[c] \in {"sending", "waiting"}

TypeOK ==
    /\ sock \in [Socks -> {"new", "open", "gone", "closed"}]
    /\ header \in [Socks -> Headers]
    /\ entry \in Entry
    /\ proxy \in Socks \cup {NoSock}
    /\ closed \subseteq Socks
    /\ pending \in [Socks -> SUBSET Calls]
    /\ call \in [Calls -> {"idle", "sending", "waiting", "returned", "error", "cancelled"}]
    /\ via \in [Calls -> Socks \cup {NoSock}]
    /\ fut \in [Calls -> {"none", "pending", "ok", "failed", "cancelled"}]
    /\ latest \in Socks \cup {NoSock}
    /\ reported \in BOOLEAN

(* A container shown connected has a socket behind it: the one its entry is *)
(* bound to, whose handler has not ended, whichever of several overlapping   *)
(* sockets connect, report and close in whatever order.                      *)
ConnectedHasSocket ==
    entry.connected => entry.ref \in Socks /\ sock[entry.ref] \in {"open", "gone"}

(* A call whose answer is still awaited is pending in the registered proxy,  *)
(* over the socket it was sent on: an answer finds it (the receive loop asks *)
(* for the proxy registered at that moment), and closing the proxy ends it.  *)
NoOrphanCall ==
    \A c \in Calls : InFlight(c) /\ fut[c] = "pending"
                        => via[c] = proxy /\ proxy \notin closed /\ c \in pending[proxy]

(* The last socket accepted keeps its API proxy until it ends: the late end  *)
(* of an older socket, or a probe, does not take it away.                    *)
LatestKeepsProxy == latest # NoSock => proxy = latest

(* A call in flight when its socket is lost ends, without waiting for its    *)
(* timeout.                                                                  *)
LostSocketEndsCalls ==
    \A c \in Calls, s \in Socks :
        (InFlight(c) /\ via[c] = s /\ sock[s] = "gone") ~> ~InFlight(c)

(* What ensure_uin promises: once an event has shown the real uin of the     *)
(* latest socket, get_login_result says logged in.                           *)
EventMakesLoggedIn == reported => LoginResult(entry)

=============================================================================
