----------------------------- MODULE SocketHook -----------------------------
(***************************************************************************)
(* The WebSocket hooks of the console: useWebSocket (the container events  *)
(* of the admin pages and the messages of a bot) and usePublicWebSocket    *)
(* (the user panel).  They differ in the closes that they do not retry,    *)
(* and in that the first follows the path it is given.                     *)
(*                                                                         *)
(* A step is a callback of the browser: an effect, a timer, an event of a  *)
(* socket.  A hook instance is mounted once.                               *)
(***************************************************************************)
EXTENDS Naturals, FiniteSets

CONSTANTS Socks, NoSock, Paths

HookAssumption == IsFiniteSet(Socks) /\ Socks # {} /\ NoSock \notin Socks /\ Paths # {}

VARIABLES
    kind,       \* "events" or "public"
    mounted,    \* "new", "yes", then "no" (disposedRef)
    path,       \* optRef.current.path
    ref,        \* wsRef
    sock,       \* a socket's state; "aborted": closed before it was open
    spath,      \* the path a socket was created for
    timers,     \* reconnect timers that run
    hb,         \* heartbeatRef runs
    closing,    \* closeReasonRef
    connected, lastReason

hookVars == <<kind, mounted, path, ref, sock, spath, timers, hb, closing, connected, lastReason>>

Codes == {1000, 1006, 4001, 4429, 4999}
Reasons == {"unauthorized", "capacity_limited", "heartbeat_timeout", "network_error",
            "server_closed", "manual_close", "unknown"}

Live == {s \in Socks : sock[s] \in {"connecting", "open"}}

TypeOK ==
    /\ kind \in {"events", "public"} /\ mounted \in {"new", "yes", "no"} /\ path \in Paths
    /\ ref \in Socks \cup {NoSock} /\ spath \in [Socks -> Paths]
    /\ sock \in [Socks -> {"free", "connecting", "open", "closing", "aborted"}]
    /\ timers \in 0..1 /\ {hb, connected} \subseteq BOOLEAN
    /\ {closing, lastReason} \subseteq Reasons \cup {"none"}

Init ==
    /\ kind \in {"events", "public"} /\ mounted = "new" /\ path \in Paths
    /\ ref = NoSock /\ sock = [s \in Socks |-> "free"] /\ spath \in [Socks -> {path}]
    /\ timers = 0 /\ hb = FALSE /\ closing = "none" /\ connected = FALSE /\ lastReason = "none"

-----------------------------------------------------------------------------

\* ws.close(): a socket that is not open yet fails.
Shut(s) ==
    [sock EXCEPT ![s] = CASE @ = "connecting" -> "aborted" [] @ = "open" -> "closing" [] OTHER -> @]

\* connect: the socket it replaces has usually closed by itself.
Connect ==
    LET left == IF ref = NoSock THEN sock ELSE Shut(ref)
        s == CHOOSE x \in Socks : left[x] = "free"
    IN  /\ ref' = s /\ sock' = [left EXCEPT ![s] = "connecting"] /\ spath' = [spath EXCEPT ![s] = path]
        /\ closing' = IF ref = NoSock THEN closing ELSE "manual_close"

\* classifyClose
Classify(code) ==
    CASE code = 4001 -> "unauthorized"
      [] code = 4429 -> "capacity_limited"
      [] code = 1000 -> "manual_close"
      [] code = 1006 -> "server_closed"
      [] OTHER -> "unknown"

ClassifyPublic(code) == IF code = 4001 THEN "unknown" ELSE Classify(code)

Skipped(reason) == reason = "unauthorized"
SkippedPublic(reason) == reason = "capacity_limited"

Final(reason) == IF kind = "events" THEN Skipped(reason) ELSE SkippedPublic(reason)

-----------------------------------------------------------------------------

Mount ==
    /\ mounted = "new" /\ mounted' = "yes"
    /\ Connect
    /\ UNCHANGED <<kind, path, timers, hb, connected, lastReason>>

Unmount ==
    /\ mounted = "yes" /\ mounted' = "no"
    /\ closing' = "manual_close" /\ timers' = 0 /\ hb' = FALSE
    /\ ref' = NoSock /\ sock' = IF ref = NoSock THEN sock ELSE Shut(ref)
    /\ UNCHANGED <<kind, path, spath, connected, lastReason>>

\* The effect on [path] closes an open socket only.
SetPath(p) ==
    /\ kind = "events" /\ mounted = "yes" /\ p # path /\ path' = p
    /\ IF ref # NoSock /\ sock[ref] = "open"
         THEN closing' = "manual_close" /\ sock' = Shut(ref)
         ELSE UNCHANGED <<closing, sock>>
    /\ UNCHANGED <<kind, mounted, ref, spath, timers, hb, connected, lastReason>>

\* A reconnect timer fires.
Retry ==
    /\ timers > 0 /\ timers' = timers - 1
    /\ Connect
    /\ UNCHANGED <<kind, mounted, path, hb, connected, lastReason>>

OnOpen(s) ==
    /\ sock[s] = "connecting"
    /\ IF mounted = "yes"
         THEN /\ sock' = [sock EXCEPT ![s] = "open"]
              /\ connected' = TRUE /\ lastReason' = "none" /\ hb' = TRUE
         ELSE sock' = [sock EXCEPT ![s] = "closing"] /\ UNCHANGED <<connected, lastReason, hb>>
    /\ UNCHANGED <<kind, mounted, path, ref, spath, timers, closing>>

\* Faulty: onclose leaves the heartbeat timer of the socket running.
OnCloseHeartbeatLeft(s, code, error) ==
    /\ sock[s] # "free" /\ (sock[s] = "aborted" => error)
    /\ LET reason == IF error THEN "network_error"
                     ELSE IF closing # "none" THEN closing
                     ELSE IF kind = "events" THEN Classify(code) ELSE ClassifyPublic(code)
       IN /\ lastReason' = reason
          /\ timers' = IF Final(reason) \/ mounted # "yes" THEN timers ELSE timers + 1
    /\ sock' = [sock EXCEPT ![s] = "free"]
    /\ closing' = "none" /\ connected' = FALSE
    /\ UNCHANGED <<kind, mounted, path, ref, spath, hb>>

\* Faulty: onerror schedules a reconnect too.
OnCloseTwice(s, code, error) ==
    /\ sock[s] # "free" /\ (sock[s] = "aborted" => error)
    /\ LET reason == IF error THEN "network_error"
                     ELSE IF closing # "none" THEN closing
                     ELSE IF kind = "events" THEN Classify(code) ELSE ClassifyPublic(code)
       IN /\ lastReason' = reason
          /\ timers' = IF Final(reason) \/ mounted # "yes" THEN timers
                       ELSE timers + (IF error THEN 2 ELSE 1)
    /\ sock' = [sock EXCEPT ![s] = "free"]
    /\ closing' = "none" /\ connected' = FALSE /\ hb' = FALSE
    /\ UNCHANGED <<kind, mounted, path, ref, spath>>

\* Faulty: a socket that the hook closed itself is not replaced.
OnCloseManualFinal(s, code, error) ==
    /\ sock[s] # "free" /\ (sock[s] = "aborted" => error)
    /\ LET reason == IF error THEN "network_error"
                     ELSE IF closing # "none" THEN closing
                     ELSE IF kind = "events" THEN Classify(code) ELSE ClassifyPublic(code)
       IN /\ lastReason' = reason
          /\ timers' = IF Final(reason) \/ reason = "manual_close" \/ mounted # "yes"
                       THEN timers ELSE timers + 1
    /\ sock' = [sock EXCEPT ![s] = "free"]
    /\ closing' = "none" /\ connected' = FALSE /\ hb' = FALSE
    /\ UNCHANGED <<kind, mounted, path, ref, spath>>

\* onerror, if the socket failed, and then onclose.  The reason the hook noted
\* comes before the code of the close, whoever closed; wsRef keeps the socket.
OnClose(s, code, error) ==
    /\ sock[s] # "free" /\ (sock[s] = "aborted" => error)
    /\ LET reason == IF error THEN "network_error"
                     ELSE IF closing # "none" THEN closing
                     ELSE IF kind = "events" THEN Classify(code) ELSE ClassifyPublic(code)
       IN /\ lastReason' = reason
          /\ timers' = IF Final(reason) \/ mounted # "yes" THEN timers ELSE timers + 1
    /\ sock' = [sock EXCEPT ![s] = "free"]
    /\ closing' = "none" /\ connected' = FALSE /\ hb' = FALSE
    /\ UNCHANGED <<kind, mounted, path, ref, spath>>

\* onmessage restarts the timeout.
OnMessage(s) ==
    /\ sock[s] = "open" /\ hb' = TRUE
    /\ UNCHANGED <<kind, mounted, path, ref, sock, spath, timers, closing, connected, lastReason>>

HeartbeatTimeout ==
    /\ hb /\ hb' = FALSE
    /\ closing' = "heartbeat_timeout"
    /\ sock' = IF ref = NoSock THEN sock ELSE Shut(ref)
    /\ UNCHANGED <<kind, mounted, path, ref, spath, timers, connected, lastReason>>

Next ==
    \/ Mount \/ Unmount \/ Retry \/ HeartbeatTimeout
    \/ \E p \in Paths : SetPath(p)
    \/ \E s \in Socks : OnOpen(s) \/ OnMessage(s)
    \/ \E s \in Socks, code \in Codes, error \in BOOLEAN : OnClose(s, code, error)

Spec == Init /\ [][Next]_hookVars

\* A socket that was closed reports it.
Reports(s) == sock[s] \in {"closing", "aborted"} /\ \E code \in Codes, error \in BOOLEAN : OnClose(s, code, error)

-----------------------------------------------------------------------------
(* However closes, errors, timeouts and changes of the path overlap, a hook   *)
(* has one socket or one reconnect timer: it never competes with itself.      *)
OneLink == timers + Cardinality({s \in Socks : sock[s] # "free"}) <= 1

(* The heartbeat timer, which closes whatever wsRef holds when it fires, only *)
(* runs while that is the socket that armed it, and the badge "connected" is  *)
(* only on while that socket has not reported its close.                      *)
HeartbeatOwn == hb \/ (connected /\ mounted = "yes") => ref # NoSock /\ sock[ref] \in {"open", "closing"}

(* The hook implements a reconnecting link: it stops only at a refusal.       *)
Link == INSTANCE LiveLink WITH phase <-
    CASE mounted # "yes" -> "off"
      [] mounted = "yes" /\ connected -> "up"
      [] mounted = "yes" /\ ~connected /\ Live = {} /\ timers = 0 /\ Final(lastReason) -> "stopped"
      [] OTHER -> "trying"
ImplementsLink == Link!Spec
=============================================================================
