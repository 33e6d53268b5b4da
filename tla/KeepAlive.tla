----------------------------- MODULE KeepAlive -----------------------------
(***************************************************************************)
(* The timing of the /ws/events feed, in seconds: the adaptive refresh     *)
(* interval of the state engine (_loop in services/container_state.py),    *)
(* the wait of a session for its next notification (wait_for_change and    *)
(* ws_events in routers/ws_router.py) and the silence after which the      *)
(* client gives the connection up (frontend/src/hooks/useWebSocket.ts).    *)
(*                                                                         *)
(* Refreshes, sends and deliveries take no time, and the network is sound: *)
(* what is asked is whether the timers suit one another.                   *)
(***************************************************************************)
EXTENDS Naturals

CONSTANTS
    IntervalMin,    \* _REFRESH_INTERVAL_MIN
    IntervalStep,   \* _REFRESH_INTERVAL_STEP
    IntervalMax,    \* _REFRESH_INTERVAL_MAX
    WaitTimeout,    \* timeout of wait_for_change
    ClientTimeout,  \* HEARTBEAT_TIMEOUT of the client
    Hidden          \* may a refresh find nothing to push (a plugin heartbeat, say)?

TimersAssumption ==
    /\ IntervalMin \in Nat \ {0} /\ IntervalStep \in Nat
    /\ IntervalMax \in Nat /\ IntervalMin <= IntervalMax
    /\ WaitTimeout \in Nat \ {0} /\ ClientTimeout \in Nat \ {0}
    /\ Hidden \in BOOLEAN

VARIABLES
    interval,   \* _idle_interval
    untilTick,  \* seconds until the engine's wait times out
    untilBeat,  \* seconds until the session's wait times out
    silence,    \* seconds since the client last received something
    open        \* the client holds the connection

vars == <<interval, untilTick, untilBeat, silence, open>>

Init ==
    /\ interval = IntervalMin /\ untilTick = IntervalMin
    /\ untilBeat = WaitTimeout
    /\ silence = 0 /\ open = TRUE

\* Faulty: the interval grows without limit.
NextIntervalUncapped == interval + IntervalStep

\* The interval after a wait that timed out.
NextInterval == IF interval + IntervalStep < IntervalMax THEN interval + IntervalStep ELSE IntervalMax

\* A refresh ends and notifies the session, which pushes if it sees a
\* change and waits again.
Notify(change) ==
    /\ untilBeat' = WaitTimeout
    /\ silence' = IF change THEN 0 ELSE silence
    /\ UNCHANGED open

\* The engine's wait times out; without an event nothing has changed.
Tick ==
    /\ untilTick = 0
    /\ interval' = NextInterval /\ untilTick' = interval'
    /\ Notify(FALSE)

\* An event (Docker, a plugin, a user) wakes the engine.
Event(change) ==
    /\ change \/ Hidden
    /\ interval' = IntervalMin /\ untilTick' = IntervalMin
    /\ Notify(change)

\* The session's wait times out: a heartbeat.
Beat ==
    /\ untilBeat = 0 /\ open
    /\ untilBeat' = WaitTimeout /\ silence' = 0
    /\ UNCHANGED <<interval, untilTick, open>>

\* Faulty: only a server that closes ends a connection.
GiveUpNever ==
    /\ FALSE
    /\ UNCHANGED vars

\* The client has heard nothing for too long: it closes the socket.
GiveUp ==
    /\ open /\ silence = ClientTimeout
    /\ open' = FALSE
    /\ UNCHANGED <<interval, untilTick, untilBeat, silence>>

\* And connects again: the first push is the whole list.
Reconnect ==
    /\ ~open
    /\ open' = TRUE /\ silence' = 0 /\ untilBeat' = WaitTimeout
    /\ UNCHANGED <<interval, untilTick>>

\* A second passes, once no timer is due.
Second ==
    /\ untilTick > 0
    /\ open => untilBeat > 0 /\ silence < ClientTimeout
    /\ untilTick' = untilTick - 1
    /\ untilBeat' = IF untilBeat > 0 THEN untilBeat - 1 ELSE 0
    /\ silence' = IF open THEN silence + 1 ELSE silence
    /\ UNCHANGED <<interval, open>>

Next == Tick \/ (\E change \in BOOLEAN : Event(change)) \/ Beat \/ GiveUp \/ Reconnect \/ Second

Spec == Init /\ [][Next]_vars

-----------------------------------------------------------------------------
TypeOK ==
    /\ interval \in IntervalMin..IntervalMax
    /\ untilTick \in 0..interval
    /\ untilBeat \in 0..WaitTimeout
    /\ silence \in 0..ClientTimeout
    /\ open \in BOOLEAN

(* However often events that change nothing restart the session's wait, and  *)
(* so put off its heartbeat, the client is never left with a silent feed for *)
(* good: a push, a heartbeat or a new connection always comes.               *)
HeardAgain == []<>(silence = 0 /\ open)
=============================================================================
