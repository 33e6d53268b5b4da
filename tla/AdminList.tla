----------------------------- MODULE AdminList ------------------------------
(***************************************************************************)
(* The container list of AdminLayout, which every page of the console      *)
(* reads: pushed over /ws/events when it changed, fetched over HTTP by     *)
(* the pages' refresh buttons, and polled while the WebSocket is down.     *)
(* A list is the number of changes it has seen.                            *)
(***************************************************************************)
EXTENDS Naturals, FiniteSets

CONSTANTS MaxChanges,   \* bound: changes of the list
          MaxAnswers    \* bound: requests for the list under way

AdminListAssumption == {MaxChanges, MaxAnswers} \subseteq Nat \ {0}

VARIABLES
    hub,     \* the manager's list, and what the session of ws_events sent last
    layout,  \* the list shown, the hook's connection, the timers of the poll
    lists,   \* answers on their way; the manager has not looked yet at a 0
    late     \* since the last push, did an answer replace a newer list?

listVars == <<hub, layout, lists, late>>

Unsent == 0

ListInit ==
    /\ hub = [now |-> 1, sent |-> Unsent]
    /\ layout = [shown |-> Unsent, up |-> FALSE, timers |-> 1]
    /\ lists = {[id |-> 1, is |-> Unsent]}    \* the effect's first refreshContainers
    /\ late = FALSE

ListTypeOK ==
    /\ hub.now \in 1..MaxChanges /\ hub.sent \in 0..MaxChanges
    /\ layout.shown \in 0..MaxChanges /\ layout.up \in BOOLEAN /\ layout.timers \in Nat
    /\ \A l \in lists : l.id \in 1..MaxAnswers /\ l.is \in 0..MaxChanges
    /\ late \in BOOLEAN

-----------------------------------------------------------------------------

HubChanges ==
    /\ hub.now < MaxChanges /\ hub' = [hub EXCEPT !.now = @ + 1]
    /\ UNCHANGED <<layout, lists, late>>

\* Faulty: what is pushed before the first list was fetched is dropped.
PushEarly ==
    /\ layout.up /\ hub.sent # hub.now
    /\ hub' = [hub EXCEPT !.sent = hub.now]
    /\ layout' = [layout EXCEPT !.shown = IF @ = Unsent THEN @ ELSE hub.now]
    /\ late' = FALSE /\ UNCHANGED lists

\* ws_events pushes what differs from what it pushed last; the effect on
\* [wsData] shows it.
Push ==
    /\ layout.up /\ hub.sent # hub.now
    /\ hub' = [hub EXCEPT !.sent = hub.now]
    /\ layout' = [layout EXCEPT !.shown = hub.now]
    /\ late' = FALSE /\ UNCHANGED lists

Asked == \E i \in 1..MaxAnswers :
    /\ \A l \in lists : l.id # i
    /\ lists' = lists \cup {[id |-> i, is |-> Unsent]}

\* Faulty: the effect has no cleanup.
UpNoCleanup ==
    /\ ~layout.up /\ layout' = [layout EXCEPT !.up = TRUE]
    /\ hub' = [hub EXCEPT !.sent = Unsent]
    /\ UNCHANGED <<lists, late>>

\* The effect on [wsConnected] starts polling when the connection is lost, and
\* its cleanup clears the timer when there is one again.
Up ==
    /\ ~layout.up /\ layout' = [layout EXCEPT !.up = TRUE, !.timers = @ - 1]
    /\ hub' = [hub EXCEPT !.sent = Unsent]
    /\ UNCHANGED <<lists, late>>

Down ==
    /\ layout.up /\ Asked
    /\ layout' = [layout EXCEPT !.up = FALSE, !.timers = @ + 1]
    /\ UNCHANGED <<hub, late>>

\* Faulty: the timer is not set again.
PollOnce ==
    /\ layout.timers > 0 /\ ~layout.up /\ Asked
    /\ layout' = [layout EXCEPT !.timers = @ - 1]
    /\ UNCHANGED <<hub, late>>

\* It sets the timer anew, later every time, up to a minute.
Poll ==
    /\ layout.timers > 0 /\ Asked /\ UNCHANGED <<hub, layout, late>>

\* The pages refresh after what they did.
Refresh == Asked /\ UNCHANGED <<hub, layout, late>>

ListServe(l) ==
    /\ l \in lists /\ l.is = Unsent /\ lists' = (lists \ {l}) \cup {[l EXCEPT !.is = hub.now]}
    /\ UNCHANGED <<hub, layout, late>>

\* Answers arrive in any order, and none is held against what is shown.
Refreshed(l) ==
    /\ l \in lists /\ l.is # Unsent /\ lists' = lists \ {l}
    /\ layout' = [layout EXCEPT !.shown = l.is] /\ late' = (late \/ l.is < layout.shown)
    /\ UNCHANGED hub

RefreshFailed(l) == l \in lists /\ lists' = lists \ {l} /\ UNCHANGED <<hub, layout, late>>

ListAnswers == \E l \in lists : ListServe(l) \/ Refreshed(l) \/ RefreshFailed(l)

ListNext == HubChanges \/ Push \/ Up \/ Down \/ Poll \/ Refresh \/ ListAnswers

-----------------------------------------------------------------------------
(* Once connected and pushed to, the console shows the manager's list, if no *)
(* answer was overtaken by a newer list: an answer that was stays on show    *)
(* until the next change, for ws_events pushes nothing but changes.          *)
ListInStep == layout.up /\ hub.sent = hub.now /\ ~late => layout.shown = hub.now

(* However often the connection comes and goes, one timer polls while it is  *)
(* down, and none while it is up.                                            *)
OnePoll == layout.timers = IF layout.up THEN 0 ELSE 1

(* While the connection is down, the list is asked for again and again.      *)
PollsOn == []<>(layout.up \/ lists # {})
=============================================================================
