------------------------------ MODULE Endings -------------------------------
(***************************************************************************)
(* What must happen in the end.  The streams, the public feed and three    *)
(* pages of the console, under the fairness each of them has; like the     *)
(* parts of Streams they share no state, and a behaviour is of one.        *)
(***************************************************************************)
EXTENDS Streams

CONSTANTS
    Names, QrStates, PageSize, Pages, MaxChan, Patches,     \* PublicFeed
    PanelNames, PanelReports,                               \* UserPanel
    MaxLoads, MayFail,                                      \* AppShell
    MaxChanges, MaxAnswers                                  \* AdminList

VARIABLES
    what,
    table, pc, page, first, prev, curr, out, chan, view,    \* PublicFeed
    truth, panel, answers, heard,                           \* UserPanel
    server, tab, asked,                                     \* AppShell
    hub, layout, lists, late                                \* AdminList

Feed == INSTANCE PublicFeed

Panel == INSTANCE UserPanel WITH Reports <- PanelReports

Shell == INSTANCE AppShell

List == INSTANCE AdminList

ASSUME EndingsAssumption ==
    /\ Feed!FeedAssumption /\ Panel!PanelAssumption /\ Shell!ShellAssumption
    /\ List!AdminListAssumption

feedVars == <<table, pc, page, first, prev, curr, out, chan, view>>
panelVars == <<truth, panel, answers, heard>>
shellVars == <<server, tab, asked>>
listVars == <<hub, layout, lists, late>>
endVars == <<what, vars, feedVars, panelVars, shellVars, listVars>>

EndInit ==
    /\ what \in {"streams", "feed", "panel", "shell", "list"}
    /\ Init /\ Feed!Init /\ Panel!PanelInit /\ Shell!ShellInit /\ List!ListInit
    \* One initial state of each part that rests.
    /\ what # "streams" => part = "admit"
    /\ what # "panel" => truth = [n \in PanelNames |-> CHOOSE r \in PanelReports : TRUE]
    /\ what # "shell" => ~server.initialized /\ tab.route = "/"

EndNext ==
    /\ UNCHANGED what
    /\ IF what = "streams" THEN Next ELSE UNCHANGED vars
    /\ IF what = "feed" THEN Feed!Next ELSE UNCHANGED feedVars
    /\ IF what = "panel" THEN Panel!PanelNext ELSE UNCHANGED panelVars
    /\ IF what = "shell" THEN Shell!ShellNext ELSE UNCHANGED shellVars
    /\ IF what = "list" THEN List!ListNext ELSE UNCHANGED listVars

\* That of FairSpec for the feed.  On the pages requests are answered or fail,
\* and timers fire; nobody has to click.
EndFairness ==
    /\ Fairness
    /\ WF_feedVars(what = "feed" /\ (Feed!Build \/ Feed!Idle \/ Feed!Reconnect))
    /\ SF_feedVars(what = "feed" /\ Feed!Sent) /\ SF_feedVars(what = "feed" /\ Feed!Beaten)
    /\ SF_feedVars(what = "feed" /\ Feed!Receive)
    /\ WF_panelVars(what = "panel" /\ Panel!PanelSystem)
    /\ WF_shellVars(what = "shell" /\ Shell!AppStatus)
    /\ WF_shellVars(what = "shell" /\ Shell!LogoutAnswer)
    /\ WF_listVars(what = "list" /\ List!Poll)

EndSpec == EndInit /\ [][EndNext]_endVars /\ EndFairness

-----------------------------------------------------------------------------
(* The public feed converges: when the table and the subscription no longer *)
(* change, the client ends up showing the table (ws_public,                  *)
(* usePublicWebSocket), if it applies patches.                               *)
Converges == Feed!Converges

(* What waits for an answer ends: a panel without containers stops loading,  *)
(* a logout leaves the console whatever the manager answers, and the list is *)
(* asked for as long as there is no connection.                              *)
WaitingEnds == Panel!LoadingEnds /\ Shell!LogoutLeaves /\ List!PollsOn
=============================================================================
