------------------------------ MODULE Console -------------------------------
(***************************************************************************)
(* The pages of the console.  One page is mounted at a time and its state  *)
(* dies with it, so the pages share nothing but the manager: a behaviour   *)
(* is of one of them, page, and the others rest.                           *)
(***************************************************************************)
EXTENDS Naturals

CONSTANTS
    Names, DashNodes, Local, DashCards, Queries, MaxFlights, \* Dashboard
    PanelNames, Reports,                                    \* UserPanel
    UserIds, Nobody, MaxUserReqs,                           \* UsersPage
    MaxLoads, MayFail,                                      \* AppShell
    MaxChanges, MaxAnswers,                                 \* AdminList
    Values,                                                 \* ClusterForm
    NodeIds, NoNode, MaxFetches, MaxAsks,                   \* NodesPage
    Insts,                                                  \* AlertPage, and MaxAsks
    Conns, Accts, NoRow, MaxShepherdAsks,                   \* ShepherdPage
    Urls, Targets, Own, MaxBackendAsks,                     \* BackendPage
    Uins, MaxNetAsks,                                       \* NetworkTab
    FileNames, MaxFilesAsks                                 \* FilesTab

VARIABLES
    page,
    list, dash, batch, flights, seen,           \* Dashboard
    truth, panel, answers, heard,               \* UserPanel
    accounts, usersUi, userReqs,                \* UsersPage
    server, tab, asked,                         \* AppShell
    hub, layout, lists, late,                   \* AdminList
    store, form, ui, sent, hist,                \* ClusterForm
    nodesUi, console, nodeReqs, left,           \* NodesPage
    stored, alertUi, mailing, alertReqs,        \* AlertPage
    bs, bsUi, bsReqs,                           \* ShepherdPage
    library, lib, targets, inject,              \* BackendPage
    files, net, netReqs,                        \* NetworkTab
    disk, fm, fmReqs                            \* FilesTab

Dash == INSTANCE Dashboard WITH Nodes <- DashNodes, Cards <- DashCards

Panel == INSTANCE UserPanel

Users == INSTANCE UsersPage WITH Users <- UserIds

Shell == INSTANCE AppShell

List == INSTANCE AdminList

Cluster == INSTANCE ClusterForm

Nodes == INSTANCE NodesPage

Alerts == INSTANCE AlertPage

Shepherd == INSTANCE ShepherdPage

Backend == INSTANCE BackendPage

Network == INSTANCE NetworkTab

Files == INSTANCE FilesTab WITH Names <- FileNames

ASSUME PagesAssumption ==
    /\ Dash!DashboardAssumption /\ Panel!PanelAssumption /\ Users!UsersAssumption
    /\ Shell!ShellAssumption /\ List!AdminListAssumption /\ Cluster!ClusterAssumption
    /\ Nodes!NodesAssumption /\ Alerts!AlertAssumption /\ Shepherd!ShepherdAssumption
    /\ Backend!BackendAssumption /\ Network!NetAssumption /\ Files!FilesAssumption

dashVars == <<list, dash, batch, flights, seen>>
panelVars == <<truth, panel, answers, heard>>
usersVars == <<accounts, usersUi, userReqs>>
shellVars == <<server, tab, asked>>
listVars == <<hub, layout, lists, late>>
clusterVars == <<store, form, ui, sent, hist>>
nodesVars == <<nodesUi, console, nodeReqs, left>>
alertVars == <<stored, alertUi, mailing, alertReqs>>
shepherdVars == <<bs, bsUi, bsReqs>>
backendVars == <<library, lib, targets, inject>>
netVars == <<files, net, netReqs>>
filesVars == <<disk, fm, fmReqs>>
vars == <<page, dashVars, panelVars, usersVars, shellVars, listVars, clusterVars, nodesVars,
          alertVars, shepherdVars, backendVars, netVars, filesVars>>

-----------------------------------------------------------------------------
Init ==
    /\ page \in {"dashboard", "panel", "users", "shell", "list", "cluster", "nodes", "alerts",
                 "shepherd", "backend", "network", "files"}
    /\ Dash!Init /\ Panel!PanelInit /\ Users!UsersInit /\ Shell!ShellInit /\ List!ListInit
    /\ Cluster!ClusterInit /\ Nodes!NodesInit /\ Alerts!AlertInit /\ Shepherd!ShepherdInit
    /\ Backend!BackendInit /\ Network!NetInit /\ Files!FilesInit
    \* One initial state of each page that rests.
    /\ page # "panel" => truth = [n \in PanelNames |-> CHOOSE r \in Reports : TRUE]
    /\ page # "shell" => ~server.initialized /\ tab.route = "/"
    /\ page # "cluster" => store.key = "" /\ store.set = [f \in DOMAIN store.set |-> CHOOSE v \in Values : TRUE]
    /\ page # "alerts" => stored.rule = "none"
    /\ page # "shepherd" => bs.process = "none"
    /\ page # "backend" => library = <<>>
    /\ page # "network" => files = <<>>

Next ==
    /\ UNCHANGED page
    /\ IF page = "dashboard" THEN Dash!Next ELSE UNCHANGED dashVars
    /\ IF page = "panel" THEN Panel!PanelNext ELSE UNCHANGED panelVars
    /\ IF page = "users" THEN Users!UsersNext ELSE UNCHANGED usersVars
    /\ IF page = "shell" THEN Shell!ShellNext ELSE UNCHANGED shellVars
    /\ IF page = "list" THEN List!ListNext ELSE UNCHANGED listVars
    /\ IF page = "cluster" THEN Cluster!ClusterNext ELSE UNCHANGED clusterVars
    /\ IF page = "nodes" THEN Nodes!NodesNext ELSE UNCHANGED nodesVars
    /\ IF page = "alerts" THEN Alerts!AlertNext ELSE UNCHANGED alertVars
    /\ IF page = "shepherd" THEN Shepherd!ShepherdNext ELSE UNCHANGED shepherdVars
    /\ IF page = "backend" THEN Backend!BackendNext ELSE UNCHANGED backendVars
    /\ IF page = "network" THEN Network!NetNext ELSE UNCHANGED netVars
    /\ IF page = "files" THEN Files!FilesNext ELSE UNCHANGED filesVars

Spec == Init /\ [][Next]_vars

-----------------------------------------------------------------------------
(* The type invariants of the pages. *)
TypeOK ==
    /\ Dash!TypeOK /\ Panel!PanelTypeOK /\ Users!UsersTypeOK /\ Shell!ShellTypeOK
    /\ List!ListTypeOK /\ Cluster!ClusterTypeOK /\ Nodes!NodesTypeOK /\ Alerts!AlertTypeOK
    /\ Shepherd!ShepherdTypeOK /\ Backend!BackendTypeOK /\ Network!NetTypeOK /\ Files!FilesTypeOK

(* What is sent is meant for the thing whose button was pressed, whatever    *)
(* dialogs, filters, loads and other requests came in between: a batch for   *)
(* the node that was shown and for no name ticked before it, an edit for the *)
(* user, the node, the connection or the account it was opened for, a file   *)
(* for the account it was loaded of, a deletion for the folder on show, an   *)
(* API key that was typed and not the mask that stands for it.               *)
SentAsMeant ==
    /\ Dash!BatchHitsTicked /\ Dash!SelectionScoped
    /\ Users!SavedAsMeant /\ Nodes!SavedForNode /\ Shepherd!RowSavedAsEdited
    /\ Network!SavedToItsFile /\ Files!DeletesListed
    /\ Cluster!KeyKept

(* What an answer brings is shown as what it is of, though answers arrive in *)
(* any order and dialogs are single states of a page: a new API key, the log *)
(* of a node, the text of a file, which a save would store in another; the   *)
(* administrator's menu only after an answer that found an administrator's   *)
(* cookie.                                                                   *)
ShownOfOwner ==
    [](Users!KeyOfOwner /\ Nodes!LogOfNode /\ Files!TextKept) /\ Shell!MenuEarned

(* Once nothing is under way, what is shown is what the manager has: the     *)
(* list of containers, login codes, settings, rules and their switch, the    *)
(* library of endpoints, the endpoints of an instance.  (Each page says in   *)
(* its own module after which crossing of requests it does not.)             *)
QuietInStep ==
    /\ List!ListInStep /\ Panel!LastWordShown /\ Cluster!SavedComesBack
    /\ Alerts!RulesInStep /\ Alerts!AllowHonest
    /\ Backend!SavedAsShown /\ Network!ShownIsStored

(* However connections and dialogs come and go, one timer polls while there  *)
(* is something to poll for, and none otherwise: the list of AdminLayout,    *)
(* the log of BotShepherd.  And overlapping requests, failed ones included,  *)
(* leave nothing spinning: the phases of the nodes, the probes of endpoints. *)
NothingLeftRunning ==
    /\ List!OnePoll /\ Shepherd!LogPolled
    /\ Nodes!NodesSettle /\ Backend!ProbeSettles

(* A sequence of requests that is reported as done did all of them: the mail *)
(* rules of the selected instances, the injection into the chosen targets    *)
(* but for those BotShepherd refused.                                        *)
DoneIsDone == Alerts!MailsForAll /\ Backend!InjectedAll

(* A save of the whole changes what was edited and no more: no setting that  *)
(* nobody touched, no password that is not sent to the page, no endpoint a   *)
(* connection or an instance has, unless its configuration was not read.     *)
OnlyEdited == [][Cluster!EditedOnly /\ Alerts!ReplacedOnly /\ Backend!AddedOnly]_vars
=============================================================================
