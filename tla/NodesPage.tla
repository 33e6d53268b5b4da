------------------------------ MODULE NodesPage -----------------------------
(***************************************************************************)
(* The nodes of the cluster (pages/Nodes): the list, fetched in two        *)
(* phases, the form of a node, whose key is fetched when it is opened, and *)
(* the console, which fetches the log of a node again and again.           *)
(*                                                                         *)
(* Form, dialog and console are single states of the page: an answer goes  *)
(* where they point by then.                                               *)
(***************************************************************************)
EXTENDS Naturals, FiniteSets

CONSTANTS NodeIds,      \* the remote nodes
          NoNode,
          MaxFetches,   \* bound: fetches of the list at a time
          MaxAsks       \* bound: other requests at a time

NodesAssumption == NoNode \notin NodeIds /\ MaxFetches \in Nat \ {0} /\ MaxAsks \in Nat

VARIABLES
    nodesUi,   \* the list, the dialogs, the form
    console,   \* the console: whose log is asked for and shown, and the timer
    nodeReqs,  \* requests under way
    left       \* a form, or a console, was closed while its answer was awaited

nodesVars == <<nodesUi, console, nodeReqs, left>>

Shut == [node |-> NoNode, shows |-> NoNode, timer |-> NoNode, open |-> FALSE]

NodesInit ==
    /\ nodesUi = [loading |-> TRUE, remote |-> TRUE, listed |-> FALSE,
                  dialog |-> "none", edits |-> NoNode, holds |-> NoNode, keyLoading |-> FALSE]
    /\ console = Shut
    /\ nodeReqs = [quick |-> 1, full |-> 0, gets |-> {}, logs |-> {}, saves |-> {}, deletes |-> {}]
    /\ left = [form |-> FALSE, log |-> FALSE]

NodesTypeOK ==
    /\ {nodesUi.loading, nodesUi.remote, nodesUi.listed, nodesUi.keyLoading, console.open,
        left.form, left.log} \subseteq BOOLEAN
    /\ nodesUi.dialog \in {"none", "form", "delete"}
    /\ {nodesUi.edits, nodesUi.holds, console.node, console.shows, console.timer}
         \subseteq NodeIds \cup {NoNode}
    /\ {nodeReqs.quick, nodeReqs.full} \subseteq 0..MaxFetches
    /\ nodeReqs.gets \cup nodeReqs.logs \cup nodeReqs.deletes \subseteq NodeIds
    /\ nodeReqs.saves \subseteq (NodeIds \cup {NoNode}) \X (NodeIds \cup {NoNode})

-----------------------------------------------------------------------------
(* fetchNodes, in two phases. *)

Fetching(u) == [u EXCEPT !.loading = TRUE, !.remote = TRUE]
CanFetch == nodeReqs.quick + nodeReqs.full < MaxFetches

CanAsk ==
    Cardinality(nodeReqs.gets) + Cardinality(nodeReqs.logs) + Cardinality(nodeReqs.saves)
      + Cardinality(nodeReqs.deletes) < MaxAsks

FetchNodes ==
    /\ nodesUi.dialog = "none" /\ ~console.open /\ CanFetch
    /\ nodesUi' = Fetching(nodesUi) /\ nodeReqs' = [nodeReqs EXCEPT !.quick = @ + 1]
    /\ UNCHANGED <<console, left>>

\* Whatever comes of the first phase, the second follows.
QuickAnswer(ok) ==
    /\ nodeReqs.quick > 0
    /\ nodesUi' = [nodesUi EXCEPT !.loading = FALSE, !.listed = @ \/ ok]
    /\ nodeReqs' = [nodeReqs EXCEPT !.quick = @ - 1, !.full = @ + 1]
    /\ UNCHANGED <<console, left>>

\* Faulty: a health check that fails leaves the veil on the remote nodes.
FullAnswerInTry(ok) ==
    /\ nodeReqs.full > 0 /\ nodeReqs' = [nodeReqs EXCEPT !.full = @ - 1]
    /\ nodesUi' = IF ok THEN [nodesUi EXCEPT !.remote = FALSE, !.listed = TRUE] ELSE nodesUi
    /\ UNCHANGED <<console, left>>

FullAnswer(ok) ==
    /\ nodeReqs.full > 0 /\ nodeReqs' = [nodeReqs EXCEPT !.full = @ - 1]
    /\ nodesUi' = [nodesUi EXCEPT !.remote = FALSE, !.listed = @ \/ ok]
    /\ UNCHANGED <<console, left>>

-----------------------------------------------------------------------------
(* The form.  What it holds is whose name, address and key it holds.        *)

Cards == nodesUi.dialog = "none" /\ ~console.open /\ ~nodesUi.loading /\ nodesUi.listed

OpenAdd ==
    /\ nodesUi.dialog = "none" /\ ~console.open
    /\ nodesUi' = [nodesUi EXCEPT !.dialog = "form", !.edits = NoNode, !.holds = NoNode,
                                  !.keyLoading = FALSE]
    /\ UNCHANGED <<console, nodeReqs, left>>

\* Faulty: the form is not filled from the card, only from the answer.
OpenEditBlank(n) ==
    /\ Cards /\ CanAsk
    /\ nodesUi' = [nodesUi EXCEPT !.dialog = "form", !.edits = n, !.keyLoading = TRUE]
    /\ nodeReqs' = [nodeReqs EXCEPT !.gets = @ \cup {n}]
    /\ UNCHANGED <<console, left>>

OpenEdit(n) ==
    /\ Cards /\ CanAsk
    /\ nodesUi' = [nodesUi EXCEPT !.dialog = "form", !.edits = n, !.holds = n, !.keyLoading = TRUE]
    /\ nodeReqs' = [nodeReqs EXCEPT !.gets = @ \cup {n}]
    /\ UNCHANGED <<console, left>>

\* The answer fills the form, whosever it is by now.
KeyAnswer(n, ok) ==
    /\ n \in nodeReqs.gets /\ nodeReqs' = [nodeReqs EXCEPT !.gets = @ \ {n}]
    /\ nodesUi' = [nodesUi EXCEPT !.keyLoading = FALSE, !.holds = IF ok THEN n ELSE @]
    /\ UNCHANGED <<console, left>>

CloseForm ==
    /\ nodesUi.dialog = "form" /\ nodesUi' = [nodesUi EXCEPT !.dialog = "none"]
    /\ left' = [left EXCEPT !.form = @ \/ nodeReqs.gets # {}]
    /\ UNCHANGED <<console, nodeReqs>>

\* The button is off while the key is loaded, but not during a save.
SaveNode ==
    /\ nodesUi.dialog = "form" /\ ~nodesUi.keyLoading /\ CanAsk
    /\ nodeReqs' = [nodeReqs EXCEPT !.saves = {<<nodesUi.edits, nodesUi.holds>>}]
    /\ UNCHANGED <<nodesUi, console, left>>

\* handleSave closes the form, though it may be another one by now.
SaveAnswer(s, ok) ==
    /\ s \in nodeReqs.saves /\ (ok => CanFetch)
    /\ nodeReqs' = [nodeReqs EXCEPT !.saves = {}, !.quick = IF ok THEN @ + 1 ELSE @]
    /\ nodesUi' = IF ok THEN Fetching([nodesUi EXCEPT !.dialog = IF @ = "form" THEN "none" ELSE @])
                  ELSE nodesUi
    /\ left' = [left EXCEPT !.form = @ \/ (ok /\ nodesUi.dialog = "form" /\ nodeReqs.gets # {})]
    /\ UNCHANGED console

AskDelete(n) ==
    /\ Cards /\ nodesUi' = [nodesUi EXCEPT !.dialog = "delete", !.edits = n]
    /\ UNCHANGED <<console, nodeReqs, left>>

CloseDelete ==
    /\ nodesUi.dialog = "delete" /\ nodesUi' = [nodesUi EXCEPT !.dialog = "none", !.edits = NoNode]
    /\ UNCHANGED <<console, nodeReqs, left>>

DeleteNode ==
    /\ nodesUi.dialog = "delete" /\ CanAsk /\ nodeReqs' = [nodeReqs EXCEPT !.deletes = {nodesUi.edits}]
    /\ UNCHANGED <<nodesUi, console, left>>

DeleteAnswer(n, ok) ==
    /\ n \in nodeReqs.deletes /\ (ok => CanFetch)
    /\ nodeReqs' = [nodeReqs EXCEPT !.deletes = {}, !.quick = IF ok THEN @ + 1 ELSE @]
    /\ nodesUi' = IF ok THEN Fetching([nodesUi EXCEPT !.dialog = IF @ = "delete" THEN "none" ELSE @])
                  ELSE nodesUi
    /\ UNCHANGED <<console, left>>

-----------------------------------------------------------------------------
(* The console. *)

OpenConsole(n) ==
    /\ Cards /\ CanAsk /\ console' = [console EXCEPT !.open = TRUE, !.node = n, !.shows = NoNode]
    /\ nodeReqs' = [nodeReqs EXCEPT !.logs = @ \cup {n}]
    /\ UNCHANGED <<nodesUi, left>>

\* Faulty: the timer goes on.
CloseConsoleKeepsTimer ==
    /\ console.open /\ console' = [console EXCEPT !.open = FALSE]
    /\ left' = [left EXCEPT !.log = @ \/ nodeReqs.logs # {}]
    /\ UNCHANGED <<nodesUi, nodeReqs>>

CloseConsole ==
    /\ console.open /\ console' = [console EXCEPT !.open = FALSE, !.timer = NoNode]
    /\ left' = [left EXCEPT !.log = @ \/ nodeReqs.logs # {}]
    /\ UNCHANGED <<nodesUi, nodeReqs>>

\* The timer keeps the node it was started for.
ToggleAuto ==
    /\ console.open
    /\ console' = [console EXCEPT !.timer = IF @ = NoNode THEN console.node ELSE NoNode]
    /\ UNCHANGED <<nodesUi, nodeReqs, left>>

\* The refresh button, and the timer.
RefreshLog ==
    /\ console.open /\ CanAsk /\ nodeReqs' = [nodeReqs EXCEPT !.logs = @ \cup {console.node}]
    /\ UNCHANGED <<nodesUi, console, left>>

LogTick ==
    /\ console.timer # NoNode /\ CanAsk /\ nodeReqs' = [nodeReqs EXCEPT !.logs = @ \cup {console.timer}]
    /\ UNCHANGED <<nodesUi, console, left>>

LogAnswer(n) ==
    /\ n \in nodeReqs.logs /\ nodeReqs' = [nodeReqs EXCEPT !.logs = @ \ {n}]
    /\ console' = [console EXCEPT !.shows = n]
    /\ UNCHANGED <<nodesUi, left>>

NodesSystem ==
    \/ LogTick
    \/ \E ok \in BOOLEAN : QuickAnswer(ok) \/ FullAnswer(ok) \/ \E s \in nodeReqs.saves : SaveAnswer(s, ok)
    \/ \E n \in NodeIds : LogAnswer(n) \/ \E ok \in BOOLEAN : KeyAnswer(n, ok) \/ DeleteAnswer(n, ok)

NodesNext ==
    \/ NodesSystem \/ FetchNodes \/ OpenAdd \/ CloseForm \/ SaveNode \/ CloseDelete \/ DeleteNode
    \/ CloseConsole \/ ToggleAuto \/ RefreshLog
    \/ \E n \in NodeIds : OpenEdit(n) \/ AskDelete(n) \/ OpenConsole(n)

-----------------------------------------------------------------------------
(* However many fetches overlap and fail, none leaves the page loading.      *)
NodesSettle ==
    nodeReqs.quick + nodeReqs.full = 0 => ~nodesUi.loading /\ ~nodesUi.remote

(* A node is saved with its own address and key, and a new one with neither  *)
(* of an old one, unless a form was closed while its answer was awaited:     *)
(* that answer fills the next form, be it of another node or a new one.      *)
SavedForNode == ~left.form => \A s \in nodeReqs.saves : s[1] = s[2]

(* The console shows the log of the node it names, through every closing,    *)
(* opening and tick of its timer, unless one was closed while a log was      *)
(* awaited.                                                                  *)
LogOfNode == ~left.log /\ console.open => console.shows \in {NoNode, console.node}
=============================================================================
