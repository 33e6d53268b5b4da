----------------------------- MODULE UserPanel ------------------------------
(***************************************************************************)
(* The user panel (pages/UserDashboard): cards of containers with their    *)
(* login codes.  What a card shows is the last word of two sources that    *)
(* know nothing of each other: the pushes of the public WebSocket, and the *)
(* answers to the refresh button of the card.                              *)
(***************************************************************************)
EXTENDS Naturals, FiniteSets

CONSTANTS PanelNames,
          Reports      \* what the manager may say of a login: statuses of its answers

PanelAssumption == Reports \subseteq {"ok", "logged_in", "expired", "none"}

VARIABLES
    truth,    \* the manager's report of each container
    panel,    \* state of the page
    answers,  \* per container what its refresh will get: nothing asked, sent, or an answer
    heard     \* per container the last report that arrived, and by which way

panelVars == <<truth, panel, answers, heard>>

Shown == {"loading", "loaded", "logged_in", "expired", "waiting", "error"}

PanelTypeOK ==
    /\ truth \in [PanelNames -> Reports]
    /\ panel.qr \in [PanelNames -> Shown] /\ panel.listed \subseteq PanelNames
    /\ panel.refreshing \in [PanelNames -> BOOLEAN]
    /\ panel.dialog \subseteq PanelNames /\ Cardinality(panel.dialog) <= 1
    /\ {panel.loading, panel.connected, panel.timer} \subseteq BOOLEAN
    /\ answers \in [PanelNames -> Reports \cup {"no", "sent", "error"}]
    /\ heard \in [PanelNames -> Reports \cup {"nothing", "error"}]

PanelInit ==
    /\ truth \in [PanelNames -> Reports]
    /\ panel = [qr |-> [n \in PanelNames |-> "loading"], listed |-> {}, loading |-> TRUE,
                connected |-> FALSE, timer |-> FALSE, dialog |-> {},
                refreshing |-> [n \in PanelNames |-> FALSE]]
    /\ answers = [n \in PanelNames |-> "no"] /\ heard = [n \in PanelNames |-> "nothing"]

TruthChanges(n, r) ==
    /\ r # truth[n] /\ truth' = [truth EXCEPT ![n] = r]
    /\ UNCHANGED <<panel, answers, heard>>

-----------------------------------------------------------------------------
(* What the page does with the hook's state. *)

\* Faulty: the timer is not set again when the effect runs again.
LoadingOnce(p) ==
    LET found == p.listed # {} \/ ~panel.loading
    IN  [p EXCEPT !.loading = ~found, !.timer = ~found /\ p.connected /\ ~panel.connected]

\* The effect on [containers, wsConnected] clears its timer whenever it runs
\* again, and sets a new one while the list is empty and the hook connected.
Loading(p) ==
    LET found == p.listed # {} \/ ~panel.loading
    IN  [p EXCEPT !.loading = ~found, !.timer = ~found /\ p.connected]

\* The effect on [wsQrStates, containers].
FromPush(report) ==
    CASE report = "logged_in" -> "logged_in" [] report = "ok" -> "loaded"
      [] report = "expired" -> "expired" [] OTHER -> "waiting"

\* Faulty: a report that is neither a login nor a code leaves what was shown.
MergedPartly(listed) ==
    [n \in PanelNames |-> IF n \in listed /\ truth[n] \in {"ok", "logged_in"}
                            THEN FromPush(truth[n]) ELSE panel.qr[n]]

\* The reports are merged: a container the push does not name keeps what it had.
Merged(listed) ==
    [n \in PanelNames |-> IF n \in listed THEN FromPush(truth[n]) ELSE panel.qr[n]]

\* A full message replaces both states of the hook.
Push(listed) ==
    /\ panel.connected
    /\ panel' = Loading([panel EXCEPT !.listed = listed, !.qr = Merged(listed)])
    /\ heard' = [n \in PanelNames |-> IF n \in listed THEN truth[n] ELSE heard[n]]
    /\ UNCHANGED <<truth, answers>>

Connection(up) ==
    /\ up # panel.connected
    /\ panel' = Loading([panel EXCEPT !.connected = up])
    /\ UNCHANGED <<truth, answers, heard>>

LoadingTimeout ==
    /\ panel.timer
    /\ panel' = [panel EXCEPT !.loading = FALSE, !.timer = FALSE]
    /\ UNCHANGED <<truth, answers, heard>>

-----------------------------------------------------------------------------
(* The refresh button and the dialog. *)

RefreshCard(n) ==
    /\ n \in panel.listed /\ panel.dialog = {} /\ ~panel.loading /\ ~panel.refreshing[n]
    /\ panel' = [panel EXCEPT !.refreshing[n] = TRUE]
    /\ answers' = [answers EXCEPT ![n] = "sent"]
    /\ UNCHANGED <<truth, heard>>

\* The manager answers with what it knows then; the answer travels.
Serve(n) ==
    /\ answers[n] = "sent"
    /\ \E a \in {truth[n], "error"} : answers' = [answers EXCEPT ![n] = a]
    /\ UNCHANGED <<truth, panel, heard>>

LoadQR(n) ==
    /\ answers[n] \notin {"no", "sent"}
    /\ panel' = [panel EXCEPT !.qr[n] = IF answers[n] = "error" THEN "error" ELSE FromPush(answers[n]),
                              !.refreshing[n] = FALSE]
    /\ heard' = [heard EXCEPT ![n] = answers[n]] /\ answers' = [answers EXCEPT ![n] = "no"]
    /\ UNCHANGED truth

\* Only a card with a code opens the dialog; it stays when the code goes.
OpenCode(n) ==
    /\ n \in panel.listed /\ ~panel.loading /\ panel.dialog = {} /\ panel.qr[n] = "loaded"
    /\ panel' = [panel EXCEPT !.dialog = {n}]
    /\ UNCHANGED <<truth, answers, heard>>

CloseCode ==
    /\ panel.dialog # {} /\ panel' = [panel EXCEPT !.dialog = {}]
    /\ UNCHANGED <<truth, answers, heard>>

\* The code that is drawn in the dialog.
CodeDrawn == {n \in panel.dialog : panel.qr[n] = "loaded"}

PanelSystem == LoadingTimeout \/ \E n \in PanelNames : Serve(n) \/ LoadQR(n)

PanelNext ==
    \/ PanelSystem \/ CloseCode
    \/ \E listed \in SUBSET PanelNames : Push(listed)
    \/ \E up \in BOOLEAN : Connection(up)
    \/ \E n \in PanelNames : RefreshCard(n) \/ OpenCode(n) \/ \E r \in Reports : TruthChanges(n, r)

-----------------------------------------------------------------------------
(* A card shows the report that arrived last, be it pushed or fetched, of    *)
(* any kind, and the dialog never draws a code after a report without one.   *)
LastWordShown ==
    \A n \in PanelNames :
        /\ panel.qr[n] = CASE heard[n] = "nothing" -> "loading" [] heard[n] = "error" -> "error"
                           [] OTHER -> FromPush(heard[n])
        /\ n \in CodeDrawn => heard[n] = "ok"

(* Every push of an empty list restarts the timer that ends the loading.     *)
(* Still, once the hook stays connected and the pushes stop, the panel stops *)
(* loading, also when there is no container to be pushed.                    *)
LoadingEnds ==
    <>[][\A listed \in SUBSET PanelNames : ~Push(listed)]_panelVars /\ <>[]panel.connected => <>~panel.loading
=============================================================================
