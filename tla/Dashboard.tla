----------------------------- MODULE Dashboard ------------------------------
(***************************************************************************)
(* The instance list of the console (pages/Dashboard): single actions, the *)
(* delete and create dialogs, and batch actions, which are sent one after  *)
(* the other for the names that were ticked.                               *)
(*                                                                         *)
(* The list comes from AdminLayout and changes at any time.  A step is one *)
(* handler of the page up to its next await; what a handler captured when  *)
(* it was called is kept with its request.  Pages of the list are left     *)
(* out: every card that passes the filters can be clicked.                 *)
(***************************************************************************)
EXTENDS Naturals, FiniteSets

CONSTANTS Names, Nodes, Local,
          Cards,      \* bound: the containers there may be, as pairs <<node, name>>
          Queries,    \* the searches, as the names they match
          MaxFlights  \* bound: requests of single actions at a time

DashboardAssumption ==
    /\ Local \in Nodes /\ "all" \notin Nodes /\ Cards \subseteq Nodes \X Names
    /\ Names \in Queries /\ Queries \subseteq SUBSET Names /\ MaxFlights \in Nat

VARIABLES
    list,     \* the containers of the context
    dash,     \* state of the page
    batch,    \* the batch that runs: what it captured, and what it has to send
    flights,  \* single actions under way
    seen      \* of the last batch, the filter when it was started, and whether it sent
              \* a request elsewhere

dashVars == <<list, dash, batch, flights, seen>>

Idle == [todo |-> {}, node |-> "all", runs |-> FALSE]
NoTarget == <<"none", "none">>

Init ==
    /\ list = Cards
    /\ dash = [node |-> Local, query |-> Names, ticking |-> FALSE, selected |-> {},
               busy |-> NoTarget, dialog |-> "none", target |-> NoTarget]
    /\ batch = Idle /\ flights = {}
    /\ seen = [from |-> Local, stray |-> FALSE]

TypeOK ==
    /\ list \subseteq Cards
    /\ dash.node \in Nodes \cup {"all"} /\ dash.selected \subseteq Names
    /\ dash.dialog \in {"none", "create", "delete"}
    /\ batch.todo \subseteq Names /\ batch.node \in Nodes \cup {"all"}
    /\ \A f \in flights : f.act \in {"act", "delete"} /\ f.target \in Cards
    /\ dash.busy = NoTarget \/ dash.busy \in Cards

-----------------------------------------------------------------------------
(* What is shown. *)

Filtered == {c \in list : (dash.node = "all" \/ c[1] = dash.node) /\ c[2] \in dash.query}

\* The buttons of the batch toolbar are off without a selection and during a batch.
BatchBar == dash.ticking /\ ~batch.runs

\* A card's buttons: a running action disables those of every card of that
\* name, whatever its node, and only the last action started is remembered.
CardButtons(c) == ~dash.ticking /\ c \in Filtered /\ dash.dialog = "none" /\ dash.busy[2] # c[2]

CreateDialog == dash.dialog = "create"
DeleteDialog == dash.dialog = "delete"

-----------------------------------------------------------------------------
(* The filters and the selection. *)

ListChanges ==
    /\ \E l \in SUBSET list : list' = l
    /\ UNCHANGED <<dash, batch, flights, seen>>

\* The filter of the toolbar; the create dialog changes it too.
SelectNode(n) ==
    /\ n \in Nodes \cup (IF CreateDialog THEN {} ELSE {"all"})
    /\ ~DeleteDialog /\ n # dash.node
    /\ dash' = [dash EXCEPT !.node = n]
    /\ UNCHANGED <<list, batch, flights, seen>>

Search(q) ==
    /\ dash.dialog = "none" /\ q # dash.query /\ dash' = [dash EXCEPT !.query = q]
    /\ UNCHANGED <<list, batch, flights, seen>>

\* The effect on [isBatchMode] drops the selection.
SetTicking(on) ==
    /\ dash.dialog = "none" /\ ~batch.runs /\ dash.ticking # on
    /\ dash' = [dash EXCEPT !.ticking = on, !.selected = {}]
    /\ UNCHANGED <<list, batch, flights, seen>>

Ticked(new) == dash' = [dash EXCEPT !.selected = new]

\* handleSelectAll compares how many are selected with how many are shown.
SelectAll ==
    /\ BatchBar /\ dash.dialog = "none"
    /\ Ticked(IF Cardinality(dash.selected) = Cardinality(Filtered) THEN {} ELSE {c[2] : c \in Filtered})
    /\ UNCHANGED <<list, batch, flights, seen>>

\* A click on a card in batch mode, also while a batch runs.
BatchSelect(c) ==
    /\ dash.ticking /\ dash.dialog = "none" /\ c \in Filtered
    /\ Ticked(IF c[2] \in dash.selected THEN dash.selected \ {c[2]} ELSE dash.selected \cup {c[2]})
    /\ UNCHANGED <<list, batch, flights, seen>>

-----------------------------------------------------------------------------
(* Batch actions. *)

BatchAction ==
    /\ BatchBar /\ dash.dialog = "none" /\ dash.selected # {}
    /\ batch' = [todo |-> dash.selected, node |-> dash.node, runs |-> TRUE]
    /\ seen' = [seen EXCEPT !.from = dash.node, !.stray = FALSE]
    /\ UNCHANGED <<list, dash, flights>>

\* Faulty: each request reads the filter as it is by then.
BatchRequestLive(n) ==
    /\ batch.runs /\ n \in batch.todo
    /\ batch' = [batch EXCEPT !.todo = @ \ {n}]
    /\ seen' = [seen EXCEPT !.stray = @ \/ dash.node # seen.from]
    /\ UNCHANGED <<list, dash, flights>>

\* One turn of the loop: the request is sent and answered, well or not.
BatchRequest(n) ==
    /\ batch.runs /\ n \in batch.todo
    /\ batch' = [batch EXCEPT !.todo = @ \ {n}]
    /\ seen' = [seen EXCEPT !.stray = @ \/ batch.node # seen.from]
    /\ UNCHANGED <<list, dash, flights>>

\* Faulty: the batch mode is left, but its effect on the selection is missing.
BatchDoneKeepsSelection ==
    /\ batch.runs /\ batch.todo = {}
    /\ batch' = Idle
    /\ dash' = [dash EXCEPT !.ticking = FALSE]
    /\ seen' = [seen EXCEPT !.from = Local]
    /\ UNCHANGED <<list, flights>>

BatchDone ==
    /\ batch.runs /\ batch.todo = {}
    /\ batch' = Idle
    /\ dash' = [dash EXCEPT !.ticking = FALSE, !.selected = {}]
    /\ seen' = [seen EXCEPT !.from = Local]
    /\ UNCHANGED <<list, flights>>

-----------------------------------------------------------------------------
(* Single actions and dialogs. *)

Act(c) ==
    /\ CardButtons(c) /\ Cardinality(flights) < MaxFlights
    /\ dash' = [dash EXCEPT !.busy = c]
    /\ flights' = flights \cup {[target |-> c, act |-> "act"]}
    /\ UNCHANGED <<list, batch, seen>>

\* It ends the busy state of whatever action started last.
Acted(f, ok) ==
    /\ f \in flights /\ f.act = "act" /\ flights' = flights \ {f}
    /\ dash' = [dash EXCEPT !.busy = NoTarget]
    /\ UNCHANGED <<list, batch, seen>>

AskDelete(c) ==
    /\ CardButtons(c)
    /\ dash' = [dash EXCEPT !.dialog = "delete", !.target = c]
    /\ UNCHANGED <<list, batch, flights, seen>>

CloseDialog ==
    /\ dash.dialog # "none" /\ dash' = [dash EXCEPT !.dialog = "none", !.target = NoTarget]
    /\ UNCHANGED <<list, batch, flights, seen>>

\* The dialog stays open until the answer, and its button may be pressed again.
ConfirmDelete ==
    /\ DeleteDialog /\ Cardinality(flights) < MaxFlights
    /\ flights' = flights \cup {[target |-> dash.target, act |-> "delete"]}
    /\ UNCHANGED <<list, dash, batch, seen>>

\* The answer closes the dialog, be it about this container or another by now.
Deleted(f, ok) ==
    /\ f \in flights /\ f.act = "delete" /\ flights' = flights \ {f}
    /\ dash' = [dash EXCEPT !.dialog = IF @ = "delete" THEN "none" ELSE @]
    /\ list' = IF ok THEN list \ {f.target} ELSE list
    /\ UNCHANGED <<batch, seen>>

OpenCreate ==
    /\ dash.dialog = "none" /\ dash' = [dash EXCEPT !.dialog = "create"]
    /\ UNCHANGED <<list, batch, flights, seen>>

\* A new container goes to the node of the filter, to the local one under "all".
Create(n) ==
    /\ CreateDialog
    /\ LET where == IF dash.node = "all" THEN Local ELSE dash.node
       IN \/ <<where, n>> \in Cards /\ list' = list \cup {<<where, n>>} /\ dash' = [dash EXCEPT !.dialog = "none"]
          \/ UNCHANGED <<list, dash>>
    /\ UNCHANGED <<batch, flights, seen>>

System ==
    \/ BatchDone
    \/ \E n \in Names : BatchRequest(n)
    \/ \E f \in flights, ok \in BOOLEAN : Acted(f, ok) \/ Deleted(f, ok)

User ==
    \/ SelectAll \/ BatchAction \/ CloseDialog \/ ConfirmDelete \/ OpenCreate
    \/ \E n \in Nodes \cup {"all"} : SelectNode(n)
    \/ \E q \in Queries : Search(q)
    \/ \E on \in BOOLEAN : SetTicking(on)
    \/ \E c \in list : BatchSelect(c) \/ Act(c) \/ AskDelete(c)
    \/ \E n \in Names : Create(n)

Next == System \/ User \/ ListChanges

-----------------------------------------------------------------------------
(* A batch goes to the node whose instances were shown when it was started,  *)
(* whatever is filtered and searched while it runs: each await of its loop   *)
(* lets the user go on.  (Names that were ticked under another filter go to  *)
(* that node too: a selection has no nodes.)                                 *)
BatchHitsTicked == ~seen.stray

(* Nothing is selected outside of the batch mode: a batch never holds names  *)
(* of an earlier one.                                                        *)
SelectionScoped == dash.selected # {} => dash.ticking

=============================================================================
