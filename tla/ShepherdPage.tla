---------------------------- MODULE ShepherdPage ----------------------------
(***************************************************************************)
(* BotShepherd's page (pages/BotShepherd): its process, its connections    *)
(* and accounts, the dialogs that change them, and its log.  Status and    *)
(* lists are fetched every 8 s and after what the page does; the dialogs   *)
(* copy the row they were opened for when they are mounted.                *)
(***************************************************************************)
EXTENDS Naturals, FiniteSets

CONSTANTS Conns, Accts,     \* ids of connections and of accounts
          NoRow,
          MaxShepherdAsks   \* bound: what the administrator asks for

ShepherdAssumption == NoRow \notin Conns \cup Accts /\ MaxShepherdAsks \in Nat

VARIABLES
    bs,      \* BotShepherd as the manager finds it: process, rows
    bsUi,    \* status and rows shown, acting, dialog, onlineMap, the log dialog
    bsReqs   \* requests under way

shepherdVars == <<bs, bsUi, bsReqs>>

Rows == Conns \cup Accts
Processes == {"none", "off", "on"}    \* not set up, not running, running

NoDialog == [mode |-> "none", id |-> NoRow]

ShepherdInit ==
    /\ bs \in [process : {"none", "on"}, rows : {Rows}]
    /\ bsUi = [loading |-> TRUE, process |-> "none", rows |-> {}, acting |-> "no",
               dialog |-> NoDialog, held |-> NoRow, online |-> [a \in Accts |-> "unknown"],
               log |-> FALSE, auto |-> TRUE, timers |-> 0, asks |-> 0]
    /\ bsReqs = [saves |-> {}, checks |-> {}]

ShepherdTypeOK ==
    /\ bs.process \in Processes /\ bs.rows \subseteq Rows
    /\ bsUi.process \in Processes /\ bsUi.rows \subseteq Rows
    /\ {bsUi.loading, bsUi.log, bsUi.auto} \subseteq BOOLEAN /\ bsUi.timers \in Nat
    /\ bsUi.acting \in {"no", "sent", "status", "lists"}
    /\ bsUi.online \in [Accts -> {"unknown", "asked", "online", "offline"}]
    /\ bsUi.held \in Rows \cup {NoRow} /\ bsReqs.checks \subseteq Accts

-----------------------------------------------------------------------------
(* The fetches: every 8 s, from the refresh buttons, after a change. *)

\* An answer, or none, ends the first spinner.  Bound: an answer is of the
\* moment it arrives.
Status ==
    /\ bsUi' \in {[bsUi EXCEPT !.process = bs.process, !.loading = FALSE],
                  [bsUi EXCEPT !.loading = FALSE]}
    /\ UNCHANGED <<bs, bsReqs>>

\* The lists come from the process if it runs and from its files if not.
Lists == bsUi' = [bsUi EXCEPT !.rows = bs.rows] /\ UNCHANGED <<bs, bsReqs>>

-----------------------------------------------------------------------------
(* act: the one way to set up, start and stop the process. *)

Page == ~bsUi.loading /\ bsUi.dialog = NoDialog /\ ~bsUi.log
Asking(u) == bsUi.asks < MaxShepherdAsks /\ bsUi' = [u EXCEPT !.asks = @ + 1]

Toggled(p) == CASE p = "none" -> "off" [] p = "off" -> "on" [] p = "on" -> "off"

\* The three buttons are off while one of them acts.
Act ==
    /\ Page /\ bsUi.acting = "no" /\ Asking([bsUi EXCEPT !.acting = "sent"])
    /\ UNCHANGED <<bs, bsReqs>>

\* What the button said is done, not done, or there was no answer.
Acted ==
    /\ bsUi.acting = "sent"
    /\ \/ bs' = [bs EXCEPT !.process = Toggled(bsUi.process)] /\ bsUi' = [bsUi EXCEPT !.acting = "status"]
       \/ bsUi' = [bsUi EXCEPT !.acting = "status"] /\ UNCHANGED bs
       \/ bsUi' = [bsUi EXCEPT !.acting = "no"] /\ UNCHANGED bs
    /\ UNCHANGED bsReqs

\* Its own refreshes, one after the other; none of them throws.
ActRefreshes ==
    /\ \/ bsUi.acting = "status"
          /\ bsUi' \in {[bsUi EXCEPT !.acting = "lists", !.process = bs.process],
                        [bsUi EXCEPT !.acting = "lists"]}
       \/ bsUi.acting = "lists"
          /\ bsUi' \in {[bsUi EXCEPT !.acting = "no", !.rows = bs.rows], [bsUi EXCEPT !.acting = "no"]}
    /\ UNCHANGED <<bs, bsReqs>>

\* The process dies.
Dies == bs.process = "on" /\ bs' = [bs EXCEPT !.process = "off"] /\ UNCHANGED <<bsUi, bsReqs>>

-----------------------------------------------------------------------------
(* The dialogs of connections and accounts. *)

Actions(r) == Page /\ bsUi.process = "on" /\ r \in bsUi.rows

\* Mounting the dialog copies the row into its form.
Mounted(u, mode, r) ==
    [u EXCEPT !.dialog = [mode |-> mode, id |-> r], !.held = IF @ = NoRow THEN r ELSE @]

\* Faulty: the dialog is hidden, and keeps its form.
UnmountedHidden(u) == [u EXCEPT !.dialog = NoDialog]

\* The page takes the dialog out of the tree, and with it its form.
Unmounted(u) == [u EXCEPT !.dialog = NoDialog, !.held = NoRow]

OpenRow(mode, r) ==
    /\ Actions(r) /\ (mode = "copy" => r \in Conns) /\ bsUi' = Mounted(bsUi, mode, r)
    /\ UNCHANGED <<bs, bsReqs>>

\* The id is typed in the dialog, and may be one there is.
OpenAdd(r) ==
    /\ Page /\ bsUi.process = "on" /\ r \in Conns /\ bsUi' = Mounted(bsUi, "add", r)
    /\ UNCHANGED <<bs, bsReqs>>

CloseDialog ==
    /\ bsUi.dialog # NoDialog /\ bsUi' = Unmounted(bsUi)
    /\ UNCHANGED <<bs, bsReqs>>

\* handleConnSave, handleAcctSave, doConnDelete, doAcctDelete.  Whether the
\* process still runs is not asked again.
SaveRow ==
    /\ bsUi.dialog # NoDialog /\ Asking(bsUi)
    /\ bsReqs' = [bsReqs EXCEPT !.saves = @ \cup
         {[mode |-> bsUi.dialog.mode, id |-> bsUi.dialog.id, of |-> bsUi.held]}]
    /\ UNCHANGED bs

\* An answer, be it a refusal, closes the dialog of its kind, whatever row it
\* is open for by now; without an answer the dialog stays.
Kind(d) == <<d.id \in Conns, d.mode = "delete">>

Saved(s) ==
    /\ s \in bsReqs.saves
    /\ \/ /\ bs' = IF s.mode = "delete" THEN [bs EXCEPT !.rows = @ \ {s.id}]
                   ELSE [bs EXCEPT !.rows = @ \cup {s.id}]
          /\ bs.process = "on"
       \/ UNCHANGED bs
    /\ bsUi' = IF bsUi.dialog # NoDialog /\ Kind(bsUi.dialog) = Kind(s) THEN Unmounted(bsUi) ELSE bsUi
    /\ bsReqs' = [bsReqs EXCEPT !.saves = @ \ {s}]

SaveLost(s) ==
    /\ s \in bsReqs.saves /\ bsReqs' = [bsReqs EXCEPT !.saves = @ \ {s}]
    /\ UNCHANGED <<bs, bsUi>>

-----------------------------------------------------------------------------
(* Whether an account is online: asked once, for the button gives way to the *)
(* answer.                                                                   *)

CheckOnline(a) ==
    /\ Page /\ a \in bsUi.rows /\ bsUi.online[a] = "unknown"
    /\ bsUi' = [bsUi EXCEPT !.online[a] = "asked"]
    /\ bsReqs' = [bsReqs EXCEPT !.checks = @ \cup {a}] /\ UNCHANGED bs

Online(a) ==
    /\ a \in bsReqs.checks /\ bsReqs' = [bsReqs EXCEPT !.checks = @ \ {a}]
    /\ bsUi' \in {[bsUi EXCEPT !.online[a] = o] : o \in {"online", "offline"}}
    /\ UNCHANGED bs

-----------------------------------------------------------------------------
(* The log: an effect of (logOpen, logAuto) sets an interval, its cleanup   *)
(* clears it.                                                                *)

Interval(u) == IF u.log /\ u.auto THEN 1 ELSE 0

\* Faulty: only closing the dialog clears the interval.
SwitchAutoAdds ==
    /\ bsUi.log
    /\ bsUi' = [bsUi EXCEPT !.auto = ~@, !.timers = IF bsUi.auto THEN @ ELSE @ + 1]
    /\ UNCHANGED <<bs, bsReqs>>

Effect(u) == [u EXCEPT !.timers = @ - Interval(bsUi) + Interval(u)]

OpenLog == Page /\ bsUi.process # "none" /\ bsUi' = Effect([bsUi EXCEPT !.log = TRUE]) /\ UNCHANGED <<bs, bsReqs>>
CloseLog == bsUi.log /\ bsUi' = Effect([bsUi EXCEPT !.log = FALSE]) /\ UNCHANGED <<bs, bsReqs>>
SwitchAuto == bsUi.log /\ bsUi' = Effect([bsUi EXCEPT !.auto = ~@]) /\ UNCHANGED <<bs, bsReqs>>

-----------------------------------------------------------------------------

ShepherdSystem ==
    \/ Acted \/ ActRefreshes
    \/ \E a \in Accts : Online(a)
    \/ \E s \in bsReqs.saves : Saved(s) \/ SaveLost(s)

ShepherdNext ==
    \/ ShepherdSystem \/ Status \/ Lists \/ Act \/ Dies \/ CloseDialog \/ SaveRow
    \/ OpenLog \/ CloseLog \/ SwitchAuto
    \/ \E r \in Conns : OpenAdd(r)
    \/ \E r \in Rows, mode \in {"edit", "copy", "delete"} : OpenRow(mode, r)
    \/ \E a \in Accts : CheckOnline(a)

-----------------------------------------------------------------------------
(* What is saved for a row is what was edited of that row, whatever dialogs  *)
(* were opened, answered and closed before; the id of a new connection may   *)
(* be one there is, which it then replaces.                                  *)
RowSavedAsEdited == \A s \in bsReqs.saves : s.of = s.id

(* However the dialog is opened, closed and switched, the log is fetched by  *)
(* one interval while it is open and automatic, and by none otherwise.       *)
LogPolled == bsUi.timers = Interval(bsUi)
=============================================================================
