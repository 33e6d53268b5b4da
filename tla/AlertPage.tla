------------------------------ MODULE AlertPage -----------------------------
(***************************************************************************)
(* The alert settings (pages/AlertSettings, useAlertSettingsController):   *)
(* rules, each change of which fetches everything again; a switch that is  *)
(* set before the manager knows; the SMTP settings, whose stored password  *)
(* is never sent to the page; and the dialog that creates one mail rule    *)
(* for each selected instance, request by request.                         *)
(*                                                                         *)
(* One rule stands for the rules of every kind; a rule's dialogs differ in *)
(* their fields only.                                                      *)
(***************************************************************************)
EXTENDS Naturals, FiniteSets

CONSTANTS Insts,        \* the instances a mail rule may be made for
          MaxAsks       \* bound: how often the user asks for a change

AlertAssumption == MaxAsks \in Nat

VARIABLES
    stored,     \* the manager: the rule, the mail rules, allow_local_webhook, the password
    alertUi,    \* the page
    mailing,    \* handleSmtpNotifyCreate
    alertReqs   \* other requests under way

alertVars == <<stored, alertUi, mailing, alertReqs>>

RuleStates == {"none", "on", "off"}
Quiet == [all |-> {}, todo |-> {}, state |-> "idle"]
Fetch == [op |-> "fetch", to |-> "none", allow |-> FALSE, served |-> FALSE, passed |-> FALSE]
Ask(o, t) == [Fetch EXCEPT !.op = o, !.to = t]

AlertInit ==
    /\ stored \in [rule : {"none", "on"}, mail : {{}}, allow : {FALSE}, password : {"old"}]
    /\ alertUi = [shown |-> "none", allow |-> FALSE, typed |-> FALSE, dialog |-> "none",
                  selected |-> {}, loading |-> TRUE, fetched |-> "never", flips |-> "one", asks |-> 0]
    /\ mailing = Quiet /\ alertReqs = {Fetch}

AlertTypeOK ==
    /\ stored.rule \in RuleStates /\ stored.mail \subseteq Insts /\ stored.allow \in BOOLEAN
    /\ stored.password \in {"old", "new", "empty"}
    /\ alertUi.shown \in RuleStates /\ alertUi.selected \subseteq Insts
    /\ alertUi.dialog \in {"none", "rule", "mail", "delete"}
    /\ alertUi.fetched \in {"never", "ok", "overtaken", "lost", "failed"}
    /\ alertUi.flips \in {"one", "many", "lost"}
    /\ mailing.todo \subseteq mailing.all /\ mailing.all \subseteq Insts
    /\ \A r \in alertReqs : r.op \in {"fetch", "rule", "allow", "smtp"}

-----------------------------------------------------------------------------
(* fetchData. *)

Asking(u) == alertUi.asks < MaxAsks /\ alertUi' = [u EXCEPT !.asks = @ + 1]

\* Whether the switch was set again before the answer, or anything was fetched.
Crossed(ops) == IF \E r \in alertReqs : r.op \in ops THEN "many" ELSE alertUi.flips

FetchServe(r) ==
    /\ r \in alertReqs /\ r.op = "fetch" /\ ~r.served
    /\ alertReqs' = (alertReqs \ {r}) \cup
         {[r EXCEPT !.to = stored.rule, !.allow = stored.allow, !.served = TRUE]}
    /\ UNCHANGED <<stored, alertUi, mailing>>

\* What was served by now tells what was before.
Overtaken(rs) == {[s EXCEPT !.passed = @ \/ s.served] : s \in rs}

\* All that is shown is replaced, what was typed since included.
Fetched(r, ok) ==
    /\ r \in alertReqs /\ r.op = "fetch" /\ r.served
    /\ alertReqs' = Overtaken(alertReqs \ {r})
    /\ alertUi' = IF ok THEN [alertUi EXCEPT !.loading = FALSE, !.shown = r.to, !.allow = r.allow,
                                !.typed = FALSE, !.fetched = IF r.passed THEN "overtaken" ELSE "ok",
                                !.flips = Crossed({"allow"})]
                  ELSE [alertUi EXCEPT !.loading = FALSE, !.fetched = "failed"]
    /\ UNCHANGED <<stored, mailing>>

-----------------------------------------------------------------------------
(* Rules: handleCreate, handleQqNotifySave, handleApiFallbackSave,          *)
(* handleToggle, confirmDelete.                                             *)

Page == alertUi.dialog = "none" /\ ~alertUi.loading

OpenDialog(d) ==
    /\ Page /\ (d = "delete" => alertUi.shown # "none")
    /\ alertUi' = [alertUi EXCEPT !.dialog = d, !.selected = {}]
    /\ UNCHANGED <<stored, mailing, alertReqs>>

CloseDialog ==
    /\ alertUi.dialog # "none" /\ alertUi' = [alertUi EXCEPT !.dialog = "none"]
    /\ UNCHANGED <<stored, mailing, alertReqs>>

\* What a save asks for: a new rule is on, an old one stays what it is.
SaveRule ==
    /\ alertUi.dialog = "rule" /\ Asking(alertUi)
    /\ alertReqs' = alertReqs \cup {Ask("rule", IF alertUi.shown = "none" THEN "on" ELSE "same")}
    /\ UNCHANGED <<stored, mailing>>

\* The opposite of what is shown, be it clicked once or twice.
ToggleRule ==
    /\ Page /\ alertUi.shown # "none" /\ Asking(alertUi)
    /\ alertReqs' = alertReqs \cup {Ask("rule", IF alertUi.shown = "on" THEN "off" ELSE "on")}
    /\ UNCHANGED <<stored, mailing>>

DeleteRule ==
    /\ alertUi.dialog = "delete" /\ Asking(alertUi)
    /\ alertReqs' = alertReqs \cup {Ask("rule", "none")}
    /\ UNCHANGED <<stored, mailing>>

Ruled(r) == [stored EXCEPT !.rule = IF r.to = "same" THEN @ ELSE r.to]

\* Faulty: the list is fetched along with the change, not after it.
RuleAnswerNoFetch(r, ok) ==
    /\ r \in alertReqs /\ r.op = "rule" /\ alertReqs' = alertReqs \ {r}
    /\ IF ok THEN /\ stored' = Ruled(r)
                  /\ alertUi' = [alertUi EXCEPT !.dialog = IF @ = "mail" THEN @ ELSE "none"]
       ELSE UNCHANGED <<stored, alertUi>>
    /\ UNCHANGED mailing

\* Done, the dialog closes, whatever it is about by now, and everything is
\* fetched; failed, it stays and nothing is, be the change made or not.
RuleAnswer(r, ok) ==
    /\ r \in alertReqs /\ r.op = "rule" /\ UNCHANGED mailing
    /\ \/ /\ ok /\ stored' = Ruled(r) /\ alertReqs' = (alertReqs \ {r}) \cup {Fetch}
          /\ alertUi' = [alertUi EXCEPT !.dialog = IF @ = "mail" THEN @ ELSE "none"]
       \/ ~ok /\ alertReqs' = alertReqs \ {r} /\ UNCHANGED <<stored, alertUi>>
       \/ /\ ~ok /\ stored' = Ruled(r) /\ alertReqs' = Overtaken(alertReqs \ {r})
          /\ alertUi' = [alertUi EXCEPT !.fetched = "lost"]

-----------------------------------------------------------------------------
(* The switch. *)

\* Set at once.
FlipAllow ==
    /\ Page /\ Asking([alertUi EXCEPT !.allow = ~@, !.flips = Crossed({"allow", "fetch"})])
    /\ alertReqs' = alertReqs \cup {[Ask("allow", "same") EXCEPT !.allow = ~alertUi.allow]}
    /\ UNCHANGED <<stored, mailing>>

Allowed(r) == [stored EXCEPT !.allow = r.allow]

\* Faulty: a refusal is only logged.
FlippedNoRevert(r, ok) ==
    /\ r \in alertReqs /\ r.op = "allow" /\ alertReqs' = alertReqs \ {r}
    /\ stored' = IF ok THEN Allowed(r) ELSE stored
    /\ alertUi' = [alertUi EXCEPT !.flips = Crossed({"fetch"})] /\ UNCHANGED mailing

\* A failure puts the switch back where this click found it, also when only
\* the answer was lost.
Flipped(r, ok) ==
    /\ r \in alertReqs /\ r.op = "allow" /\ alertReqs' = alertReqs \ {r} /\ UNCHANGED mailing
    /\ \/ /\ ok /\ stored' = Allowed(r)
          /\ alertUi' = [alertUi EXCEPT !.flips = Crossed({"fetch"})]
       \/ /\ ~ok /\ UNCHANGED stored
          /\ alertUi' = [alertUi EXCEPT !.flips = Crossed({"fetch"}), !.allow = ~r.allow]
       \/ /\ ~ok /\ stored' = Allowed(r)
          /\ alertUi' = [alertUi EXCEPT !.flips = "lost", !.allow = ~r.allow]

-----------------------------------------------------------------------------
(* The SMTP settings; only the password is told apart. *)

TypePassword ==
    /\ Page /\ ~alertUi.typed /\ alertUi' = [alertUi EXCEPT !.typed = TRUE]
    /\ UNCHANGED <<stored, mailing, alertReqs>>

\* Faulty: the empty field is sent with the others.
SmtpPayloadWhole == IF alertUi.typed THEN "new" ELSE "empty"

SmtpPayload == IF alertUi.typed THEN "new" ELSE "same"

SaveSmtp ==
    /\ Page /\ Asking(alertUi) /\ alertReqs' = alertReqs \cup {Ask("smtp", SmtpPayload)}
    /\ UNCHANGED <<stored, mailing>>

SmtpSaved(r, ok) ==
    /\ r \in alertReqs /\ r.op = "smtp" /\ UNCHANGED <<alertUi, mailing>>
    /\ \/ stored' = [stored EXCEPT !.password = IF r.to = "same" THEN @ ELSE r.to]
       \/ ~ok /\ UNCHANGED stored
    /\ alertReqs' = (alertReqs \ {r}) \cup (IF ok THEN {Fetch} ELSE {})

-----------------------------------------------------------------------------
(* handleSmtpNotifyCreate; bound: one at a time, though nothing keeps the   *)
(* button from being pressed again.                                         *)

Select(i) ==
    /\ alertUi.dialog = "mail"
    /\ alertUi' = [alertUi EXCEPT !.selected = IF i \in @ THEN @ \ {i} ELSE @ \cup {i}]
    /\ UNCHANGED <<stored, mailing, alertReqs>>

CreateMails ==
    /\ alertUi.dialog = "mail" /\ alertUi.selected # {} /\ mailing.state # "runs"
    /\ Asking(alertUi)
    /\ mailing' = [all |-> alertUi.selected, todo |-> alertUi.selected, state |-> "runs"]
    /\ UNCHANGED <<stored, alertReqs>>

\* Faulty: an instance that failed is passed over.
CreateMailGoesOn(i, ok) ==
    /\ mailing.state = "runs" /\ i \in mailing.todo
    /\ mailing' = [mailing EXCEPT !.todo = @ \ {i}]
    /\ stored' = IF ok THEN [stored EXCEPT !.mail = @ \cup {i}] ELSE stored
    /\ UNCHANGED <<alertUi, alertReqs>>

\* A failure leaves the loop, with the rules that were created.
CreateMail(i, ok) ==
    /\ mailing.state = "runs" /\ i \in mailing.todo
    /\ \/ stored' = [stored EXCEPT !.mail = @ \cup {i}]
       \/ ~ok /\ UNCHANGED stored
    /\ mailing' = IF ok THEN [mailing EXCEPT !.todo = @ \ {i}] ELSE [mailing EXCEPT !.state = "failed"]
    /\ UNCHANGED <<alertUi, alertReqs>>

CreatedMails ==
    /\ mailing.state = "runs" /\ mailing.todo = {} /\ mailing' = [mailing EXCEPT !.state = "done"]
    /\ alertUi' = [alertUi EXCEPT !.dialog = IF @ = "mail" THEN "none" ELSE @, !.selected = {}]
    /\ alertReqs' = alertReqs \cup {Fetch} /\ UNCHANGED stored

-----------------------------------------------------------------------------

AlertSystem ==
    \/ CreatedMails
    \/ \E r \in alertReqs : FetchServe(r)
    \/ \E r \in alertReqs, ok \in BOOLEAN :
          Fetched(r, ok) \/ RuleAnswer(r, ok) \/ Flipped(r, ok) \/ SmtpSaved(r, ok)
    \/ \E i \in Insts, ok \in BOOLEAN : CreateMail(i, ok)

AlertNext ==
    \/ AlertSystem \/ CloseDialog \/ SaveRule \/ ToggleRule \/ DeleteRule \/ FlipAllow
    \/ TypePassword \/ SaveSmtp \/ CreateMails
    \/ \E d \in {"rule", "mail", "delete"} : OpenDialog(d)
    \/ \E i \in Insts : Select(i)

-----------------------------------------------------------------------------
(* Once nothing is under way, the page shows the manager's rules, whatever   *)
(* changes and fetches overlapped, unless the fetch that was answered last   *)
(* failed or had been overtaken by another, or the answer to a change that   *)
(* was made was lost since: then nothing is fetched.                         *)
RulesInStep == alertReqs = {} /\ alertUi.fetched = "ok" => alertUi.shown = stored.rule

(* The switch ends where the manager has it, also when it refused, as long   *)
(* as it was not clicked again, nor everything fetched, before the answer,   *)
(* and no answer to a change that was made was lost.                         *)
AllowHonest ==
    alertReqs = {} /\ alertUi.flips = "one" /\ alertUi.fetched = "ok" => alertUi.allow = stored.allow

(* The stored password goes only by being replaced: no save of the other     *)
(* settings, which the page sends along with it, empties it.                 *)
ReplacedOnly == stored'.password # stored.password => stored'.password = "new"
PasswordKept == [][ReplacedOnly]_alertVars

(* A dialog that closed as done made a rule for every instance that was      *)
(* selected when its button was pressed, whatever was selected since.        *)
MailsForAll == mailing.state = "done" => mailing.all \subseteq stored.mail
=============================================================================
