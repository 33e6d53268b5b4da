---------------------------- MODULE ClusterForm -----------------------------
(***************************************************************************)
(* The settings of the cluster: pages/ClusterSettings and the handlers it  *)
(* talks to, get_cluster_config and save_cluster_config of                 *)
(* routers/node_router.py.  The page loads all settings into a form and    *)
(* saves the whole form; the API key comes masked, and the mask is never   *)
(* saved.                                                                  *)
(*                                                                         *)
(* Of the settings, "checked" stands for those the manager refuses when    *)
(* empty or zero (the ports, data_dir), "free" for the others; a list of   *)
(* endpoints or groups is one value, whichever of its lines was edited.    *)
(***************************************************************************)
EXTENDS Naturals

CONSTANTS Values      \* what a setting may be set to
ClusterAssumption == "" \notin Values /\ "***" \notin Values

VARIABLES
    store,   \* the manager's settings
    form,    \* the form: settings, key, and the switch of the WS client
    ui,      \* the page: load and save under way, did the load succeed?
    sent,    \* the payloads under way
    hist     \* what was edited here and saved elsewhere since the load, and the
             \* last form that was saved

clusterVars == <<store, form, ui, sent, hist>>

Fields == {"checked", "free"}
Mask(k) == IF k = "" THEN "" ELSE "***"

\* DEFAULT_CONFIG; its data_dir is empty.
Defaults == [set |-> [f \in Fields |-> ""], key |-> "", switch |-> FALSE]
Unsaved == [edited |-> {}, rival |-> {}, saved |-> FALSE, form |-> Defaults]

ClusterInit ==
    /\ store \in [set : {[f \in Fields |-> v] : v \in Values}, key : {"", "key"}]
    /\ form = Defaults /\ ui = [loading |-> TRUE, saving |-> FALSE, loaded |-> FALSE]
    /\ sent = {} /\ hist = Unsaved

ClusterTypeOK ==
    /\ store.set \in [Fields -> Values \cup {""}] /\ store.set["checked"] # ""
    /\ store.key \in {"", "key"} /\ form.key \in {"", "***"}
    /\ form.set \in [Fields -> Values \cup {""}]
    /\ {ui.loading, ui.saving, ui.loaded, form.switch} \subseteq BOOLEAN
    /\ hist.edited \cup hist.rival \subseteq Fields \cup {"key", "switch"}

-----------------------------------------------------------------------------

\* Faulty: the defaults are merged over what the manager returned.
LoadDefaultsLast(ok) ==
    /\ ui.loading /\ ui' = [ui EXCEPT !.loading = FALSE, !.loaded = ok]
    /\ form' = IF ok THEN [Defaults EXCEPT !.set["checked"] = store.set["checked"]] ELSE form
    /\ hist' = [hist EXCEPT !.rival = {}]
    /\ UNCHANGED <<store, sent>>

\* fetchConfig: what the manager returns replaces the defaults.  It returns no
\* init_ws_client_enabled.
Load(ok) ==
    /\ ui.loading /\ ui' = [ui EXCEPT !.loading = FALSE, !.loaded = ok]
    /\ form' = IF ok THEN [Defaults EXCEPT !.set = store.set, !.key = Mask(store.key)] ELSE form
    /\ hist' = [hist EXCEPT !.rival = {}]
    /\ UNCHANGED <<store, sent>>

Ready == ~ui.loading

\* handleChange, handleToggle, and the handlers of the lists.
Type(f, v) ==
    /\ Ready /\ v # form.set[f] /\ form' = [form EXCEPT !.set[f] = v]
    /\ hist' = [hist EXCEPT !.edited = @ \cup {f}] /\ UNCHANGED <<store, ui, sent>>

\* No field of the page is bound to the key.
Toggle ==
    /\ Ready /\ form' = [form EXCEPT !.switch = ~@]
    /\ hist' = [hist EXCEPT !.edited = @ \cup {"switch"}] /\ UNCHANGED <<store, ui, sent>>

\* Faulty: the key is sent as it came.
PayloadWithMask == [set |-> form.set, key |-> form.key, form |-> form]

\* The mask, like no key, is taken out.
Payload == [set |-> form.set, key |-> IF form.key \in {"", "***"} THEN "" ELSE form.key, form |-> form]

\* The button is off while a save is under way; the fields are not.
Save ==
    /\ Ready /\ ~ui.saving /\ ui' = [ui EXCEPT !.saving = TRUE] /\ sent' = {Payload}
    /\ UNCHANGED <<store, form, hist>>

\* Faulty: the ports and data_dir are stored as they come.
AcceptedUnchecked(p) == p \in sent

\* save_cluster_config stores all or nothing, no init_ws_client_enabled, and
\* never a mask for a key.
Accepted(p) == p.set["checked"] # ""

Saved(p, reached) ==
    /\ p \in sent /\ sent' = {} /\ ui' = [ui EXCEPT !.saving = FALSE]
    /\ IF reached /\ Accepted(p)
         THEN /\ store' = [set |-> p.set, key |-> IF p.key \in {"", "***"} THEN store.key ELSE p.key]
              /\ hist' = [hist EXCEPT !.saved = TRUE, !.form = p.form, !.rival = {}]
         ELSE UNCHANGED <<store, hist>>
    /\ UNCHANGED form

\* Another administrator saves.
OtherSaves(f, v) ==
    /\ v # store.set[f] /\ store' = [store EXCEPT !.set[f] = v]
    /\ hist' = [hist EXCEPT !.rival = @ \cup {f}, !.saved = FALSE, !.form = Defaults]
    /\ UNCHANGED <<form, ui, sent>>

\* The page is left and opened again; what it asked is answered to no one.
Reopen ==
    /\ ~ui.loading /\ sent = {}
    /\ form' = Defaults /\ ui' = [loading |-> TRUE, saving |-> FALSE, loaded |-> FALSE]
    /\ hist' = [hist EXCEPT !.edited = {}] /\ UNCHANGED <<store, sent>>

ClusterSystem == \E ok \in BOOLEAN : Load(ok) \/ \E p \in sent : Saved(p, ok)

ClusterNext ==
    \/ ClusterSystem \/ Toggle \/ Save \/ Reopen
    \/ \E f \in Fields, v \in Values : Type(f, v) \/ OtherSaves(f, v)

ClusterSpec == ClusterInit /\ [][ClusterNext]_clusterVars

-----------------------------------------------------------------------------
(* A save changes nothing but what was edited here, and what was saved by    *)
(* another since the load, which it takes back - if the form was loaded: one *)
(* that was not holds defaults, and all of them are saved.                   *)
EditedOnly ==
    sent # sent' /\ ui.loaded =>
        \A f \in Fields : store'.set[f] # store.set[f] => f \in hist.edited \cup hist.rival
OnlyEdited == [][EditedOnly]_clusterVars

(* No save sends a key that was not typed: neither the mask nor the empty    *)
(* key of a form that was not loaded.                                        *)
KeyKept == \A p \in sent : p.key = ""

(* What was saved is there when the page is opened again.                    *)
SavedComesBack ==
    ui.loaded /\ hist.edited = {} /\ hist.saved => form.set = hist.form.set

=============================================================================
