----------------------------- MODULE NetworkTab -----------------------------
(***************************************************************************)
(* The network tab of an instance (components/NetworkConfig): it finds the *)
(* file onebot11_<uin>.json, loads it, and saves the whole file after      *)
(* every change of one of its endpoints.  What of the file is no endpoint  *)
(* is told apart by the account the file is of.                            *)
(***************************************************************************)
EXTENDS Naturals, Sequences, SequencesExt, FiniteSetsExt

CONSTANTS Uins,          \* accounts that log in; files sort as these do
          MaxNetAsks     \* bound: what the administrator does

NetAssumption ==
    /\ Uins \subseteq Nat \ {0} /\ Uins # {} /\ \E m \in Uins : \A u \in Uins : u <= m
    /\ MaxNetAsks \in Nat

VARIABLES
    files,   \* the configuration files there are
    net,     \* the tab: file, its extra fields, endpoints, dialog
    netReqs  \* loads and saves under way

netVars == <<files, net, netReqs>>

Endpoint(u) == [id |-> u, on |-> TRUE]
NewEndpoint == Endpoint(0)
FileOf(u) == [extra |-> u, eps |-> <<Endpoint(u)>>]

NoDialog == [open |-> FALSE, index |-> 0, data |-> NewEndpoint]
FirstLoad == [id |-> 0, file |-> 0]     \* file 0: it looks for the file

NetInit ==
    /\ \E U \in SUBSET Uins : files = [u \in U |-> FileOf(u)]
    /\ net = [file |-> 0, extra |-> 0, eps |-> <<>>, shown |-> "loading", dialog |-> NoDialog,
              saving |-> FALSE, overlap |-> FALSE, crossed |-> FALSE, mixed |-> FALSE,
              asks |-> 0]
    /\ netReqs = [loads |-> {FirstLoad}, saves |-> {}]

NetTypeOK ==
    /\ DOMAIN files \subseteq Uins /\ \A u \in DOMAIN files : files[u].extra \in Uins \cup {0}
    /\ net.file \in Uins \cup {0} /\ net.shown \in {"loading", "none", "config"}
    /\ \A i \in DOMAIN net.eps : net.eps[i].id \in Uins \cup {0}
    /\ {net.saving, net.overlap, net.crossed, net.mixed, net.dialog.open} \subseteq BOOLEAN
    /\ \A l \in netReqs.loads : l.file \in Uins \cup {0}

-----------------------------------------------------------------------------
(* loadConfig *)

\* Starting to load hides that there was no file.
Loading(n) == [n EXCEPT !.shown = IF @ = "loading" THEN @ ELSE "config"]

\* Faulty: what was shown before stays.
NoConfigKeeps(n) == [n EXCEPT !.shown = IF @ = "loading" THEN "none" ELSE "config"]

NoConfig(n) == [n EXCEPT !.shown = "none", !.eps = <<>>]

\* findOb11File: the file whose name sorts last, if there is one and an answer.
Found(l) ==
    /\ l \in netReqs.loads /\ l.file = 0
    /\ \/ /\ net' = NoConfig(net) /\ netReqs' = [netReqs EXCEPT !.loads = @ \ {l}]
       \/ /\ DOMAIN files # {} /\ net' = [net EXCEPT !.file = Max(DOMAIN files)]
          /\ netReqs' = [netReqs EXCEPT !.loads = (@ \ {l}) \cup {[l EXCEPT !.file = Max(DOMAIN files)]}]
    /\ UNCHANGED files

\* Its content, or none.  crossed: another load has found another file since.
Loaded(l) ==
    /\ l \in netReqs.loads /\ l.file # 0
    /\ net' \in {NoConfig(net),
                 [net EXCEPT !.extra = files[l.file].extra, !.eps = files[l.file].eps, !.shown = "config",
                             !.crossed = l.file # net.file]}
    /\ netReqs' = [netReqs EXCEPT !.loads = @ \ {l}] /\ UNCHANGED files

Asked(n) == net.asks < MaxNetAsks /\ net' = [n EXCEPT !.asks = @ + 1]

Refresh ==
    /\ \/ net.shown = "none"
       \/ net.shown = "config" /\ ~net.saving /\ ~net.dialog.open
    /\ Asked(Loading(net))
    /\ netReqs' = [netReqs EXCEPT !.loads = @ \cup {[id |-> net.asks + 1, file |-> 0]}]
    /\ UNCHANGED files

\* Another account logs in to the instance, which then has its file too.
LogIn(u) ==
    /\ u \in Uins \ DOMAIN files
    /\ files' = [v \in DOMAIN files \cup {u} |-> IF v = u THEN FileOf(u) ELSE files[v]]
    /\ UNCHANGED <<net, netReqs>>

-----------------------------------------------------------------------------
(* saveToServer *)

\* The whole file, of the endpoints of this rendering.
Save(n, es) ==
    /\ net.shown = "config" /\ net.file # 0
    /\ Asked([n EXCEPT !.saving = TRUE, !.overlap = @ \/ netReqs.loads \cup netReqs.saves # {},
                       !.mixed = @ \/ netReqs.loads # {} \/ net.crossed])
    /\ netReqs' = [netReqs EXCEPT !.saves = @ \cup
         {[id |-> net.asks + 1, file |-> net.file, content |-> [extra |-> net.extra, eps |-> es]]}]
    /\ UNCHANGED files

\* Every tab of the browser and NapCat may write the file; here only this one does.
Saved(s) ==
    /\ s \in netReqs.saves
    /\ files' = [files EXCEPT ![s.file] = s.content]
    /\ net' = [net EXCEPT !.eps = s.content.eps, !.saving = FALSE]
    /\ netReqs' = [netReqs EXCEPT !.saves = @ \ {s}]

\* Faulty: the failure is shown, and nothing else.
SaveFailedNoLoad(s) ==
    /\ s \in netReqs.saves
    /\ files' \in {files, [files EXCEPT ![s.file] = s.content]}
    /\ net' = [net EXCEPT !.saving = FALSE]
    /\ netReqs' = [netReqs EXCEPT !.saves = @ \ {s}]

\* No answer, whether it was saved or not: load it again.
SaveFailed(s) ==
    /\ s \in netReqs.saves
    /\ files' \in {files, [files EXCEPT ![s.file] = s.content]}
    /\ net' = Loading([net EXCEPT !.saving = FALSE])
    /\ netReqs' = [loads |-> netReqs.loads \cup {[id |-> s.id, file |-> 0]}, saves |-> netReqs.saves \ {s}]

-----------------------------------------------------------------------------
(* The endpoints.  The dialog keeps an index; the list may move under it. *)

Card(i) == net.shown = "config" /\ ~net.dialog.open /\ i \in DOMAIN net.eps

Toggle(i) == Card(i) /\ Save(net, [net.eps EXCEPT ![i].on = ~@])

OpenAdd ==
    /\ net.shown = "config" /\ ~net.dialog.open
    /\ net' = [net EXCEPT !.dialog = [NoDialog EXCEPT !.open = TRUE]] /\ UNCHANGED <<files, netReqs>>

OpenEdit(i) ==
    /\ Card(i) /\ net' = [net EXCEPT !.dialog = [open |-> TRUE, index |-> i, data |-> net.eps[i]]]
    /\ UNCHANGED <<files, netReqs>>

CloseDialog ==
    /\ net.dialog.open /\ net' = [net EXCEPT !.dialog = NoDialog]
    /\ UNCHANGED <<files, netReqs>>

Dialog == net.dialog.open /\ net.shown = "config"

\* An index past the end, and that of a new endpoint, append.
Put(es, i, e) == IF i \in DOMAIN es THEN [es EXCEPT ![i] = e] ELSE Append(es, e)

SaveEndpoint ==
    /\ Dialog
    /\ Save([net EXCEPT !.dialog = NoDialog],
            Put(net.eps, net.dialog.index, [net.dialog.data EXCEPT !.id = 0]))

DeleteEndpoint ==
    /\ Dialog /\ net.dialog.index # 0
    /\ Save([net EXCEPT !.dialog = NoDialog],
            IF net.dialog.index \in DOMAIN net.eps THEN RemoveAt(net.eps, net.dialog.index) ELSE net.eps)

-----------------------------------------------------------------------------
NetNext ==
    \/ \E l \in netReqs.loads : Found(l) \/ Loaded(l)
    \/ \E s \in netReqs.saves : Saved(s) \/ SaveFailed(s)
    \/ Refresh \/ OpenAdd \/ CloseDialog \/ SaveEndpoint \/ DeleteEndpoint
    \/ \E u \in Uins : LogIn(u)
    \/ \E i \in DOMAIN net.eps : Toggle(i) \/ OpenEdit(i)

NetSpec == NetInit /\ [][NetNext]_netVars

-----------------------------------------------------------------------------
(* What is saved to the file of an account was loaded from that file: logins *)
(* of other accounts, failed loads and failed saves do not mix two files,    *)
(* until something is saved while a load is under way or loads crossed: the  *)
(* fields of one account are in the file of another then, and stay there.    *)
SavedToItsFile == ~net.mixed => \A s \in netReqs.saves : s.content.extra = s.file

(* With no request under way the endpoints shown are those of the file, be   *)
(* it after saves whose answers were lost; saves that overlap other requests *)
(* may leave the answer that came last.                                      *)
ShownIsStored ==
    netReqs.loads \cup netReqs.saves = {} /\ net.shown = "config" /\ ~net.overlap /\ ~net.crossed
    => net.eps = files[net.file].eps
=============================================================================
