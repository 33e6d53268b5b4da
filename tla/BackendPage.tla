---------------------------- MODULE BackendPage -----------------------------
(***************************************************************************)
(* The library of bot endpoints (pages/bot-backend): the page loads it,    *)
(* saves the whole of it a second after any change of its state, probes    *)
(* endpoints by their index, and injects one into connections of           *)
(* BotShepherd ("bs") or into instances ("nc").  Nothing waits for a save, *)
(* and nothing orders them.                                                *)
(***************************************************************************)
EXTENDS Naturals, Sequences, SequencesExt

CONSTANTS Urls,
          Targets,          \* connections and instances to inject into
          Own,              \* an endpoint a target has of its own
          MaxBackendAsks    \* bound: what the administrator does

BackendAssumption == IsFiniteSet(Urls) /\ Own \notin Urls /\ MaxBackendAsks \in Nat

VARIABLES
    library,   \* what the manager stores: the urls, in order
    lib,       \* the page: entries, timer of the save, what is under way; saves
               \* are numbered: how many were sent, and which was stored last
    targets,   \* the endpoints of every target
    inject     \* the injection under way: who refused it, and whose
               \* configuration could not be read, also before

backendVars == <<library, lib, targets, inject>>

NoTimer == <<"none">>
Entry(u) == [url |-> u, probing |-> FALSE]
Mapped(us) == [i \in DOMAIN us |-> Entry(us[i])]
Payload(es) == [i \in DOMAIN es |-> es[i].url]

NoInjection == [kind |-> "bs", url |-> Own, all |-> {}, todo |-> {}, at |-> {}, read |-> {},
                failed |-> FALSE, busy |-> FALSE, refused |-> {}, unread |-> {}]

\* What mounting the page asks for; its effect sets the first timer.
Opened == [entries |-> <<>>, loading |-> TRUE, timer |-> <<"save", <<>>>>, sent |-> 0, saves |-> {},
           held |-> 0, probes |-> {}, collect |-> {}, moved |-> FALSE, asks |-> 0]

BackendInit ==
    /\ \E u \in Urls : library \in {<<>>, <<u>>}
    /\ lib = Opened
    /\ targets = [t \in Targets |-> {Own}] /\ inject = NoInjection

BackendTypeOK ==
    /\ library \in Seq(Urls)
    /\ \A i \in DOMAIN lib.entries : lib.entries[i].url \in Urls /\ lib.entries[i].probing \in BOOLEAN
    /\ {lib.loading, lib.moved} \subseteq BOOLEAN
    /\ lib.held \in 0..lib.sent /\ \A s \in lib.saves : s[1] \in 1..lib.sent /\ s[2] \in Seq(Urls)
    /\ \A p \in lib.probes : p[1] \in Nat \ {0} /\ p[2] \in 0..MaxBackendAsks
    /\ targets \in [Targets -> SUBSET (Urls \cup {Own})]
    /\ inject.todo \cup inject.at \subseteq inject.all /\ inject.all \subseteq Targets
    /\ inject.at # {} => inject.busy
    /\ inject.refused \subseteq inject.all /\ inject.unread \subseteq Targets

-----------------------------------------------------------------------------
(* The library. *)

\* Faulty: a timer that runs is left to run, with what it was to save.
ChangedOnce(l, es) ==
    [l EXCEPT !.entries = es,
              !.timer = IF @ = NoTimer THEN <<"save", Payload(es)>> ELSE @]

\* The effect on [endpoints] sets the timer anew whatever has changed.
Changed(l, es) == [l EXCEPT !.entries = es, !.timer = <<"save", Payload(es)>>]

\* What is loaded, unless it is empty, replaces what was added meanwhile.
Loaded ==
    /\ lib.loading
    /\ lib' = IF library = <<>> THEN [lib EXCEPT !.loading = FALSE]
              ELSE Changed([lib EXCEPT !.loading = FALSE, !.moved = @ \/ lib.probes # {}],
                           Mapped(library))
    /\ UNCHANGED <<library, targets, inject>>

LoadFailed ==
    /\ lib.loading /\ lib' = [lib EXCEPT !.loading = FALSE]
    /\ UNCHANGED <<library, targets, inject>>

\* Sent, whatever other save is under way.
TimerFires ==
    /\ lib.timer # NoTimer
    /\ lib' = [lib EXCEPT !.sent = @ + 1, !.saves = @ \cup {<<lib.sent + 1, lib.timer[2]>>}, !.timer = NoTimer]
    /\ UNCHANGED <<library, targets, inject>>

\* In any order.
Stored(s) ==
    /\ s \in lib.saves
    /\ library' = s[2] /\ lib' = [lib EXCEPT !.saves = @ \ {s}, !.held = s[1]]
    /\ UNCHANGED <<targets, inject>>

StoreFailed(s) ==
    /\ s \in lib.saves
    /\ lib' = [lib EXCEPT !.saves = @ \ {s}] /\ UNCHANGED <<library, targets, inject>>

Asked(l) == lib.asks < MaxBackendAsks /\ lib' = [l EXCEPT !.asks = lib.asks + 1]

\* Leaving the page clears the timer, with the changes of the last second; what
\* was sent is under way still.
Reopen ==
    /\ ~inject.busy /\ inject' = [NoInjection EXCEPT !.unread = inject.unread]
    /\ Asked([Opened EXCEPT !.sent = lib.sent, !.saves = lib.saves, !.held = lib.held])
    /\ UNCHANGED <<library, targets>>

-----------------------------------------------------------------------------
(* The endpoints. *)

Has(u) == \E i \in DOMAIN lib.entries : lib.entries[i].url = u

Add(u) ==
    /\ ~Has(u)
    /\ Asked(Changed(lib, Append(lib.entries, Entry(u))))
    /\ UNCHANGED <<library, targets, inject>>

\* handleAutoCollect: the urls BotShepherd's connections have and the library
\* did not have when it was asked for; no answer adds none.
Collect ==
    /\ lib.collect = {} /\ Asked([lib EXCEPT !.collect = {{u \in Urls : Has(u)}}])
    /\ UNCHANGED <<library, targets, inject>>

Collected(had, us) ==
    /\ lib.collect = {had} /\ us \cap had = {}
    /\ lib' = IF us = {} THEN [lib EXCEPT !.collect = {}]
              ELSE Changed([lib EXCEPT !.collect = {}], lib.entries \o Mapped(SetToSeq(us)))
    /\ UNCHANGED <<library, targets, inject>>

Edited(es, i, u) == [es EXCEPT ![i].url = u]

\* The dialog edits the entry at its index: it may take a url there is, and the
\* entry keeps what its old url answered.
Edit(i, u) ==
    /\ lib.entries[i].url # u
    /\ Asked(Changed(lib, Edited(lib.entries, i, u)))
    /\ UNCHANGED <<library, targets, inject>>

Delete(i) ==
    /\ Asked(Changed([lib EXCEPT !.moved = @ \/ lib.probes # {}], RemoveAt(lib.entries, i)))
    /\ UNCHANGED <<library, targets, inject>>

Probing(S) ==
    /\ Asked(Changed([lib EXCEPT !.probes = @ \cup {<<i, lib.asks>> : i \in S}],
               [i \in DOMAIN lib.entries |->
                  IF i \in S THEN [lib.entries[i] EXCEPT !.probing = TRUE] ELSE lib.entries[i]]))
    /\ UNCHANGED <<library, targets, inject>>

\* The button is off while its entry is probed; that of all entries is not.
Probe(i) == ~lib.entries[i].probing /\ Probing({i})
ProbeAll == lib.entries # <<>> /\ Probing(DOMAIN lib.entries)

\* Faulty: no answer leaves the endpoint being probed.
ProbedNoCatch(p) ==
    /\ p \in lib.probes
    /\ \/ lib' = Changed([lib EXCEPT !.probes = @ \ {p}],
            IF p[1] \in DOMAIN lib.entries
              THEN [lib.entries EXCEPT ![p[1]].probing = FALSE] ELSE lib.entries)
       \/ lib' = [lib EXCEPT !.probes = @ \ {p}]
    /\ UNCHANGED <<library, targets, inject>>

\* An answer, or none, goes to the entry that has the index by now.
Probed(p) ==
    /\ p \in lib.probes
    /\ lib' = Changed([lib EXCEPT !.probes = @ \ {p}],
            IF p[1] \in DOMAIN lib.entries
              THEN [lib.entries EXCEPT ![p[1]].probing = FALSE] ELSE lib.entries)
    /\ UNCHANGED <<library, targets, inject>>

-----------------------------------------------------------------------------
(* Injection: for every target in turn, read, add and write back.  Bound:  *)
(* one injection at a time, the page is not left during it, and nobody     *)
(* else writes the targets meanwhile.                                      *)

Inject(kind, i, T) ==
    /\ ~inject.busy /\ T # {}
    /\ Asked(lib)
    /\ inject' = [NoInjection EXCEPT !.kind = kind, !.url = lib.entries[i].url, !.all = T, !.todo = T,
                                     !.busy = TRUE, !.unread = inject.unread]
    /\ UNCHANGED <<library, targets>>

\* The dialogs choose connections, or instances that are logged in.
InjectBS(i, T) == Inject("bs", i, T)
InjectNC(i, T) == Inject("nc", i, T)

NextTarget(t) == inject.busy /\ inject.at = {} /\ t \in inject.todo
Past(t) == [inject EXCEPT !.todo = @ \ {t}, !.at = {}, !.read = {}]
Writing(t, existing) == [inject EXCEPT !.todo = @ \ {t}, !.at = {t}, !.read = existing]
Failing(t) == [Past(t) EXCEPT !.failed = TRUE]
WritingUnread(t) == [Writing(t, {}) EXCEPT !.unread = @ \cup {t}]

\* Faulty: a connection that cannot be read is passed over.
ReadFailedSilent(t) ==
    /\ NextTarget(t)
    /\ inject' = IF inject.kind = "bs" THEN Past(t) ELSE WritingUnread(t)
    /\ UNCHANGED <<library, lib, targets>>

\* A connection that cannot be read, or is gone, has failed; an instance whose
\* configuration cannot be read is taken to have no clients.
ReadFailed(t) ==
    /\ NextTarget(t)
    /\ inject' = IF inject.kind = "bs" THEN Failing(t) ELSE WritingUnread(t)
    /\ UNCHANGED <<library, lib, targets>>

Read(t) ==
    /\ NextTarget(t)
    /\ inject' = IF inject.url \in targets[t] THEN Past(t) ELSE Writing(t, targets[t])
    /\ UNCHANGED <<library, lib, targets>>

\* Faulty: the list is replaced by the new endpoint.
WrittenAlone(t) == [targets EXCEPT ![t] = {inject.url}]

\* The list is replaced by what was read and the new endpoint.
Written(t) == [targets EXCEPT ![t] = inject.read \cup {inject.url}]

\* A failure may have been stored all the same.  The manager answers a refusal
\* of BotShepherd, or that it is down, like a success: it is counted as one.
Write(t) ==
    /\ t \in inject.at /\ UNCHANGED <<library, lib>>
    /\ \/ targets' = Written(t) /\ inject' = Past(t)
       \/ /\ targets' = targets \/ targets' = Written(t)
          /\ \/ inject' = Failing(t)
             \/ inject.kind = "bs" /\ inject' = [Past(t) EXCEPT !.refused = @ \cup {t}]

Injected ==
    /\ inject.busy /\ inject.todo \cup inject.at = {} /\ inject' = [inject EXCEPT !.busy = FALSE]
    /\ UNCHANGED <<library, lib, targets>>

-----------------------------------------------------------------------------
BackendNext ==
    \/ Loaded \/ LoadFailed \/ TimerFires \/ Reopen \/ ProbeAll \/ Injected
    \/ \E s \in lib.saves : Stored(s) \/ StoreFailed(s)
    \/ \E u \in Urls : Add(u) \/ \E i \in DOMAIN lib.entries : Edit(i, u)
    \/ Collect \/ \E had, us \in SUBSET Urls : Collected(had, us)
    \/ \E i \in DOMAIN lib.entries : Delete(i) \/ Probe(i)
    \/ \E p \in lib.probes : Probed(p)
    \/ \E i \in DOMAIN lib.entries, T \in SUBSET Targets : InjectBS(i, T) \/ InjectNC(i, T)
    \/ \E t \in Targets : ReadFailed(t) \/ Read(t) \/ Write(t)

BackendSpec == BackendInit /\ [][BackendNext]_backendVars

-----------------------------------------------------------------------------
(* When no timer runs and the save that was sent last is the one that was   *)
(* stored last, the manager has what the page shows, whatever other saves    *)
(* are under way: the timer that is set anew never saves what was shown      *)
(* before.                                                                   *)
SavedAsShown == lib.timer = NoTimer /\ lib.held = lib.sent => library = Payload(lib.entries)

(* An endpoint is shown as being probed only while a probe of its index is *)
(* under way, unless the list moved under a probe: no entry spins forever. *)
ProbeSettles ==
    lib.moved \/ \A i \in DOMAIN lib.entries : lib.entries[i].probing => \E p \in lib.probes : p[1] = i

(* An injection reported without failures put the endpoint into every      *)
(* target it was asked for (handleInjectBS, handleInjectNC), but for those  *)
(* BotShepherd refused.                                                     *)
InjectedAll ==
    ~inject.busy /\ ~inject.failed => \A t \in inject.all \ inject.refused : inject.url \in targets[t]

(* An injection takes no endpoint from a target whose configuration could   *)
(* be read, whatever was injected before or meanwhile.                      *)
AddedOnly == \A t \in Targets \ inject.unread : targets[t] \subseteq targets'[t]
=============================================================================
