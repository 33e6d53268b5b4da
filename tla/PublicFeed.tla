----------------------------- MODULE PublicFeed -----------------------------
(***************************************************************************)
(* The container feed of /ws/public: ws_public, _diff_containers and       *)
(* _diff_qr in routers/ws_router.py and the snapshots they are taken from  *)
(* (services/instance_subsystem.py), joined by a channel to the client,    *)
(* frontend/src/hooks/usePublicWebSocket.ts.                               *)
(*                                                                         *)
(* An instance is its name, its status and its QR state; what a snapshot   *)
(* holds of it is a function, so that two snapshots differ as two          *)
(* dictionaries do.                                                        *)
(***************************************************************************)
EXTENDS Naturals, Sequences

CONSTANTS
    Names,     \* container names
    QrStates,  \* what to_qr_dict may return
    PageSize,  \* pageSize of a subscription
    Pages,     \* pages a client may subscribe to; 0 stands for no paging
    MaxChan,   \* bound: messages in flight
    Patches    \* does the client apply "patch" messages?

FeedAssumption ==
    /\ PageSize \in Nat \ {0} /\ Pages \subseteq Nat /\ 0 \in Pages
    /\ MaxChan \in Nat \ {0} /\ Patches \in BOOLEAN

Instance == [name : Names, status : {"running", "exited"}, qr : QrStates]

VARIABLES
    table,  \* InstanceSubsystem._instances, in insertion order
    pc,     \* where the session of ws_public is suspended
    page,   \* sub_page
    first,  \* first_push
    prev,   \* prev_containers and prev_qr
    curr,   \* the snapshot being sent
    out,    \* the message being sent
    chan,   \* messages on their way to the client
    view    \* what the client shows: containers and qrStates

session == <<pc, page, first, prev, curr, out>>
vars == <<table, session, chan, view>>

-----------------------------------------------------------------------------
(* Snapshots and their differences *)

Empty == [n \in {} |-> {}]
Blank == [containers |-> Empty, qr |-> Empty]

Elems(s) == {s[i] : i \in DOMAIN s}
Entry(insts, n) == CHOOSE x \in insts : x.name = n
NamesOf(insts) == {x.name : x \in insts}

\* instance_subsystem.query
PageOf(t, k) ==
    {t[i] : i \in {j \in DOMAIN t : (k - 1) * PageSize < j /\ j <= k * PageSize}}

\* What a session with sub_page = k pushes: all the containers and the QR
\* states of the running ones, or a page with the QR states of all on it.
Snapshot(t, k) ==
    LET shown == IF k = 0 THEN Elems(t) ELSE PageOf(t, k)
        qrOf  == IF k = 0 THEN {x \in shown : x.status = "running"} ELSE shown
    IN  [containers |-> [n \in NamesOf(shown) |-> Entry(shown, n).status],
         qr         |-> [n \in NamesOf(qrOf) |-> Entry(qrOf, n).qr]]

\* Faulty: keys that are gone are not reported.
DiffKeepsGone(p, c) ==
    [changed |-> [n \in {m \in DOMAIN c : m \notin DOMAIN p \/ p[m] # c[m]} |-> c[n]],
     removed |-> {}]

\* _diff_containers (added and updated taken together) and _diff_qr.
Diff(p, c) ==
    [changed |-> [n \in {m \in DOMAIN c : m \notin DOMAIN p \/ p[m] # c[m]} |-> c[n]],
     removed |-> DOMAIN p \ DOMAIN c]

Trivial(d) == DOMAIN d.changed = {} /\ d.removed = {}

\* A patch applied to what a client holds.
Patched(f, d) ==
    [n \in (DOMAIN f \ d.removed) \cup DOMAIN d.changed |->
        IF n \in DOMAIN d.changed THEN d.changed[n] ELSE f[n]]

-----------------------------------------------------------------------------
Init ==
    /\ table = <<>>
    /\ pc = "build" /\ page = 0 /\ first = TRUE
    /\ prev = Blank /\ curr = Blank /\ out = <<>>
    /\ chan = <<>> /\ view = Blank

(* The instance table, as the state engine and the handlers change it *)

Add(x) ==
    /\ x.name \notin NamesOf(Elems(table))
    /\ table' = Append(table, x)
    /\ UNCHANGED <<session, chan, view>>

Change(i, x) ==
    /\ x.name = table[i].name /\ x # table[i]
    /\ table' = [table EXCEPT ![i] = x]
    /\ UNCHANGED <<session, chan, view>>

Remove(i) ==
    /\ table' = [j \in 1..(Len(table) - 1) |-> IF j < i THEN table[j] ELSE table[j + 1]]
    /\ UNCHANGED <<session, chan, view>>

-----------------------------------------------------------------------------
(* ws_public *)

\* _recv_loop: a "subscribe" message.
Subscribe(k) ==
    /\ pc # "closed" /\ k # 0 /\ k # page
    /\ page' = k
    /\ UNCHANGED <<table, pc, first, prev, curr, out, chan, view>>

\* The loop builds a snapshot and starts to send it whole, or what has
\* changed in it; when nothing has it waits again.
Build ==
    /\ pc = "build"
    /\ LET now == Snapshot(table, page)
           c   == Diff(prev.containers, now.containers)
           q   == Diff(prev.qr, now.qr)
       IN  IF first THEN /\ pc' = "sending" /\ curr' = now
                         /\ out' = <<[type |-> "full", data |-> now]>>
                         /\ UNCHANGED prev
           ELSE IF Trivial(c) /\ Trivial(q)
                THEN /\ pc' = "waiting" /\ prev' = now
                     /\ UNCHANGED <<curr, out>>
                ELSE /\ pc' = "sending" /\ curr' = now
                     /\ out' = <<[type |-> "patch", containers |-> c, qr |-> q]>>
                     /\ UNCHANGED prev
    /\ UNCHANGED <<table, page, first, chan, view>>

\* The send returns: the snapshot becomes the previous one.
Sent ==
    /\ pc = "sending" /\ Len(chan) < MaxChan
    /\ chan' = chan \o out
    /\ out' = <<>> /\ prev' = curr /\ curr' = Blank /\ first' = FALSE
    /\ pc' = "waiting"
    /\ UNCHANGED <<table, page, view>>

\* A send, or a heartbeat, fails or takes more than 5 seconds: the session
\* ends, and what was on its way is lost.
Fails ==
    /\ pc \in {"sending", "beating"}
    /\ pc' = "closed"
    /\ chan' = <<>> /\ out' = <<>> /\ prev' = Blank /\ curr' = Blank /\ first' = TRUE /\ page' = 0
    /\ UNCHANGED <<table, view>>

\* The engine's notify_all: only a session that waits is woken.
Notified ==
    /\ pc = "waiting"
    /\ pc' = "build"
    /\ UNCHANGED <<table, page, first, prev, curr, out, chan, view>>

\* wait_for_change times out: a heartbeat.
Idle ==
    /\ pc = "waiting"
    /\ pc' = "beating"
    /\ UNCHANGED <<table, page, first, prev, curr, out, chan, view>>

\* Faulty: after a heartbeat the loop waits without looking at the table.
AfterBeatWaits == "waiting"

\* Where the loop goes on after a heartbeat.
AfterBeat == "build"

Beaten ==
    /\ pc = "beating"
    /\ pc' = AfterBeat
    /\ UNCHANGED <<table, page, first, prev, curr, out, chan, view>>

-----------------------------------------------------------------------------
(* usePublicWebSocket *)

\* What a client that shows v shows once it has received m.
Received(v, m) ==
    IF m.type = "full" THEN m.data
    ELSE IF Patches THEN [containers |-> Patched(v.containers, m.containers),
                          qr         |-> Patched(v.qr, m.qr)]
    ELSE v

\* onmessage.
Receive ==
    /\ chan # <<>>
    /\ chan' = Tail(chan)
    /\ view' = Received(view, Head(chan))
    /\ UNCHANGED <<table, session>>

\* The client connects again, to a new session.
Reconnect ==
    /\ pc = "closed"
    /\ pc' = "build"
    /\ UNCHANGED <<table, page, first, prev, curr, out, chan, view>>

-----------------------------------------------------------------------------
TableStep ==
    \/ \E x \in Instance : Add(x) \/ \E i \in DOMAIN table : Change(i, x)
    \/ \E i \in DOMAIN table : Remove(i)

Next ==
    \/ TableStep
    \/ \E k \in Pages : Subscribe(k)
    \/ Build \/ Sent \/ Fails \/ Notified \/ Idle \/ Beaten \/ Receive \/ Reconnect

Spec == Init /\ [][Next]_vars

\* The session and the client run, waits and sends are bounded, and a send
\* that is tried again and again succeeds now and then.  Nothing is assumed
\* of the engine: its notifications may cease.
FairSpec ==
    /\ Spec
    /\ WF_vars(Build) /\ WF_vars(Idle) /\ WF_vars(Reconnect)
    /\ SF_vars(Sent) /\ SF_vars(Beaten) /\ SF_vars(Receive)
-----------------------------------------------------------------------------
TypeOK ==
    /\ Elems(table) \subseteq Instance
    /\ \A i, j \in DOMAIN table : table[i].name = table[j].name => i = j
    /\ pc \in {"build", "sending", "waiting", "beating", "closed"}
    /\ page \in Pages /\ first \in BOOLEAN
    /\ Len(out) <= 1 /\ Len(chan) <= MaxChan
    /\ \A s \in {prev, curr, view} :
          DOMAIN s.containers \subseteq Names /\ DOMAIN s.qr \subseteq Names

(* A client that follows the protocol is in step with its session: what the  *)
(* session believes it has sent is what the client will show once the        *)
(* messages in flight arrive, whatever pages were subscribed to meanwhile.   *)
InStep ==
    Patches /\ ~first =>
        LET seen[i \in 0..Len(chan)] == IF i = 0 THEN view ELSE Received(seen[i - 1], chan[i])
        IN  seen[Len(chan)] = prev

(* The feed converges: when the table and the subscription no longer change, *)
(* the client ends up showing the table, although notifications reach only a *)
(* waiting session and connections break.                                    *)
Converges ==
    <>[][FALSE]_<<table, page>> => <>[](view = Snapshot(table, page))
=============================================================================
