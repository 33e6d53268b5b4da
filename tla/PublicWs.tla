------------------------------ MODULE PublicWs ------------------------------
(***************************************************************************)
(* Admission of WebSockets: the handshake limiter                          *)
(* (middleware/rate_limiter.py), the per-address counter of ws_public and  *)
(* the shared connection set of services/ws_manager.py, which the          *)
(* authenticated /ws/events sessions use as well (routers/ws_router.py).   *)
(*                                                                         *)
(* The locks of ws_manager are held over no await, so each of its critical *)
(* sections is one step; ws.accept() is the await between them.            *)
(***************************************************************************)
EXTENDS Naturals, FiniteSets

CONSTANTS
    Conns,      \* sockets, each opened once
    Public,     \* those that ask for /ws/public; the others ask for /ws/events
    Ips,        \* client addresses
    Ip,         \* [Conns -> Ips]
    MaxPublic,  \* _MAX_PUBLIC_WS
    MaxPerIp    \* _MAX_PUBLIC_WS_PER_IP

ConnsAssumption == Public \subseteq Conns /\ Ip \in [Conns -> Ips]
LimitsAssumption == MaxPublic \in Nat /\ MaxPerIp \in Nat

VARIABLES
    pc,           \* [Conns -> state of the handler]
    gone,         \* sockets whose client has left
    connections,  \* ws_manager._connections
    perIp,        \* _public_ws_per_ip
    cooling       \* addresses whose last admitted handshake is less than a second old

vars == <<pc, gone, connections, perIp, cooling>>

Init ==
    /\ pc = [c \in Conns |-> "new"]
    /\ gone = {} /\ connections = {} /\ cooling = {}
    /\ perIp = [i \in Ips |-> 0]

-----------------------------------------------------------------------------
Move(c, to) == pc' = [pc EXCEPT ![c] = to]

\* The handshake of ws_public up to the await in connect_if_available.
\* The limiter is asked first: a handshake refused later has used its turn.
Ask(c) ==
    /\ pc[c] = "new" /\ c \in Public
    /\ LET slow == Ip[c] \in cooling
           full == perIp[Ip[c]] >= MaxPerIp \/ Cardinality(connections) >= MaxPublic
       IN  /\ Move(c, IF slow \/ full THEN "rejected" ELSE "accepting")
           /\ cooling' = cooling \cup {Ip[c]}
    /\ UNCHANGED <<gone, connections, perIp>>

\* ws_events, once the token is found valid: connect has no limit.
AskEvents(c) ==
    /\ pc[c] = "new" /\ c \notin Public
    /\ Move(c, "accepting")
    /\ UNCHANGED <<gone, connections, perIp, cooling>>

\* A second has passed since the last handshake from i.
Cooled(i) ==
    /\ i \in cooling
    /\ cooling' = cooling \ {i}
    /\ UNCHANGED <<pc, gone, connections, perIp>>

\* Faulty: the counter is not told of a connection it admitted.
CountedNot(c) == perIp

\* Faulty: sessions of /ws/events are counted too.
CountedAll(c) == [perIp EXCEPT ![Ip[c]] = @ + 1]

Counted(c) == IF c \in Public THEN [perIp EXCEPT ![Ip[c]] = @ + 1] ELSE perIp

\* accept() returns: the socket is registered and counted.
Accepted(c) ==
    /\ pc[c] = "accepting"
    /\ Move(c, "open")
    /\ connections' = connections \cup {c}
    /\ perIp' = Counted(c)
    /\ UNCHANGED <<gone, cooling>>

\* accept() raises: the client left first.
AcceptFails(c) ==
    /\ pc[c] = "accepting" /\ c \in gone
    /\ Move(c, "closed")
    /\ UNCHANGED <<gone, connections, perIp, cooling>>

\* The client leaves.
Leaves(c) ==
    /\ pc[c] \in {"accepting", "open"} /\ c \notin gone
    /\ gone' = gone \cup {c}
    /\ UNCHANGED <<pc, connections, perIp, cooling>>

\* Faulty: the connection set keeps the socket.
UnregisteredNot(c) == connections

Unregistered(c) == connections \ {c}

\* A send of the session fails, for want of a client or of time: the
\* finally block.  A counter that reaches zero is removed (a defaultdict
\* reads it as zero).
Ends(c) ==
    /\ pc[c] = "open"
    /\ Move(c, "closed")
    /\ connections' = Unregistered(c)
    /\ perIp' = IF c \in Public THEN [perIp EXCEPT ![Ip[c]] = @ - 1] ELSE perIp
    /\ UNCHANGED <<gone, cooling>>

Step(c) ==
    \/ Ask(c) \/ AskEvents(c) \/ Accepted(c) \/ AcceptFails(c) \/ Leaves(c) \/ Ends(c)

Next == (\E c \in Conns : Step(c)) \/ (\E i \in Ips : Cooled(i))

Spec == Init /\ [][Next]_vars
-----------------------------------------------------------------------------
Open(S) == {c \in S : pc[c] = "open"}
From(i) == {c \in Public : Ip[c] = i}

TypeOK ==
    /\ pc \in [Conns -> {"new", "rejected", "accepting", "open", "closed"}]
    /\ gone \subseteq Conns /\ connections \subseteq Conns
    /\ perIp \in [Ips -> Nat] /\ cooling \subseteq Ips

(* The counter of an address is the number of its open public sockets, so    *)
(* no address is locked out for ever by a count that leaked, and none gains  *)
(* a slot by one that was taken twice.                                       *)
CountersExact == \A i \in Ips : perIp[i] = Cardinality(Open(From(i)))

(* The connection set, which the limit is read from, holds exactly the open  *)
(* sockets, public and authenticated.                                        *)
ConnectionsExact == connections = Open(Conns)

=============================================================================
