----------------------------- MODULE PortLease ------------------------------
(***************************************************************************)
(* Host ports of containers: allocate_port and release_port of             *)
(* services/docker_async.py, which reserve a port in the database, and the *)
(* handlers that create and recreate containers with such ports            *)
(* (routers/container_crud_router.py, container_runtime/data_recreate.py). *)
(*                                                                         *)
(* A container has one port here; the three of the code are allocated one  *)
(* after the other in the same way.  Docker lists the ports of containers  *)
(* that run, and those only.                                               *)
(***************************************************************************)
EXTENDS Naturals, FiniteSetsExt

CONSTANTS Boxes, NoBox,   \* names of containers
          Reqs, NoReq,    \* requests; each may be used again
          MaxPort,        \* bound: ports 1..MaxPort, counted from the base port
          Explicit,       \* ports that a request may name
          Hazards         \* bound: failed listings and restarts of the manager

PortsAssumption ==
    /\ NoBox \notin Boxes /\ NoReq \notin Reqs /\ MaxPort \in Nat \ {0}
    /\ Explicit \subseteq 1..MaxPort /\ Hazards \in Nat

VARIABLES
    docker,   \* Docker's containers: their port, 0 if there is none, and do they run
    leases,   \* the table reserved_ports
    lock,     \* who holds _port_lock
    listing,  \* what the holder was told of used ports
    reqs,     \* the requests under way
    orphans,  \* leases that outlived their request
    hazards   \* how many so far

portVars == <<docker, leases, lock, listing, reqs, orphans, hazards>>
vars == portVars

Ports == 1..MaxPort
Gone == [port |-> 0, up |-> FALSE]
Bound(b) == docker[b].up

\* sure: nothing came between that the allocation does not exclude, which is
\* another's use of the port that neither lists nor leases showed.
NoRequest == [at |-> "idle", box |-> NoBox, port |-> 0, leased |-> FALSE, sure |-> FALSE]

Init ==
    /\ docker = [b \in Boxes |-> Gone] /\ leases = {} /\ lock = NoReq /\ listing = {}
    /\ reqs = [r \in Reqs |-> NoRequest] /\ orphans = {} /\ hazards = 0

Holding(r) == reqs[r].at = "creating" /\ reqs[r].leased
Held == {reqs[r].port : r \in {s \in Reqs : Holding(s)}}

\* A request with a port goes on to Docker, one without asks for a port.
Begun(b, port) ==
    [NoRequest EXCEPT !.at = IF port > 0 THEN "creating" ELSE "queued", !.box = b, !.port = port]

\* The requests after another has used port p: one that holds it is robbed, one
\* that waits for its list is not told if a container begins to use it.
Used(p, starts) ==
    [s \in Reqs |->
        IF (Holding(s) /\ reqs[s].port = p) \/ (reqs[s].at = "listed" /\ starts)
        THEN [reqs[s] EXCEPT !.sure = FALSE] ELSE reqs[s]]

-----------------------------------------------------------------------------
(* The handlers *)

\* api_create_container
Create(r, b, port) ==
    /\ reqs[r].at = "idle"
    /\ reqs' = [reqs EXCEPT ![r] = Begun(b, port)]
    /\ UNCHANGED <<docker, leases, lock, listing, orphans, hazards>>

\* api_recreate_container: the snapshot, which is taken before the old
\* container is deleted, tells its port, and none if there is no container.
Recreate(r, b, port) ==
    /\ reqs[r].at = "idle"
    /\ reqs' = [reqs EXCEPT ![r] = [NoRequest EXCEPT !.at = "deleting", !.box = b,
                                     !.port = IF port > 0 THEN port ELSE docker[b].port]]
    /\ UNCHANGED <<docker, leases, lock, listing, orphans, hazards>>

\* Deleted, or Docker did not and the request fails, as it does when the data
\* cannot be cleared then.
Deleted(r, done, cleared) ==
    /\ reqs[r].at = "deleting"
    /\ docker[reqs[r].box] = Gone => ~done
    /\ docker' = IF done THEN [docker EXCEPT ![reqs[r].box] = Gone] ELSE docker
    /\ reqs' = [reqs EXCEPT ![r] = IF done /\ cleared THEN Begun(@.box, @.port) ELSE NoRequest]
    /\ UNCHANGED <<leases, lock, listing, orphans, hazards>>

\* create_container: the new container replaces one of that name, and starts if
\* no other has the port.  A failure leaves the old one, none, or the new one,
\* which does not run.  Then the lease of the port is deleted, whoever has it.
Finish(r, ok) ==
    /\ reqs[r].at = "creating"
    /\ LET p == reqs[r].port
           b == reqs[r].box
       IN  /\ ok => \A c \in Boxes \ {b} : Bound(c) => docker[c].port # p
           /\ \E left \in {docker[b], Gone, [port |-> p, up |-> FALSE]} :
                docker' = [docker EXCEPT ![b] = IF ok THEN [port |-> p, up |-> TRUE] ELSE left]
           /\ leases' = leases \ {p} /\ orphans' = orphans \ {p}
           /\ reqs' = [Used(p, ok) EXCEPT ![r] = NoRequest]
    /\ UNCHANGED <<lock, listing, hazards>>

\* The request breaks off: the variables of a recreation, which are read once it
\* has its ports, are refused, or create_container raises what it does not catch.
\* The lease stays.
Breaks(r) ==
    /\ reqs[r].at = "creating"
    /\ orphans' = IF reqs[r].leased THEN orphans \cup ({reqs[r].port} \cap leases) ELSE orphans
    /\ reqs' = [reqs EXCEPT ![r] = NoRequest]
    /\ UNCHANGED <<docker, leases, lock, listing, hazards>>

-----------------------------------------------------------------------------
(* allocate_port *)

Lock(r) ==
    /\ reqs[r].at = "queued" /\ lock = NoReq
    /\ lock' = r
    /\ reqs' = [reqs EXCEPT ![r].at = "listing"]
    /\ UNCHANGED <<docker, leases, listing, orphans, hazards>>

\* get_used_ports: Docker makes its list; an error is an empty one.
Listed(r, fails) ==
    /\ reqs[r].at = "listing" /\ (fails => hazards < Hazards)
    /\ listing' = IF fails THEN {} ELSE {docker[b].port : b \in {c \in Boxes : Bound(c)}}
    /\ reqs' = [reqs EXCEPT ![r].at = "listed", ![r].sure = ~fails]
    /\ hazards' = IF fails THEN hazards + 1 ELSE hazards
    /\ UNCHANGED <<docker, leases, lock, orphans>>

\* Faulty: leases of others are not looked at.
TakenListed == listing

Taken == listing \cup leases

\* The answer arrives: the leases are read now, the lowest free port is leased,
\* and the lock released.  Without a free port the request fails.
Leased(r) ==
    /\ reqs[r].at = "listed"
    /\ lock' = NoReq /\ listing' = {}
    /\ IF Ports \subseteq Taken
         THEN reqs' = [reqs EXCEPT ![r] = NoRequest] /\ UNCHANGED leases
         ELSE LET p == Min(Ports \ Taken)
              IN  /\ leases' = leases \cup {p}
                  /\ reqs' = [reqs EXCEPT ![r] = [@ EXCEPT !.at = "creating", !.port = p, !.leased = TRUE]]
    /\ UNCHANGED <<docker, orphans, hazards>>

-----------------------------------------------------------------------------
(* A user starts, stops and removes containers. *)

Starts(b) ==
    /\ docker[b].port > 0 /\ ~Bound(b)
    /\ \A c \in Boxes : Bound(c) => docker[c].port # docker[b].port
    /\ docker' = [docker EXCEPT ![b].up = TRUE]
    /\ reqs' = Used(docker[b].port, TRUE)
    /\ UNCHANGED <<leases, lock, listing, orphans, hazards>>

Stops(b) ==
    /\ Bound(b)
    /\ docker' = [docker EXCEPT ![b].up = FALSE]
    /\ UNCHANGED <<leases, lock, listing, reqs, orphans, hazards>>

Removed(b) ==
    /\ docker[b] # Gone
    /\ docker' = [docker EXCEPT ![b] = Gone]
    /\ UNCHANGED <<leases, lock, listing, reqs, orphans, hazards>>

\* The manager restarts: requests end where they are, the table stays, but for
\* leases of more than 300 seconds (_cleanup_stale_reservations).
Restart ==
    /\ hazards < Hazards /\ hazards' = hazards + 1
    /\ \E stale \in SUBSET leases : leases' = leases \ stale
    /\ orphans' = leases'
    /\ lock' = NoReq /\ listing' = {} /\ reqs' = [r \in Reqs |-> NoRequest]
    /\ UNCHANGED docker

Next ==
    \/ \E r \in Reqs, b \in Boxes, port \in Explicit \cup {0} : Create(r, b, port) \/ Recreate(r, b, port)
    \/ \E r \in Reqs, done, cleared \in BOOLEAN : Deleted(r, done, cleared)
    \/ \E r \in Reqs, ok \in BOOLEAN : Finish(r, ok) \/ Listed(r, ok)
    \/ \E r \in Reqs : Lock(r) \/ Leased(r) \/ Breaks(r)
    \/ \E b \in Boxes : Starts(b) \/ Stops(b) \/ Removed(b)
    \/ Restart

Spec == Init /\ [][Next]_vars

-----------------------------------------------------------------------------
Request ==
    [at : {"idle", "deleting", "queued", "listing", "listed", "creating"},
     box : Boxes \cup {NoBox}, port : 0..MaxPort, leased : BOOLEAN, sure : BOOLEAN]

TypeOK ==
    /\ docker \in [Boxes -> [port : 0..MaxPort, up : BOOLEAN]]
    /\ leases \subseteq Ports /\ listing \subseteq Ports
    /\ lock \in Reqs \cup {NoReq} /\ orphans \subseteq Ports /\ hazards \in 0..Hazards
    /\ reqs \in [Reqs -> Request]
    /\ \A r \in Reqs : reqs[r].at \in {"listing", "listed"} <=> lock = r

(* A lease lasts as long as the request it was made for, however requests     *)
(* overlap: no port is kept from everyone by a request that has ended, but    *)
(* for those that break off and those that a restart ends.                    *)
LeasesHeld ==
    /\ \A r \in Reqs : Holding(r) /\ reqs[r].sure => reqs[r].port \in leases
    /\ leases \subseteq Held \cup orphans

(* "Atomic allocation ... prevents races": a port that was allocated is       *)
(* allocated to no other request and no other running container has it.  The  *)
(* code prevents that unless something came between: see sure.                *)
PortsApart ==
    \A r \in Reqs : Holding(r) /\ reqs[r].sure =>
        /\ \A s \in Reqs \ {r} : Holding(s) /\ reqs[s].sure => reqs[s].port # reqs[r].port
        /\ \A b \in Boxes \ {reqs[r].box} : Bound(b) => docker[b].port # reqs[r].port
=============================================================================
