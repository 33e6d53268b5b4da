------------------------------ MODULE Services ------------------------------
(***************************************************************************)
(* An instance for TLC of four services of the manager that share no       *)
(* state: the public feed (PublicFeed, whose definitions are those used    *)
(* here without a prefix), the injection of logins, the leases of ports    *)
(* and the watchdog of BotShepherd.  A behaviour is of one of them, part;  *)
(* the others rest in their initial state.                                 *)
(***************************************************************************)
EXTENDS PublicFeed

CONSTANTS
    Nobody,
    Workers,             \* detections, and requests, under way
    MaxPort, MaxLogins, MaxTroubles, Explicit, Hazards,   \* see LoginInjection and PortLease
    Loops, Pids                                           \* see Watchdog

VARIABLES
    part,
    logged, file, marker, conns, cleanups, reserved, tasks, good, mine, count,  \* LoginInjection
    docker, leases, lock, listing, reqs, orphans, hazards,                      \* PortLease
    alive, hidden, current, flag, task, loops, threads, asks, busy, calm, sole          \* Watchdog

Injection == INSTANCE LoginInjection WITH
    Bots <- Names, NoBot <- Nobody, Tasks <- Workers

Lease == INSTANCE PortLease WITH
    Boxes <- Names, NoBox <- Nobody, Reqs <- Workers, NoReq <- Nobody

Dog == INSTANCE Watchdog WITH
    Reqs <- Workers, NoReq <- Nobody, NoLoop <- Nobody, NoPid <- Nobody, starts <- threads, reqs <- asks

ASSUME ServicesAssumption ==
    FeedAssumption /\ Injection!InjectionAssumption /\ Lease!PortsAssumption /\ Dog!WatchdogAssumption

feedVars == <<table, session, chan, view>>
injectionVars == <<logged, file, marker, conns, cleanups, reserved, tasks, good, mine, count>>
leaseVars == <<docker, leases, lock, listing, reqs, orphans, hazards>>
dogVars == <<alive, hidden, current, flag, task, loops, threads, asks, busy, calm, sole>>
servicesVars == <<part, feedVars, injectionVars, leaseVars, dogVars>>

ServicesInit ==
    /\ part \in {"feed", "injection", "lease", "dog"}
    /\ Init /\ Injection!Init /\ Lease!Init /\ Dog!Init

ServicesNext ==
    /\ UNCHANGED part
    /\ IF part = "feed" THEN Next ELSE UNCHANGED feedVars
    /\ IF part = "injection" THEN Injection!Next ELSE UNCHANGED injectionVars
    /\ IF part = "lease" THEN Lease!Next ELSE UNCHANGED leaseVars
    /\ IF part = "dog" THEN Dog!Next ELSE UNCHANGED dogVars

ServicesSpec == ServicesInit /\ [][ServicesNext]_servicesVars

-----------------------------------------------------------------------------
(* The type invariants of the parts. *)
ServicesTypeOK == TypeOK /\ Injection!TypeOK /\ Lease!TypeOK /\ Dog!TypeOK

(* After a login BotShepherd and the bot meet at a port that is no other      *)
(* bot's, and endpoints that a user added are kept (_on_login_detected,       *)
(* allocate_port, _async_sync_bs_connection).                                 *)
ReachesBot == Injection!ReachesBot

(* Ports are reserved as long as they are needed, for an injection as for a  *)
(* container, and by one only (the two allocate_port).                       *)
PortsHeld == Injection!ReservedExact /\ Lease!LeasesHeld /\ Lease!PortsApart

(* BotShepherd stays down when it was stopped, has one process that can be   *)
(* found, and is monitored when the monitor says so (start and stop of       *)
(* botshepherd.py and of bs_activation_service.py, which overlap).           *)
ShepherdKept == Dog!StaysStopped /\ Dog!OneProcess /\ Dog!FlagIsTask
=============================================================================
