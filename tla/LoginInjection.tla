--------------------------- MODULE LoginInjection ---------------------------
(***************************************************************************)
(* What a login sets off (services/docker_lifecycle.py): a client for      *)
(* BotShepherd is written into the bot's configuration file, with a port   *)
(* of its own, and BotShepherd is told to listen on that port and to pass  *)
(* everything on to the manager.                                           *)
(*                                                                         *)
(* A detection is a task; nearly all it does is done in threads, one await *)
(* after the other, so detections of one bot, and of several, overlap.     *)
(* Settings are as BotShepherd needs them (init_bs_enabled); the group     *)
(* notices and webui.json, which nothing here depends on, are left out.    *)
(***************************************************************************)
EXTENDS Naturals, Sequences, SequencesExt, FiniteSetsExt

CONSTANTS Bots,         \* instances, each with an account of its own
          NoBot,
          Tasks,
          MaxPort,      \* bound: ports 1..MaxPort, from init_bs_client_base_port
          MaxLogins,    \* bound: logins
          MaxTroubles   \* bound: of restarts, cleared data, failures

InjectionAssumption == NoBot \notin Bots /\ MaxPort \in Nat \ {0} /\ {MaxLogins, MaxTroubles} \subseteq Nat

VARIABLES
    logged,     \* instances that the table shows logged in
    file,       \* onebot11_<uin>.json: is it there, and its clients' ports
    marker,     \* bots with the mark of a finished injection
    conns,      \* BotShepherd's connection of each bot
    cleanups,   \* deletions of connections under way (schedule_bs_cleanup)
    reserved,   \* _reserved_ports of docker_manager
    tasks,      \* detections under way
    good,       \* bots whose last detection that nothing disturbed ended well
    mine,       \* bots for which a user added an endpoint
    count       \* of logins and troubles

injectionVars == <<logged, file, marker, conns, cleanups, reserved, tasks, good, mine, count>>
vars == injectionVars

NoFile == [there |-> FALSE, ports |-> <<>>]
NoConn == [port |-> 0, manager |-> FALSE, user |-> FALSE]
NoTask == [at |-> "idle", bot |-> NoBot, found |-> FALSE, port |-> 0, read |-> <<>>, conn |-> NoConn, ok |-> FALSE]

Init ==
    /\ logged = {} /\ file = [b \in Bots |-> NoFile] /\ marker = {}
    /\ conns = [b \in Bots |-> NoConn] /\ cleanups = {} /\ reserved = {}
    /\ tasks = [t \in Tasks |-> NoTask]
    /\ good = {} /\ mine = {} /\ count = [logins |-> 0, troubles |-> 0]

-----------------------------------------------------------------------------
Of(b) == {t \in Tasks : tasks[t].bot = b}
Moved(t, to) == tasks' = [tasks EXCEPT ![t].at = to]

\* What a detection of b relies on has changed under it.
Disturbed(b) ==
    /\ tasks' = [t \in Tasks |-> IF tasks[t].bot = b THEN [tasks[t] EXCEPT !.ok = FALSE] ELSE tasks[t]]
    /\ good' = good \ {b}

Trouble == count.troubles < MaxTroubles /\ count' = [count EXCEPT !.troubles = @ + 1]

-----------------------------------------------------------------------------
(* Events *)

\* update_login_cache: a login of an account that the table shows already sets
\* off nothing.
Login(b, t) ==
    /\ b \notin logged /\ tasks[t].at = "idle" /\ count.logins < MaxLogins
    /\ logged' = logged \cup {b} /\ count' = [count EXCEPT !.logins = @ + 1]
    /\ tasks' = [tasks EXCEPT ![t] = [NoTask EXCEPT !.at = "file", !.bot = b, !.ok = TRUE]]
    /\ UNCHANGED <<file, marker, conns, cleanups, reserved, good, mine>>

Logout(b) ==
    /\ b \in logged /\ logged' = logged \ {b}
    /\ UNCHANGED <<file, marker, conns, cleanups, reserved, tasks, good, mine, count>>

\* NapCat writes a configuration without clients if there is none.
NapCatWrites(b) ==
    /\ b \in logged /\ ~file[b].there
    /\ file' = [file EXCEPT ![b].there = TRUE]
    /\ UNCHANGED <<logged, marker, conns, cleanups, reserved, tasks, good, mine, count>>

\* clear_instance_data: the scope "config", or "all", which may keep the
\* configuration.
ClearData(b, config, all) ==
    /\ Trouble /\ (config \/ all)
    /\ file' = IF config THEN [file EXCEPT ![b] = NoFile] ELSE file
    /\ marker' = IF all THEN marker \ {b} ELSE marker
    /\ cleanups' = IF all THEN cleanups \cup {b} ELSE cleanups
    /\ Disturbed(b)
    /\ UNCHANGED <<logged, conns, reserved, mine>>

\* delete_connection, by the cleanup.
BsCleanup(b) ==
    /\ b \in cleanups /\ cleanups' = cleanups \ {b}
    /\ conns' = [conns EXCEPT ![b] = NoConn] /\ mine' = mine \ {b}
    /\ Disturbed(b)
    /\ UNCHANGED <<logged, file, marker, reserved, count>>

CleanupFails(b) ==
    /\ b \in cleanups /\ cleanups' = cleanups \ {b} /\ Trouble
    /\ UNCHANGED <<logged, file, marker, conns, reserved, tasks, good, mine>>

\* A user adds an endpoint to a connection.  One that is added between the
\* reading and the writing of a detection may be lost.
UserAdds(b) ==
    /\ conns[b].port > 0 /\ ~conns[b].user
    /\ conns' = [conns EXCEPT ![b].user = TRUE]
    /\ mine' = IF \E t \in Of(b) : tasks[t].at = "put" THEN mine ELSE mine \cup {b}
    /\ UNCHANGED <<logged, file, marker, cleanups, reserved, tasks, good, count>>

\* The manager restarts: its memory is lost, wherever the detections are.
Restart ==
    /\ Trouble /\ logged' = {} /\ reserved' = {} /\ cleanups' = {}
    /\ tasks' = [t \in Tasks |-> NoTask]
    /\ UNCHANGED <<file, marker, conns, good, mine>>

-----------------------------------------------------------------------------
(* _on_login_detected *)

FileSeen(t) ==
    /\ tasks[t].at = "file"
    /\ tasks' = [tasks EXCEPT ![t].found = file[tasks[t].bot].there, ![t].at = "marker"]
    /\ UNCHANGED <<logged, file, marker, conns, cleanups, reserved, good, mine, count>>

\* A mark without a file is removed.
MarkerSeen(t) ==
    /\ tasks[t].at = "marker"
    /\ tasks' = [tasks EXCEPT ![t].found = FALSE, ![t].at =
         IF tasks[t].bot \notin marker THEN "allocate" ELSE IF tasks[t].found THEN "url" ELSE "unmark"]
    /\ UNCHANGED <<logged, file, marker, conns, cleanups, reserved, good, mine, count>>

Unmarked(t) ==
    /\ tasks[t].at = "unmark" /\ marker' = marker \ {tasks[t].bot}
    /\ Moved(t, "allocate")
    /\ UNCHANGED <<logged, file, conns, cleanups, reserved, good, mine, count>>

\* t goes on with a port that others have too, bots' connections and tasks.
Crossed(t, new, bots, others) ==
    /\ good' = good \ bots
    /\ tasks' = [u \in Tasks |->
         IF u = t THEN [new EXCEPT !.ok = @ /\ bots = {} /\ others = {}]
         ELSE IF u \in others THEN [tasks[u] EXCEPT !.ok = FALSE] ELSE tasks[u]]

Others(t) == {b \in Bots : b # tasks[t].bot}
OthersWith(t, p) == {u \in Tasks : tasks[u].bot \in Others(t) /\ tasks[u].port = p}

\* _read_injected_bs_url: the first client; without one nothing is done.  Its
\* port may have become another's while BotShepherd did not listen on it.
UrlRead(t) ==
    /\ tasks[t].at = "url"
    /\ LET ports == file[tasks[t].bot].ports
           p == Head(ports)
       IN  IF ports = <<>> THEN tasks' = [tasks EXCEPT ![t] = NoTask] /\ UNCHANGED good
           ELSE Crossed(t, [tasks[t] EXCEPT !.at = "get", !.port = p],
                        {b \in Others(t) : conns[b].port = p}, OthersWith(t, p))
    /\ UNCHANGED <<logged, file, marker, conns, cleanups, reserved, mine, count>>

\* Faulty: the sockets that listen are not looked at.
UsedReserved(listens) == reserved

\* get_used_ports and _reserved_ports
Used(listens) == reserved \cup {conns[b].port : b \in listens}

\* allocate_port, in a thread under a lock.  BotShepherd listens for every
\* connection, unless it is down, or one is switched off, or psutil fails; that
\* it begins to listen while the lock is held is the same as that it does later.
\* A port that was released, and that BotShepherd is yet to hear of, is free.
Allocated(t) ==
    /\ tasks[t].at = "allocate"
    /\ \E listens \in SUBSET Bots :
         /\ IF listens = Bots THEN UNCHANGED count ELSE Trouble
         /\ LET free == (1..MaxPort) \ Used(listens)
                p == Min(free)
            IN  /\ free # {}
                /\ reserved' = reserved \cup {p}
                /\ Crossed(t, [tasks[t] EXCEPT !.port = p, !.at = "read"],
                           {b \in Others(t) \ listens : conns[b].port = p},
                           {u \in OthersWith(t, p) : tasks[u].at \in {"get", "put"}})
    /\ UNCHANGED <<logged, file, marker, conns, cleanups, mine>>

\* _generate_onebot11_config_with_ws_client reads the file, and then writes it.
FileRead(t) ==
    /\ tasks[t].at = "read"
    /\ tasks' = [tasks EXCEPT ![t].read = file[tasks[t].bot].ports, ![t].at = "write"]
    /\ UNCHANGED <<logged, file, marker, conns, cleanups, reserved, good, mine, count>>

\* Faulty: the clients there are, are replaced.
ClientsReplaced(ports, p) == <<p>>

Clients(ports, p) == Append(ports, p)

\* A client of that port in what was read: nothing is written.  Else what another
\* wrote since then is lost (as when the file is read half written: it is empty).
FileWritten(t) ==
    /\ tasks[t].at = "write"
    /\ LET me == tasks[t]
           writes == me.port \notin Range(me.read)
           crossed == writes /\ file[me.bot].ports # me.read
       IN  /\ file' = IF writes THEN [file EXCEPT ![me.bot] = [there |-> TRUE, ports |-> Clients(me.read, me.port)]]
                      ELSE file
           /\ tasks' = [u \in Tasks |->
                LET it == [tasks[u] EXCEPT !.ok = @ /\ ~(crossed /\ tasks[u].bot = me.bot)]
                IN  IF u = t THEN [it EXCEPT !.at = "mark", !.read = <<>>] ELSE it]
           /\ good' = IF crossed THEN good \ {me.bot} ELSE good
    /\ UNCHANGED <<logged, marker, conns, cleanups, reserved, mine, count>>

\* _mark_bs_inject, and release_port; the restart it schedules changes nothing here.
Marked(t) ==
    /\ tasks[t].at = "mark" /\ marker' = marker \cup {tasks[t].bot}
    /\ reserved' = reserved \ {tasks[t].port}
    /\ Moved(t, "get")
    /\ UNCHANGED <<logged, file, conns, cleanups, good, mine, count>>

\* The except clause: the port is released, and BotShepherd told of it all the same.
Fails(t) ==
    /\ Trouble /\ tasks[t].at \in {"read", "write", "mark"}
    /\ reserved' = reserved \ {tasks[t].port}
    /\ IF tasks[t].at = "mark" THEN Moved(t, "get") /\ UNCHANGED good
       ELSE /\ tasks' = [tasks EXCEPT ![t].at = "get", ![t].read = <<>>, ![t].ok = FALSE] /\ good' = good \ {tasks[t].bot}
    /\ UNCHANGED <<logged, file, marker, conns, cleanups, mine>>

-----------------------------------------------------------------------------
(* _async_sync_bs_connection *)

Got(t) ==
    /\ tasks[t].at = "get"
    /\ tasks' = [tasks EXCEPT ![t].conn = conns[tasks[t].bot], ![t].at = "put"]
    /\ UNCHANGED <<logged, file, marker, conns, cleanups, reserved, good, mine, count>>

\* Faulty: the endpoints there are, are not merged.
MergedNot(conn, p) == [port |-> p, manager |-> TRUE, user |-> FALSE]

Merged(conn, p) == [port |-> p, manager |-> TRUE, user |-> conn.user]

\* The user's endpoint is lost if it was added since the connection was read.
Put(t) ==
    /\ tasks[t].at = "put"
    /\ LET me == tasks[t]
       IN  /\ conns' = [conns EXCEPT ![me.bot] = Merged(me.conn, me.port)]
           /\ good' = IF me.ok THEN good \cup {me.bot} ELSE good \ {me.bot}
    /\ tasks' = [tasks EXCEPT ![t] = NoTask]
    /\ UNCHANGED <<logged, file, marker, cleanups, reserved, mine, count>>

\* BotShepherd cannot be asked, or does not answer.
SyncFails(t) ==
    /\ Trouble /\ tasks[t].at \in {"get", "put"}
    /\ tasks' = [tasks EXCEPT ![t] = NoTask]
    /\ UNCHANGED <<logged, file, marker, conns, cleanups, reserved, good, mine>>

Next ==
    \/ \E b \in Bots : Logout(b) \/ NapCatWrites(b) \/ BsCleanup(b) \/ CleanupFails(b) \/ UserAdds(b)
    \/ \E b \in Bots, t \in Tasks : Login(b, t)
    \/ \E b \in Bots, config, all \in BOOLEAN : ClearData(b, config, all)
    \/ \E t \in Tasks :
         \/ FileSeen(t) \/ MarkerSeen(t) \/ Unmarked(t) \/ UrlRead(t) \/ Allocated(t)
         \/ FileRead(t) \/ FileWritten(t) \/ Marked(t) \/ Fails(t)
         \/ Got(t) \/ Put(t) \/ SyncFails(t)
    \/ Restart

Spec == Init /\ [][Next]_vars

-----------------------------------------------------------------------------
Conn == [port : 0..MaxPort, manager : BOOLEAN, user : BOOLEAN]

Detection ==
    [at : {"idle", "file", "marker", "url", "unmark", "allocate", "read", "write", "mark", "get", "put"},
     bot : Bots \cup {NoBot}, found : BOOLEAN, port : 0..MaxPort, read : Seq(1..MaxPort), conn : Conn, ok : BOOLEAN]

TypeOK ==
    /\ {logged, marker, cleanups, good, mine} \subseteq SUBSET Bots /\ reserved \subseteq 1..MaxPort
    /\ file \in [Bots -> [there : BOOLEAN, ports : Seq(1..MaxPort)]]
    /\ conns \in [Bots -> Conn]
    /\ tasks \in [Tasks -> Detection]
    /\ \A t \in Tasks : tasks[t].at = "idle" <=> tasks[t].bot = NoBot
    /\ count \in [logins : 0..MaxLogins, troubles : 0..MaxTroubles]

MeetsBot == \A b \in good : conns[b].manager /\ conns[b].port \in Range(file[b].ports)
PortOfItsOwn == \A b \in good : \A c \in Bots \ {b} : conns[c].port # conns[b].port
EndpointsKept == \A b \in mine : conns[b].user

(* When the detection that ended last was one that nothing disturbed,         *)
(* BotShepherd listens on a port that the bot connects to, and that is no     *)
(* other bot's, and passes on to the manager, though detections overlap and   *)
(* may fail.  Disturbed are those that write a file at the same moment, that  *)
(* cannot write it, and that it is cleared under; and the two sides where a   *)
(* port was handed out, or read from the file, that another has while         *)
(* BotShepherd does not listen on it.  A user's endpoint is kept.             *)
ReachesBot == MeetsBot /\ PortOfItsOwn /\ EndpointsKept

(* A port is reserved exactly while a detection is between its allocation and *)
(* its writing, however it ends: none leaks, and no two detections hold one.  *)
Holding(t) == tasks[t].at \in {"read", "write", "mark"}
ReservedExact ==
    /\ reserved = {tasks[t].port : t \in {u \in Tasks : Holding(u)}}
    /\ \A t, u \in Tasks : Holding(t) /\ Holding(u) /\ t # u => tasks[t].port # tasks[u].port
=============================================================================
