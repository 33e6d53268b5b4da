------------------------------ MODULE Watchdog ------------------------------
(***************************************************************************)
(* BotShepherd's process (services/botshepherd.py: start, stop) and the    *)
(* monitor that restarts it when it has died (bs_activation_service.py),   *)
(* with the handlers that start and stop both (botshepherd_router.py).     *)
(*                                                                         *)
(* Handlers and monitor loops share one event loop.  The process is        *)
(* started in a thread, which goes on when who waits for it is cancelled,  *)
(* but for /start, whose handler starts it itself, as /stop stops it: the  *)
(* event loop is busy then, and threads go on.  What the monitor shows of  *)
(* connections is left out.                                                *)
(***************************************************************************)
EXTENDS Naturals

CONSTANTS Reqs, NoReq,     \* requests of administrators; each may be used again
          Loops, NoLoop,   \* tasks of _monitor_loop; bound on those there are
          Pids, NoPid      \* processes; bound on those that live

WatchdogAssumption == NoReq \notin Reqs /\ NoLoop \notin Loops /\ NoPid \notin Pids /\ Reqs \cap Loops = {}

VARIABLES
    alive,     \* BotShepherd processes that live
    hidden,    \* those of them that a search of command lines does not find
    current,   \* _process of the manager of BotShepherd, while it lives
    flag,      \* _running of the monitor
    task,      \* _task of the monitor
    loops,     \* where each monitor loop is
    starts,    \* who starts the process, and how far: start of botshepherd.py
    reqs,      \* where each request is
    busy,      \* the request that keeps the event loop busy
    calm,      \* was /stop the last that was asked for, with no start under way
    sole       \* did nothing get in the way of the last start of a process

vars == <<alive, hidden, current, flag, task, loops, starts, reqs, busy, calm, sole>>

NoStart  == [at |-> "none", ok |-> FALSE, alone |-> FALSE]
NewStart == [NoStart EXCEPT !.at = "check"]
Idle     == [at |-> "idle", service |-> FALSE, pid |-> NoPid, alone |-> FALSE]

Init ==
    /\ alive = {} /\ hidden = {} /\ current = NoPid /\ flag = FALSE /\ task = NoLoop
    /\ loops = [l \in Loops |-> "none"] /\ starts = [a \in Reqs \cup Loops |-> NoStart]
    /\ reqs = [r \in Reqs |-> Idle] /\ busy = NoReq /\ calm = FALSE /\ sole = TRUE

Up == current # NoPid

\* One that has ended is as good as none to the manager, which asks it (poll).
Ends(p) == alive' = alive \ {p} /\ hidden' = hidden \ {p} /\ current' = IF current = p THEN NoPid ELSE current

StartUnderWay == \E a \in Reqs \cup Loops : starts[a].at # "none"

-----------------------------------------------------------------------------
(* start of botshepherd.py, in a thread *)

Checked(a, installed) ==
    /\ starts[a].at = "check"
    /\ starts' = [starts EXCEPT ![a].at = IF Up \/ ~installed THEN "done" ELSE "kill", ![a].ok = Up]
    /\ UNCHANGED <<alive, hidden, current, flag, task, loops, reqs, busy, calm, sole>>

\* Faulty: no process is killed.
NotKilled == alive

Killed == hidden

\* _kill_stale_bs_process: the processes whose command line names BotShepherd and
\* main.py.  If the search or a kill fails, none or some of them are killed, and
\* the start goes on.
Kills(a, fails) ==
    /\ starts[a].at = "kill"
    /\ alive' \in IF fails THEN {left \in SUBSET alive : hidden \subseteq left} ELSE {Killed}
    /\ current' = IF current \in alive' THEN current ELSE NoPid
    /\ starts' = [starts EXCEPT ![a].at = "spawn", ![a].alone = ~fails]
    /\ UNCHANGED <<hidden, flag, task, loops, reqs, busy, calm, sole>>

\* Which of them is new does not matter.
FreePids == Pids \ (alive \cup {current} \cup {reqs[r].pid : r \in Reqs})

\* Who killed and has not yet spawned is no longer alone.  Without a Python of
\* BotShepherd's own the command line has the manager's, and a bare main.py.
Spawns(a, own) ==
    /\ starts[a].at = "spawn" /\ FreePids # {}
    /\ current' = CHOOSE p \in FreePids : TRUE
    /\ alive' = alive \cup {current'}
    /\ hidden' = IF own THEN hidden ELSE hidden \cup {current'}
    /\ starts' = [b \in DOMAIN starts |->
         IF b = a THEN [starts[b] EXCEPT !.at = "done", !.ok = TRUE, !.alone = FALSE] ELSE [starts[b] EXCEPT !.alone = FALSE]]
    /\ sole' = starts[a].alone
    /\ UNCHANGED <<flag, task, loops, reqs, busy, calm>>

SpawnFails(a) ==
    /\ starts[a].at = "spawn"
    /\ starts' = [starts EXCEPT ![a].at = "done", ![a].alone = FALSE]
    /\ UNCHANGED <<alive, hidden, current, flag, task, loops, reqs, busy, calm, sole>>

-----------------------------------------------------------------------------
(* /start and /activation/start *)

\* A start is asked for: no stop is the last word.
Asked == calm' = FALSE

NotAlone == [r \in Reqs |-> [reqs[r] EXCEPT !.alone = FALSE]]

\* start of the monitor: nothing if it runs, else the process is started first.
Enters(r, others) ==
    IF task # NoLoop /\ loops[task] # "none"
      THEN reqs' = [others EXCEPT ![r] = Idle] /\ starts' = [starts EXCEPT ![r] = NoStart]
      ELSE reqs' = [others EXCEPT ![r].at = "ensuring"] /\ starts' = [starts EXCEPT ![r] = NewStart]

StartService(r) ==
    /\ busy = NoReq /\ reqs[r] = Idle /\ Asked
    /\ reqs' = [NotAlone EXCEPT ![r].at = "blocking"] /\ busy' = r
    /\ starts' = [starts EXCEPT ![r] = NewStart]
    /\ UNCHANGED <<alive, hidden, current, flag, task, loops, sole>>

\* The process runs: the monitor is started, if it does not run.
ServiceStarted(r) ==
    /\ reqs[r].at = "blocking" /\ starts[r].at = "done"
    /\ busy' = NoReq
    /\ IF starts[r].ok /\ ~flag THEN Enters(r, reqs)
       ELSE reqs' = [reqs EXCEPT ![r] = Idle] /\ starts' = [starts EXCEPT ![r] = NoStart]
    /\ UNCHANGED <<alive, hidden, current, flag, task, loops, calm, sole>>

StartMonitor(r) ==
    /\ busy = NoReq /\ reqs[r] = Idle /\ Asked
    /\ Enters(r, NotAlone)
    /\ UNCHANGED <<alive, hidden, current, flag, task, loops, busy, sole>>

FreeLoops == {l \in Loops : loops[l] = "none" /\ starts[l].at = "none"}

\* The thread is back, whether or not it started the process.
MonitorStarted(r) ==
    /\ busy = NoReq /\ reqs[r].at = "ensuring" /\ starts[r].at = "done"
    /\ FreeLoops # {} /\ task' = CHOOSE l \in FreeLoops : TRUE
    /\ loops' = [loops EXCEPT ![task'] = "sleep"]
    /\ flag' = TRUE
    /\ reqs' = [reqs EXCEPT ![r] = Idle] /\ starts' = [starts EXCEPT ![r] = NoStart]
    /\ UNCHANGED <<alive, hidden, current, busy, calm, sole>>

-----------------------------------------------------------------------------
(* _monitor_loop *)

\* Faulty: without BotShepherd there is nothing to monitor.
HeadGivesUp == IF flag /\ Up THEN "sleep" ELSE "none"

\* The head of the loop: it ends, waits before it starts the process, or checks
\* the connections and sleeps.
Head == IF ~flag THEN "none" ELSE IF Up THEN "sleep" ELSE "backoff"

Wakes(l) ==
    /\ busy = NoReq /\ loops[l] = "sleep"
    /\ loops' = [loops EXCEPT ![l] = Head]
    /\ UNCHANGED <<alive, hidden, current, flag, task, starts, reqs, busy, calm, sole>>

\* Faulty: the flag is not looked at again after the wait.
StaysOn == TRUE

Wanted == flag

Retries(l) ==
    /\ busy = NoReq /\ loops[l] = "backoff"
    /\ IF Wanted THEN loops' = [loops EXCEPT ![l] = "starting"] /\ starts' = [starts EXCEPT ![l] = NewStart]
       ELSE loops' = [loops EXCEPT ![l] = "none"] /\ UNCHANGED starts
    /\ UNCHANGED <<alive, hidden, current, flag, task, reqs, busy, calm, sole>>

Restarted(l) ==
    /\ busy = NoReq /\ loops[l] = "starting" /\ starts[l].at = "done"
    /\ loops' = [loops EXCEPT ![l] = IF starts[l].ok THEN "sleep" ELSE Head]
    /\ starts' = [starts EXCEPT ![l] = NoStart]
    /\ UNCHANGED <<alive, hidden, current, flag, task, reqs, busy, calm, sole>>

\* The thread of a loop that was cancelled ends.
Abandoned(l) ==
    /\ loops[l] = "none" /\ starts[l].at = "done"
    /\ starts' = [starts EXCEPT ![l] = NoStart]
    /\ UNCHANGED <<alive, hidden, current, flag, task, loops, reqs, busy, calm, sole>>

-----------------------------------------------------------------------------
(* /stop and /activation/stop *)

\* Faulty: the stop, which takes seconds, leaves the event loop to others.
StopsAside(r, alone) ==
    IF Up
      THEN /\ reqs' = [reqs EXCEPT ![r] = [at |-> "killing", service |-> TRUE, pid |-> current, alone |-> alone]]
           /\ UNCHANGED <<busy, calm>>
      ELSE reqs' = [reqs EXCEPT ![r] = Idle] /\ calm' = alone /\ UNCHANGED busy

\* stop of botshepherd.py: without a process that runs nothing is done.
StopsService(r, alone) ==
    IF Up
      THEN /\ reqs' = [reqs EXCEPT ![r] = [at |-> "killing", service |-> TRUE, pid |-> current, alone |-> alone]]
           /\ busy' = r /\ UNCHANGED calm
      ELSE reqs' = [reqs EXCEPT ![r] = Idle] /\ calm' = alone /\ UNCHANGED busy

\* stop of the monitor: its loop is cancelled, and waited for.
Stop(r, service) ==
    /\ busy = NoReq /\ reqs[r] = Idle
    /\ IF service /\ ~flag
         THEN StopsService(r, ~StartUnderWay) /\ UNCHANGED <<flag, task, loops>>
         ELSE /\ flag' = FALSE /\ task' = NoLoop
              /\ loops' = [l \in Loops |-> IF l = task THEN "none" ELSE loops[l]]
              /\ reqs' = [reqs EXCEPT ![r] = IF task = NoLoop THEN Idle
                            ELSE [Idle EXCEPT !.at = "waiting", !.service = service, !.alone = ~StartUnderWay]]
              /\ UNCHANGED <<busy, calm>>
    /\ UNCHANGED <<alive, hidden, current, starts, sole>>

MonitorStopped(r) ==
    /\ busy = NoReq /\ reqs[r].at = "waiting"
    /\ IF reqs[r].service THEN StopsService(r, reqs[r].alone)
       ELSE reqs' = [reqs EXCEPT ![r] = Idle] /\ UNCHANGED <<busy, calm>>
    /\ UNCHANGED <<alive, hidden, current, flag, task, loops, starts, sole>>

\* It is terminated, or killed after 10 seconds.
Terminated(r) ==
    /\ reqs[r].at = "killing" /\ Ends(reqs[r].pid)
    /\ reqs' = [reqs EXCEPT ![r].at = "killed"]
    /\ UNCHANGED <<flag, task, loops, starts, busy, calm, sole>>

\* The reference is dropped.  If a thread has started another process since, that
\* one is dropped, unless it was the one that was waited for, and killed.
ServiceStopped(r) ==
    /\ reqs[r].at = "killed" /\ current' = NoPid
    /\ alive' \in {alive, alive \ {current}} /\ hidden' = hidden \cap alive' /\ sole' = (sole /\ current \notin alive')
    /\ reqs' = [reqs EXCEPT ![r] = Idle] /\ busy' = NoReq /\ calm' = reqs[r].alone
    /\ UNCHANGED <<flag, task, loops, starts>>

-----------------------------------------------------------------------------
Dies(p) ==
    /\ Ends(p)
    /\ UNCHANGED <<flag, task, loops, starts, reqs, busy, calm, sole>>

\* The manager restarts: in order, when it stops the process before, or after it
\* was killed, when the process lives on.  What it starts then (_auto_start and
\* auto_resume) is as for /start.
Restart(inOrder) ==
    /\ alive' = IF inOrder THEN alive \ {current} ELSE alive
    /\ hidden' = hidden \cap alive' /\ sole' = (alive' \subseteq hidden')
    /\ current' = NoPid /\ flag' = FALSE /\ task' = NoLoop /\ busy' = NoReq /\ calm' = FALSE
    /\ loops' = [l \in Loops |-> "none"] /\ starts' = [a \in Reqs \cup Loops |-> NoStart]
    /\ reqs' = [r \in Reqs |-> Idle]

Threads(a) ==
    \/ \E installed \in BOOLEAN : Checked(a, installed)
    \/ \E fails \in BOOLEAN : Kills(a, fails)
    \/ \E own \in BOOLEAN : Spawns(a, own)
    \/ SpawnFails(a)

Tick(l) == Wakes(l) \/ Retries(l) \/ Restarted(l)

Next ==
    \/ \E a \in Reqs \cup Loops : Threads(a)
    \/ \E r \in Reqs : \/ StartService(r) \/ ServiceStarted(r) \/ StartMonitor(r) \/ MonitorStarted(r)
                       \/ MonitorStopped(r) \/ Terminated(r) \/ ServiceStopped(r)
    \/ \E r \in Reqs, service \in BOOLEAN : Stop(r, service)
    \/ \E l \in Loops : Tick(l) \/ Abandoned(l)
    \/ \E p \in Pids : Dies(p)
    \/ \E inOrder \in BOOLEAN : Restart(inOrder)

Spec == Init /\ [][Next]_vars

-----------------------------------------------------------------------------
Request ==
    [at : {"idle", "blocking", "ensuring", "waiting", "killing", "killed"},
     service : BOOLEAN, pid : Pids \cup {NoPid}, alone : BOOLEAN]

TypeOK ==
    /\ alive \subseteq Pids /\ hidden \subseteq alive /\ current \in Pids \cup {NoPid} /\ busy \in Reqs \cup {NoReq}
    /\ {flag, calm, sole} \subseteq BOOLEAN /\ task \in Loops \cup {NoLoop}
    /\ loops \in [Loops -> {"none", "sleep", "backoff", "starting"}]
    /\ starts \in [Reqs \cup Loops -> [at : {"none", "check", "kill", "spawn", "done"}, ok : BOOLEAN, alone : BOOLEAN]]
    /\ reqs \in [Reqs -> Request]
    /\ \A r \in Reqs : reqs[r].at \in {"blocking", "killing", "killed"} <=> busy = r

(* The flag and the task go together, and what the monitor shows with them,   *)
(* although a start waits for a thread between looking at the one and setting *)
(* both: no start and no stop, overlapping or not, leaves a monitor that is   *)
(* on without a loop, or one that is off and keeps others from starting it.   *)
FlagIsTask == flag <=> task # NoLoop /\ loops[task] # "none"

(* BotShepherd stays down when it was stopped, and nobody asked for a start   *)
(* since, nor was one under way: no loop that is left from starts that        *)
(* overlapped brings it up again.                                             *)
StaysStopped == calm => ~flag /\ ~Up

(* Of the processes that a search of command lines finds there is one, or     *)
(* none, after a start that searched without failing and that no other got in *)
(* the way of, also when some were left behind before: by a manager that was  *)
(* killed, or by starts that overlapped or searched in vain.                  *)
OneProcess == sole => alive \ hidden \subseteq {current}

=============================================================================
