------------------------- MODULE StateEngineProofs -------------------------
(* Theorems about StateEngine, for every set of names, accounts and         *)
(* containers and every combination of report paths.                        *)
EXTENDS StateEngine, TLAPS

-----------------------------------------------------------------------------
(* What the ContainerInstance methods return. *)

LEMMA NewInstType == NewInst \in Inst
  BY DEF NewInst, Inst, Nodes

LEMMA ClearRuntimeType == ASSUME NEW i \in Inst PROVE ClearRuntime(i) \in Inst
  BY DEF ClearRuntime, Inst

LEMMA UpdateLoginType ==
  ASSUME NEW i \in Inst, NEW ok \in BOOLEAN, NEW u \in Uins \cup {NoUin}
  PROVE  UpdateLogin(i, ok, u) \in Inst
  BY DEF UpdateLogin, Inst

LEMMA BeatType == ASSUME NEW i \in Inst, NEW on \in BOOLEAN PROVE Beat(i, on) \in Inst
  BY DEF Beat, Inst

LEMMA UpsertedType ==
  ASSUME inst \in [Names -> Inst], NEW n \in Names,
         NEW l \in [Names -> ContStatus], NEW r \in [Names -> ContStatus],
         l[n] # "absent" \/ r[n] # "absent"
  PROVE  Upserted(n, l, r) \in Inst
<1> DEFINE i == IF n \in known THEN inst[n] ELSE NewInst
           j == IF l[n] = "exited" \/ r[n] = "exited" THEN ClearRuntime(i) ELSE i
<1>1. i \in Inst
  BY NewInstType
<1>2. j \in Inst
  BY <1>1, ClearRuntimeType
<1>3. [j EXCEPT !.node   = IF r[n] # "absent" THEN "remote" ELSE "local",
                !.status = IF r[n] # "absent" THEN r[n] ELSE l[n]] \in Inst
  <2> HIDE DEF j
  <2>1. (IF r[n] # "absent" THEN "remote" ELSE "local") \in Nodes
    BY DEF Nodes
  <2>2. (IF r[n] # "absent" THEN r[n] ELSE l[n]) \in {"exited", "running"}
    BY DEF ContStatus
  <2> QED BY <1>2, <2>1, <2>2 DEF Inst
<1> QED BY <1>3 DEF Upserted

LEMMA WriteType ==
  ASSUME TypeOK, NEW n \in Names, NEW i \in Inst, Write(n, i)
  PROVE  known' \subseteq Names /\ inst' \in [Names -> Inst]
  BY DEF TypeOK, Write

-----------------------------------------------------------------------------
LEMMA InitType == Init => TypeOK
<1> SUFFICES ASSUME Init PROVE TypeOK
  OBVIOUS
<1>1. links \in [Names -> 0..MaxLinks]
  BY LinksAssumption DEF Init
<1>2. inst \in [Names -> Inst]
  BY NewInstType DEF Init
<1>3. localList \in [Names -> ContStatus]
  BY DEF Init, NoList, ContStatus
<1> QED BY <1>1, <1>2, <1>3 DEF Init, TypeOK

LEMMA TickType == TypeOK /\ TickStep => TypeOK'
<1> SUFFICES ASSUME TypeOK, TickStep PROVE TypeOK'
  OBVIOUS
<1> USE DEF TypeOK
<1>1. CASE Wake
  BY <1>1 DEF Wake, PrevRunning, TableRunning, table, ghosts
<1>2. ASSUME NEW l, NEW node \in Nodes, l \in Listing(node)
      PROVE  l \in [Names -> ContStatus]
  BY <1>2 DEF Listing, NoList, Containers, ContStatus
<1>3. CASE ListLocal
  BY <1>2, <1>3 DEF ListLocal, Shown, table, Nodes
<1>4. CASE Refresh
  <2> PICK r \in Listing("remote") : Refresh!2!(r)
    BY <1>4 DEF Refresh
  <2> DEFINE active == {n \in Names : localList[n] # "absent" \/ r[n] # "absent"}
             t == [n \in Names |-> IF n \in active THEN Upserted(n, localList, r) ELSE NewInst]
             curr == TableRunning(active, t)
  <2>1. r \in [Names -> ContStatus]
    BY <1>2 DEF Nodes
  <2>2. t \in [Names -> Inst]
    BY <2>1, UpsertedType, NewInstType
  <2>3. curr \subseteq Containers
    BY DEF TableRunning
  <2> HIDE DEF t, curr
  <2>4. known' \subseteq Names /\ inst' \in [Names -> Inst]
    BY <2>2 DEF table, t
  <2>5. /\ runningLocal' \subseteq Names
        /\ offline' \subseteq Containers /\ online' \subseteq Containers
    BY <2>3 DEF table, t, curr, CameOnline
  <2>6. stopped' \subseteq Containers /\ started' \subseteq Containers
    BY DEF Shown
  <2>7. pc' \in {"wait", "alerts"}
    OBVIOUS
  <2> QED
    BY <1>4, <2>4, <2>5, <2>6, <2>7 DEF Refresh, NoList, ContStatus
<1>5. CASE AlertOffline
  BY <1>5 DEF AlertOffline, table, ghosts
<1>6. CASE AlertOnline
  BY <1>6 DEF AlertOnline, table, ghosts
<1>7. CASE HeartbeatScan
  <2>1. TimedOut \subseteq Names
    BY DEF TimedOut
  <2>2. inst' \in [Names -> Inst]
    <3>1. \A n \in Names : inst[n] \in Inst /\ inst[n].uin \in Uins \cup {NoUin}
      BY DEF Inst
    <3>2. \A n \in Names : UpdateLogin(inst[n], FALSE, inst[n].uin) \in Inst
      BY <3>1, UpdateLoginType
    <3> QED BY <1>7, <3>1, <3>2 DEF HeartbeatScan
  <2>3. lost' \subseteq [name : Names, uin : Uins \cup {NoUin}, node : Nodes]
    BY <1>7, <2>1 DEF HeartbeatScan, Inst
  <2> QED BY <1>7, <2>2, <2>3 DEF HeartbeatScan, ghosts
<1>8. CASE AlertLost
  BY <1>8 DEF AlertLost, table, ghosts
<1>9. CASE QrNext
  BY <1>9 DEF QrNext, table, ghosts
<1>10. CASE QrRead
  <2> PICK n \in reading, q \in {"none", "ok", "expired"} : Write(n, [inst[n] EXCEPT !.qr = q])
    BY <1>10 DEF QrRead
  <2>1. [inst[n] EXCEPT !.qr = q] \in Inst
    BY DEF Inst
  <2> QED BY <1>10, <2>1, WriteType DEF QrRead, ghosts
<1>11. CASE TickEnd
  BY <1>11 DEF TickEnd, table, ghosts
<1> QED
  BY <1>1, <1>3, <1>4, <1>5, <1>6, <1>7, <1>8, <1>9, <1>10, <1>11 DEF TickStep

\* The steps of a handler that writes one instance and leaves the engine alone.
LEMMA HandlerType == TypeOK /\ Handler => TypeOK'
<1> SUFFICES ASSUME TypeOK, Handler PROVE TypeOK'
  OBVIOUS
<1> USE DEF TypeOK, Frame, Notify, tick, ghosts
<1>1. ASSUME NEW n \in Names
      PROVE  /\ inst[n] \in Inst
             /\ inst[n].uin \in Uins \cup {NoUin}
             /\ \A on \in BOOLEAN : Beat(inst[n], on) \in Inst
             /\ \A u \in Uins \cup {NoUin} :
                   LET i == IF u = NoUin THEN inst[n] ELSE UpdateLogin(inst[n], TRUE, u)
                   IN  i \in Inst /\ Beat(i, TRUE) \in Inst
             /\ UpdateLogin(inst[n], FALSE, inst[n].uin) \in Inst
             /\ [UpdateLogin(inst[n], FALSE, inst[n].uin) EXCEPT !.bot_online = FALSE] \in Inst
             /\ [inst[n] EXCEPT !.bot_online = FALSE, !.hb = "none"] \in Inst
  <2>1. inst[n] \in Inst /\ inst[n].uin \in Uins \cup {NoUin}
    BY DEF Inst
  <2>2. \A on \in BOOLEAN : Beat(inst[n], on) \in Inst
    BY <2>1, BeatType
  <2>3. \A u \in Uins \cup {NoUin} : UpdateLogin(inst[n], TRUE, u) \in Inst
    BY <2>1, UpdateLoginType
  <2>4. \A u \in Uins \cup {NoUin} : Beat(UpdateLogin(inst[n], TRUE, u), TRUE) \in Inst
    BY <2>3, BeatType
  <2>5. UpdateLogin(inst[n], FALSE, inst[n].uin) \in Inst
    BY <2>1, UpdateLoginType
  <2>6. [UpdateLogin(inst[n], FALSE, inst[n].uin) EXCEPT !.bot_online = FALSE] \in Inst
    BY <2>5 DEF Inst
  <2>7. [inst[n] EXCEPT !.bot_online = FALSE, !.hb = "none"] \in Inst
    BY <2>1 DEF Inst
  <2> QED BY <2>1, <2>2, <2>3, <2>4, <2>5, <2>6, <2>7
<1>2. ASSUME NEW n \in Names, LinkOpen(n) PROVE TypeOK'
  <2>1. links' \in [Names -> 0..MaxLinks]
    BY <1>2, LinksAssumption DEF LinkOpen
  <2> QED BY <1>1, <1>2, <2>1, WriteType DEF LinkOpen
<1>3. ASSUME NEW n \in Names, LinkHeartbeat(n) PROVE TypeOK'
  BY <1>1, <1>3, WriteType DEF LinkHeartbeat
<1>4. ASSUME NEW n \in Names, NEW u \in Uins \cup {NoUin}, LinkLogin(n, u) PROVE TypeOK'
  BY <1>1, <1>4, WriteType DEF LinkLogin
<1>5. ASSUME NEW n \in Names, NEW u \in Uins \cup {NoUin}, NEW beat \in BOOLEAN,
             HttpLogin(n, u, beat)
      PROVE  TypeOK'
  BY <1>1, <1>5, WriteType DEF HttpLogin
<1>6. ASSUME NEW n \in Names, NEW on \in BOOLEAN, HttpHeartbeat(n, on) PROVE TypeOK'
  BY <1>1, <1>6, WriteType DEF HttpHeartbeat
<1>7. ASSUME NEW n \in Names, LinkLogout(n) PROVE TypeOK'
  BY <1>1, <1>7, WriteType DEF LinkLogout
<1>8. ASSUME NEW n \in Names, LinkClose(n) PROVE TypeOK'
  <2>1. links' \in [Names -> 0..MaxLinks]
    BY <1>8, LinksAssumption DEF LinkClose
  <2> QED BY <1>1, <1>8, <2>1, WriteType DEF LinkClose
<1>9. ASSUME NEW n \in Names, RunAlertTask(n) PROVE TypeOK'
  BY <1>9 DEF RunAlertTask, table
<1>10. ASSUME NEW n \in Names, NEW beat \in BOOLEAN, HttpLogout(n, beat) PROVE TypeOK'
  BY <1>1, <1>10, WriteType DEF HttpLogout
<1>11. ASSUME NEW n \in Names, NEW to \in ContStatus, Remove(n, to) PROVE TypeOK'
  <2>1. <<n, "local">> \in Containers
    BY DEF Containers, Nodes
  <2> QED BY <1>11, <2>1 DEF Remove, Event, table
<1>12. ASSUME NEW n \in Names, DeleteContainer(n) PROVE TypeOK'
  BY <1>11, <1>12 DEF DeleteContainer, ContStatus
<1>13. ASSUME NEW n \in Names, ClearData(n) PROVE TypeOK'
  <2>1. docker[<<n, "local">>] \in ContStatus
    BY DEF Containers, Nodes
  <2> QED BY <1>11, <1>13, <2>1 DEF ClearData, ContStatus
<1>14. ASSUME NEW n \in Names, CleanupInstance(n) PROVE TypeOK'
  BY <1>14, NewInstType DEF CleanupInstance
<1>15. ASSUME NEW u \in Uins, NEW on \in BOOLEAN, OneBotReport(u, on) PROVE TypeOK'
  BY <1>1, <1>15, WriteType DEF OneBotReport
<1> QED
  BY <1>2, <1>3, <1>4, <1>5, <1>6, <1>7, <1>8, <1>9, <1>10, <1>12, <1>13, <1>14, <1>15
  DEF Handler, Report

LEMMA WorldType == TypeOK /\ World => TypeOK'
<1> SUFFICES ASSUME TypeOK, World PROVE TypeOK'
  OBVIOUS
<1> USE DEF TypeOK, tick, ghosts, table, Event
<1>1. ASSUME NEW c \in Deployed, Start(c) PROVE TypeOK'
  BY <1>1, NamesAssumption DEF Start, ContStatus
<1>2. ASSUME NEW c \in Deployed, NEW to \in {"exited", "absent"}, Stop(c, to) PROVE TypeOK'
  BY <1>2, NamesAssumption DEF Stop, ContStatus
<1>3. ASSUME NEW n \in Names, Elapse(n) PROVE TypeOK'
  <2>1. [inst[n] EXCEPT !.hb = "stale"] \in Inst
    BY DEF Inst
  <2>2. inst' \in [Names -> Inst]
    BY <1>3, <2>1 DEF Elapse
  <2> QED BY <1>3, <2>2 DEF Elapse
<1>4. CASE Restart
  <2>1. links' \in [Names -> 0..MaxLinks]
    BY <1>4, LinksAssumption DEF Restart
  <2>2. inst' \in [Names -> Inst] /\ localList' \in [Names -> ContStatus]
    BY <1>4, NewInstType DEF Restart, NoList, ContStatus
  <2> QED BY <1>4, <2>1, <2>2 DEF Restart
<1> QED BY <1>1, <1>2, <1>3, <1>4 DEF World

LEMMA StutterType == TypeOK /\ UNCHANGED vars => TypeOK'
  BY DEF TypeOK, vars, tick, ghosts

(* Every behaviour of the engine and its handlers keeps the table, the tick's *)
(* local variables and the ghosts within their types.                         *)
THEOREM TypeCorrect == Spec => []TypeOK
<1>1. TypeOK /\ [Next]_vars => TypeOK'
  BY TickType, HandlerType, WorldType, StutterType DEF Next
<1> QED BY <1>1, InitType, PTL DEF Spec

-----------------------------------------------------------------------------
(* The handlers touch neither the status nor the node of an instance. *)
SameRunning == TableRunning(known', inst') = TableRunning(known, inst)

LEMMA WriteKeepsRunning ==
  ASSUME TypeOK, NEW n \in Names, NEW i \in Inst,
         i.status = inst[n].status, i.node = inst[n].node, Write(n, i)
  PROVE  SameRunning
  BY DEF TypeOK, Write, TableRunning, SameRunning

LEMMA MethodsKeepRunning ==
  ASSUME NEW i \in Inst
  PROVE  /\ \A on \in BOOLEAN : Beat(i, on).status = i.status /\ Beat(i, on).node = i.node
         /\ \A ok \in BOOLEAN, u \in Uins \cup {NoUin} :
               UpdateLogin(i, ok, u).status = i.status /\ UpdateLogin(i, ok, u).node = i.node
  BY DEF Beat, UpdateLogin, Inst

\* Every step keeps the table's running set, except the refresh, the
\* removal of an instance and a restart.
LEMMA RunningKept ==
  ASSUME TypeOK, [Next]_vars
  PROVE  \/ SameRunning
         \/ Refresh \/ Restart
         \/ \E n \in Names : CleanupInstance(n)
<1> USE DEF TypeOK
<1>1. ASSUME UNCHANGED table PROVE SameRunning
  BY <1>1 DEF table, SameRunning
<1>2. ASSUME NEW n \in Names
      PROVE  /\ inst[n] \in Inst
             /\ inst[n].uin \in Uins \cup {NoUin}
  BY DEF Inst
<1>3. ASSUME NEW n \in Names, NEW on \in BOOLEAN, Write(n, Beat(inst[n], on)) PROVE SameRunning
  BY <1>2, <1>3, BeatType, MethodsKeepRunning, WriteKeepsRunning
<1>4. ASSUME NEW n \in Names, NEW u \in Uins \cup {NoUin},
             NEW i, i = IF u = NoUin THEN inst[n] ELSE UpdateLogin(inst[n], TRUE, u),
             Write(n, i) \/ Write(n, Beat(i, TRUE))
      PROVE  SameRunning
  <2>1. i \in Inst /\ i.status = inst[n].status /\ i.node = inst[n].node
    BY <1>2, <1>4, UpdateLoginType, MethodsKeepRunning
  <2>2. Beat(i, TRUE) \in Inst /\ Beat(i, TRUE).status = i.status /\ Beat(i, TRUE).node = i.node
    BY <2>1, BeatType, MethodsKeepRunning
  <2> QED BY <1>4, <2>1, <2>2, WriteKeepsRunning
<1>5. ASSUME NEW n \in Names,
             NEW i, i = UpdateLogin(inst[n], FALSE, inst[n].uin),
             Write(n, i) \/ Write(n, [i EXCEPT !.bot_online = FALSE])
      PROVE  SameRunning
  <2>1. i \in Inst /\ i.status = inst[n].status /\ i.node = inst[n].node
    BY <1>2, <1>5, UpdateLoginType, MethodsKeepRunning
  <2>2. /\ [i EXCEPT !.bot_online = FALSE] \in Inst
        /\ [i EXCEPT !.bot_online = FALSE].status = i.status
        /\ [i EXCEPT !.bot_online = FALSE].node = i.node
    BY <2>1 DEF Inst
  <2> QED BY <1>5, <2>1, <2>2, WriteKeepsRunning
<1>6. ASSUME NEW n \in Names, LinkClose(n) PROVE SameRunning
  <2> DEFINE i == [inst[n] EXCEPT !.bot_online = FALSE, !.hb = "none"]
  <2>1. i \in Inst /\ i.status = inst[n].status /\ i.node = inst[n].node
    BY <1>2 DEF Inst
  <2>2. Write(n, i)
    BY <1>6 DEF LinkClose
  <2> HIDE DEF i
  <2> QED BY <2>1, <2>2, WriteKeepsRunning
<1>7. ASSUME QrRead PROVE SameRunning
  <2> PICK n \in reading, q \in {"none", "ok", "expired"} : Write(n, [inst[n] EXCEPT !.qr = q])
    BY <1>7 DEF QrRead
  <2> DEFINE i == [inst[n] EXCEPT !.qr = q]
  <2>1. i \in Inst /\ i.status = inst[n].status /\ i.node = inst[n].node
    BY <1>2 DEF Inst
  <2> HIDE DEF i
  <2> QED BY <2>1, WriteKeepsRunning DEF i
<1>8. ASSUME HeartbeatScan PROVE SameRunning
  <2>1. \A n \in Names : inst'[n].status = inst[n].status /\ inst'[n].node = inst[n].node
    BY <1>2, <1>8, MethodsKeepRunning DEF HeartbeatScan
  <2> QED BY <1>8, <2>1 DEF HeartbeatScan, TableRunning, SameRunning
<1>9. ASSUME NEW n \in Names, Elapse(n) PROVE SameRunning
  <2>1. \A m \in Names : inst'[m].status = inst[m].status /\ inst'[m].node = inst[m].node
    BY <1>2, <1>9 DEF Elapse, Inst
  <2> QED BY <1>9, <2>1 DEF Elapse, TableRunning, SameRunning
<1>10. CASE TickStep
  <2>1. Refresh \/ HeartbeatScan \/ QrRead \/ UNCHANGED table
    BY <1>10 DEF TickStep, Wake, ListLocal, AlertOffline, AlertOnline, AlertLost, QrNext, TickEnd, table
  <2> QED BY <1>1, <1>7, <1>8, <2>1
<1>11. ASSUME NEW n \in Names, Report(n) PROVE SameRunning
  <2>1. CASE LinkOpen(n) \/ LinkHeartbeat(n) \/ \E on \in BOOLEAN : HttpHeartbeat(n, on)
    BY <1>3, <2>1 DEF LinkOpen, LinkHeartbeat, HttpHeartbeat
  <2>2. CASE \E u \in Uins \cup {NoUin} : LinkLogin(n, u)
    BY <1>4, <2>2 DEF LinkLogin
  <2>3. CASE \E u \in Uins \cup {NoUin}, beat \in BOOLEAN : HttpLogin(n, u, beat)
    BY <1>4, <2>3 DEF HttpLogin
  <2> QED BY <1>11, <2>1, <2>2, <2>3 DEF Report
<1>12. CASE Handler
  <2>1. ASSUME NEW n \in Names, LinkLogout(n) PROVE SameRunning
    BY <1>5, <2>1 DEF LinkLogout
  <2>2. ASSUME NEW n \in Names, NEW beat \in BOOLEAN, HttpLogout(n, beat) PROVE SameRunning
    BY <1>5, <2>2 DEF HttpLogout
  <2>3. ASSUME NEW n \in Names, RunAlertTask(n) \/ DeleteContainer(n) \/ ClearData(n)
        PROVE  SameRunning
    <3>1. UNCHANGED table
      BY <2>3 DEF RunAlertTask, DeleteContainer, ClearData, Remove
    <3> QED BY <1>1, <3>1
  <2>4. ASSUME NEW u \in Uins, NEW on \in BOOLEAN, OneBotReport(u, on) PROVE SameRunning
    BY <1>3, <2>4 DEF OneBotReport
  <2> QED BY <1>6, <1>11, <1>12, <2>1, <2>2, <2>3, <2>4 DEF Handler
<1>13. CASE World
  <2>1. ASSUME NEW c \in Deployed, Start(c) \/ \E to \in {"exited", "absent"} : Stop(c, to)
        PROVE  SameRunning
    <3>1. UNCHANGED table
      BY <2>1 DEF Start, Stop
    <3> QED BY <1>1, <3>1
  <2> QED BY <1>9, <1>13, <2>1 DEF World
<1>14. CASE UNCHANGED vars
  BY <1>1, <1>14 DEF vars, table
<1> QED BY <1>10, <1>12, <1>13, <1>14 DEF Next

-----------------------------------------------------------------------------
(* While the tick waits for its listings, prev_running covers what the table *)
(* shows as running: nothing but the refresh makes an instance run.           *)
PrevCovers == pc \in {"local", "remote"} => TableRunning(known, inst) \subseteq prevRunning

LEMMA CleanupShrinks ==
  ASSUME TypeOK, NEW n \in Names, CleanupInstance(n)
  PROVE  /\ TableRunning(known', inst') \subseteq TableRunning(known, inst)
         /\ \A c \in TableRunning(known, inst) \ TableRunning(known', inst') : c[1] = n
  BY DEF TypeOK, CleanupInstance, TableRunning

LEMMA PrevCoversStep == TypeOK /\ PrevCovers /\ [Next]_vars => PrevCovers'
<1> SUFFICES ASSUME TypeOK, PrevCovers, [Next]_vars PROVE PrevCovers'
  OBVIOUS
<1>1. CASE Refresh \/ Restart
  BY <1>1 DEF Refresh, Restart, PrevCovers
<1>2. CASE Wake
  BY <1>2 DEF Wake, PrevRunning, PrevCovers, TableRunning, table
<1>3. CASE ~Wake /\ ~Refresh /\ ~Restart
  <2>1. /\ UNCHANGED prevRunning
        /\ pc' \in {"local", "remote"} => pc \in {"local", "remote"}
    <3>1. CASE TickStep
      BY <1>3, <3>1 DEF TickStep, ListLocal, AlertOffline, AlertOnline, HeartbeatScan, AlertLost,
                        QrNext, QrRead, TickEnd
    <3>2. CASE Handler \/ World \/ UNCHANGED vars
      <4>1. UNCHANGED tick
        BY <1>3, <3>2 DEF Handler, World, Report, vars, LinkOpen, LinkLogin, LinkLogout,
              LinkHeartbeat, LinkClose, HttpLogin, HttpLogout, HttpHeartbeat, OneBotReport,
              RunAlertTask, DeleteContainer, ClearData, Remove, CleanupInstance, Start, Stop,
              Elapse, Frame
      <4> QED BY <4>1 DEF tick
    <3> QED BY <3>1, <3>2 DEF Next
  <2>2. TableRunning(known', inst') \subseteq TableRunning(known, inst)
    BY <1>3, RunningKept, CleanupShrinks DEF SameRunning
  <2> QED BY <2>1, <2>2 DEF PrevCovers
<1> QED BY <1>1, <1>2, <1>3

(* An instance leaves the running set only with an offline alert queued, or   *)
(* because a user removed it, or because the manager restarted.               *)
THEOREM NeverDroppedSilently == Spec => RunningNeverDroppedSilently
<1>1. Init => PrevCovers
  BY DEF Init, PrevCovers
<1>2. Spec => []PrevCovers
  BY <1>1, PrevCoversStep, TypeCorrect, PTL DEF Spec
<1> DEFINE Reported ==
      \A c \in TableRunning(known, inst) \ TableRunning(known', inst') :
         c \in offline' \/ c[1] \in removing \ removing' \/ Restart
<1>3. ASSUME TypeOK, PrevCovers, [Next]_vars PROVE Reported
  <2>1. CASE SameRunning \/ Restart
    BY <2>1 DEF SameRunning
  <2>2. CASE Refresh
    <3>1. TableRunning(known, inst) \subseteq prevRunning
      BY <1>3, <2>2 DEF Refresh, PrevCovers
    <3>2. prevRunning \ TableRunning(known', inst') \subseteq offline' \/ UNCHANGED table
      BY <2>2 DEF Refresh
    <3>3. UNCHANGED table => TableRunning(known', inst') = TableRunning(known, inst)
      BY DEF table
    <3> QED BY <3>1, <3>2, <3>3
  <2>3. ASSUME NEW n \in Names, CleanupInstance(n) PROVE Reported
    BY <2>3, <1>3, CleanupShrinks DEF CleanupInstance
  <2> QED BY <1>3, <2>1, <2>2, <2>3, RunningKept
<1>4. TypeOK /\ PrevCovers /\ [Next]_vars => [Reported]_vars
  BY <1>3
<1> QED BY <1>2, <1>4, TypeCorrect, PTL DEF Spec, RunningNeverDroppedSilently

-----------------------------------------------------------------------------
(* Offline alerts are justified.  The ghost set stopped accounts for every   *)
(* copy of "running" the engine still holds: the table, prev_running and the *)
(* local listing of the tick under way.                                      *)
Accounted(c) == docker[c] = "running" \/ c \in stopped

OnlyDeployed ==
    /\ \A c \in Containers \ Deployed : docker[c] = "absent"
    /\ \A n \in Names : localList[n] # "absent" => <<n, "local">> \in Deployed

StoppedAccounts ==
    /\ \A c \in TableRunning(known, inst) \cup prevRunning : Accounted(c)
    /\ \A n \in Names : localList[n] = "running" => Accounted(<<n, "local">>)
    /\ pc = "remote" => \A n \in Names :
          <<n, "local">> \in prevRunning /\ localList[n] # "running" => <<n, "local">> \in stopped
    /\ pc # "alerts" => offline = {}

OfflineInv == OnlyDeployed /\ StoppedAccounts /\ OfflineAlertsJustified

LEMMA Pairs == \A c \in Containers : c[1] \in Names /\ c[2] \in Nodes /\ c = <<c[1], c[2]>>
  BY DEF Containers

LEMMA InitOffline == Init => OfflineInv
<1> SUFFICES ASSUME Init PROVE OfflineInv
  OBVIOUS
<1>1. TableRunning(known, inst) = {}
  BY DEF Init, TableRunning
<1>2. \A n \in Names : localList[n] = "absent"
  BY DEF Init, NoList
<1> QED BY <1>1, <1>2 DEF Init, OfflineInv, OnlyDeployed, StoppedAccounts, OfflineAlertsJustified

\* A step that leaves the tick's listings and alerts alone, adds no running
\* instance to the table and stops no container unnoticed.
LEMMA QuietStep ==
  ASSUME TypeOK, OfflineInv,
         UNCHANGED <<prevRunning, localList, offline, pc>>,
         TableRunning(known', inst') \subseteq TableRunning(known, inst),
         \A c \in Containers : Accounted(c) => Accounted(c)',
         \A c \in Containers \ Deployed : docker'[c] = "absent",
         stopped \subseteq stopped'
  PROVE  OfflineInv'
<1>1. OnlyDeployed'
  BY DEF OfflineInv, OnlyDeployed
<1>2. \A c \in TableRunning(known', inst') \cup prevRunning' : Accounted(c)'
  BY DEF OfflineInv, StoppedAccounts, TableRunning, TypeOK
<1>3. \A n \in Names : localList'[n] = "running" => Accounted(<<n, "local">>)'
  BY DEF OfflineInv, StoppedAccounts, Containers, Nodes
<1>4. pc' = "remote" => \A n \in Names :
        <<n, "local">> \in prevRunning' /\ localList'[n] # "running" => <<n, "local">> \in stopped'
  BY DEF OfflineInv, StoppedAccounts
<1>5. pc' # "alerts" => offline' = {}
  BY DEF OfflineInv, StoppedAccounts
<1>6. offline' \subseteq stopped'
  BY DEF OfflineInv, OfflineAlertsJustified
<1> QED BY <1>1, <1>2, <1>3, <1>4, <1>5, <1>6 DEF OfflineInv, StoppedAccounts, OfflineAlertsJustified

\* A listing that does not fail shows a container running only if it is, and
\* one that is running is shown so.
LEMMA ListingTruth ==
  ASSUME ~ListFails, NEW node \in Nodes, NEW l \in Listing(node)
  PROVE  \A n \in Names : l[n] = docker[<<n, node>>]
  BY DEF Listing

LEMMA OfflineListLocal ==
  ASSUME TypeOK, OfflineInv, ~ListFails, ListLocal
  PROVE  OfflineInv'
<1>1. \A n \in Names : localList'[n] = docker[<<n, "local">>]
  BY ListingTruth DEF ListLocal, Nodes
<1>2. UNCHANGED <<docker, table, prevRunning, offline>> /\ pc = "local" /\ pc' = "remote"
  BY DEF ListLocal
<1>3. \A c \in Containers : Accounted(c) => Accounted(c)'
  BY <1>1, <1>2, Pairs DEF Accounted, ListLocal, Shown
<1>4. OnlyDeployed'
  BY <1>1, <1>2 DEF OfflineInv, OnlyDeployed, Containers, Nodes
<1>5. \A c \in TableRunning(known', inst') \cup prevRunning' : Accounted(c)'
  BY <1>2, <1>3 DEF OfflineInv, StoppedAccounts, TableRunning, TypeOK, table
<1>6. \A n \in Names : localList'[n] = "running" => Accounted(<<n, "local">>)'
  BY <1>1, <1>2 DEF Accounted
<1>7. \A n \in Names :
        <<n, "local">> \in prevRunning' /\ localList'[n] # "running" => <<n, "local">> \in stopped'
  <2> SUFFICES ASSUME NEW n \in Names, <<n, "local">> \in prevRunning, localList'[n] # "running"
               PROVE  <<n, "local">> \in stopped'
    BY <1>2
  <2>1. Accounted(<<n, "local">>)'
    BY <1>2, <1>5
  <2> QED BY <1>1, <1>2, <2>1 DEF Accounted
<1>8. offline' = {}
  BY <1>2 DEF OfflineInv, StoppedAccounts
<1> QED BY <1>2, <1>4, <1>5, <1>6, <1>7, <1>8 DEF OfflineInv, StoppedAccounts, OfflineAlertsJustified

LEMMA OfflineRefresh ==
  ASSUME TypeOK, OfflineInv, ~ListFails, DistinctNames, Refresh
  PROVE  OfflineInv'
<1> PICK r \in Listing("remote") : Refresh!2!(r)
  BY DEF Refresh
<1> DEFINE active == {n \in Names : localList[n] # "absent" \/ r[n] # "absent"}
           t == [n \in Names |-> IF n \in active THEN Upserted(n, localList, r) ELSE NewInst]
           curr == TableRunning(active, t)
<1>1. \A n \in Names : r[n] = docker[<<n, "remote">>]
  BY ListingTruth DEF Nodes
<1>2. /\ UNCHANGED docker /\ pc = "remote" /\ prevRunning' = {} /\ localList' = NoList
      /\ pc' # "alerts" => offline' = offline /\ known' = known /\ inst' = inst
      /\ pc' = "alerts" => known' = active /\ inst' = t /\ offline' = prevRunning \ curr
      /\ pc' \in {"wait", "alerts"}
  BY DEF Refresh, table
<1>3. /\ stopped' = {c \in stopped : ~(c[2] = "remote" /\ r[c[1]] = "running")}
  BY DEF Shown
<1>4. \A c \in Containers : Accounted(c) => Accounted(c)'
  BY <1>1, <1>2, <1>3, Pairs DEF Accounted
<1>5. \A n \in Names : /\ localList[n] = "absent" => r[n] = t[n].status \/ n \notin active
                       /\ r[n] # "absent" => t[n].status = r[n] /\ t[n].node = "remote"
                       /\ r[n] = "absent" /\ n \in active =>
                             t[n].status = localList[n] /\ t[n].node = "local"
  <2> SUFFICES ASSUME NEW n \in active
               PROVE  /\ Upserted(n, localList, r).status = IF r[n] # "absent" THEN r[n] ELSE localList[n]
                      /\ Upserted(n, localList, r).node = IF r[n] # "absent" THEN "remote" ELSE "local"
    BY Zenon
  <2> DEFINE i == IF n \in known THEN inst[n] ELSE NewInst
             j == IF localList[n] = "exited" \/ r[n] = "exited" THEN ClearRuntime(i) ELSE i
  <2>1. i \in Inst
    BY NewInstType DEF TypeOK
  <2>2. j \in Inst
    BY <2>1, ClearRuntimeType
  <2> HIDE DEF j
  <2>3. \A p \in Nodes : \A q : /\ [j EXCEPT !.node = p, !.status = q].status = q
                                /\ [j EXCEPT !.node = p, !.status = q].node = p
    BY <2>2 DEF Inst
  <2> DEFINE x == IF r[n] # "absent" THEN "remote" ELSE "local"
             y == IF r[n] # "absent" THEN r[n] ELSE localList[n]
  <2>4. Upserted(n, localList, r) = [j EXCEPT !.node = x, !.status = y]
    BY DEF Upserted, j
  <2>5. x \in Nodes
    BY DEF Nodes
  <2> HIDE DEF x, y
  <2>6. Upserted(n, localList, r).status = y /\ Upserted(n, localList, r).node = x
    BY <2>3, <2>4, <2>5
  <2> QED BY <2>6 DEF x, y
<1> HIDE DEF t
<1>6. \A c \in curr : Accounted(c)'
  <2> SUFFICES ASSUME NEW c \in curr PROVE Accounted(c)'
    OBVIOUS
  <2>1. c \in Containers /\ c[1] \in active /\ t[c[1]].status = "running" /\ t[c[1]].node = c[2]
    BY DEF TableRunning
  <2>2. CASE r[c[1]] # "absent"
    BY <1>1, <1>2, <1>5, <2>1, <2>2, Pairs DEF Accounted
  <2>3. CASE r[c[1]] = "absent"
    <3>1. c = <<c[1], "local">> /\ localList[c[1]] = "running"
      BY <1>5, <2>1, <2>3, Pairs
    <3> QED BY <1>4, <2>1, <3>1 DEF OfflineInv, StoppedAccounts
  <2> QED BY <2>2, <2>3
<1>7. prevRunning \ curr \subseteq stopped'
  <2> SUFFICES ASSUME NEW c \in prevRunning, c \notin curr PROVE c \in stopped'
    OBVIOUS
  <2>1. c \in Containers /\ c[1] \in Names /\ c = <<c[1], c[2]>> /\ Accounted(c)
    BY Pairs DEF OfflineInv, StoppedAccounts, TypeOK
  <2>2. CASE c[2] = "remote"
    <3>1. r[c[1]] # "running"
      BY <1>5, <2>1, <2>2 DEF TableRunning
    <3> QED BY <1>1, <1>3, <2>1, <2>2, <3>1 DEF Accounted
  <2>3. CASE c[2] = "local"
    <3>1. localList[c[1]] # "running"
      <4> SUFFICES ASSUME localList[c[1]] = "running" PROVE FALSE
        OBVIOUS
      <4>1. <<c[1], "local">> \in Deployed
        BY <2>1 DEF OfflineInv, OnlyDeployed
      <4>2. <<c[1], "remote">> \notin Deployed
        BY <4>1 DEF DistinctNames
      <4>3. r[c[1]] = "absent"
        BY <1>1, <2>1, <4>2 DEF OfflineInv, OnlyDeployed, Containers, Nodes
      <4> QED BY <1>5, <2>1, <2>3, <4>3 DEF TableRunning
    <3>2. c \in stopped
      BY <1>2, <2>1, <2>3, <3>1 DEF OfflineInv, StoppedAccounts
    <3> QED BY <1>3, <2>3, <3>2
  <2>4. c[2] \in Nodes
    BY <2>1, Pairs
  <2> QED BY <2>2, <2>3, <2>4 DEF Nodes
<1>8. \A c \in TableRunning(known', inst') : Accounted(c)'
  <2>1. CASE pc' = "alerts"
    BY <1>2, <1>6, <2>1
  <2>2. CASE pc' # "alerts"
    BY <1>2, <1>4, <2>2 DEF OfflineInv, StoppedAccounts, TableRunning
  <2> QED BY <2>1, <2>2
<1>9. OnlyDeployed'
  BY <1>2 DEF OfflineInv, OnlyDeployed, NoList
<1>10. offline' \subseteq stopped' /\ (pc' # "alerts" => offline' = {})
  BY <1>2, <1>7 DEF OfflineInv, StoppedAccounts
<1> QED BY <1>2, <1>8, <1>9, <1>10 DEF OfflineInv, StoppedAccounts, OfflineAlertsJustified, NoList

LEMMA OfflineStep ==
  ASSUME TypeOK, OfflineInv, ~ListFails, DistinctNames, [Next]_vars
  PROVE  OfflineInv'
<1>1. CASE ListLocal
  BY <1>1, OfflineListLocal
<1>2. CASE Refresh
  BY <1>2, OfflineRefresh
<1>3. CASE Restart
  <2>1. TableRunning(known', inst') = {}
    BY <1>3 DEF Restart, TableRunning
  <2>2. \A n \in Names : localList'[n] = "absent"
    BY <1>3 DEF Restart, NoList
  <2> QED BY <1>3, <2>1, <2>2
          DEF Restart, OfflineInv, OnlyDeployed, StoppedAccounts, OfflineAlertsJustified
<1>4. CASE Wake
  <2>1. prevRunning' = TableRunning(known, inst) /\ UNCHANGED <<docker, known, inst, localList, offline, stopped>>
    BY <1>4 DEF Wake, PrevRunning, table, ghosts
  <2>2. pc = "wait" /\ pc' = "local"
    BY <1>4 DEF Wake
  <2> QED BY <2>1, <2>2 DEF OfflineInv, OnlyDeployed, StoppedAccounts, OfflineAlertsJustified,
                            Accounted, TableRunning
<1>5. CASE ~ListLocal /\ ~Refresh /\ ~Restart /\ ~Wake
  <2>1. TableRunning(known', inst') \subseteq TableRunning(known, inst)
    BY <1>5, RunningKept, CleanupShrinks DEF SameRunning
  <2>2. CASE TickStep
    <3>1. UNCHANGED <<docker, prevRunning, localList, stopped>> /\ pc' \notin {"remote", "local"}
      BY <1>5, <2>2 DEF TickStep, AlertOffline, AlertOnline, HeartbeatScan, AlertLost, QrNext,
                        QrRead, TickEnd, ghosts
    <3>2. offline' \subseteq offline /\ (pc' # "alerts" => offline' = {})
      BY <1>5, <2>2 DEF TickStep, AlertOffline, AlertOnline, HeartbeatScan, AlertLost, QrNext,
                        QrRead, TickEnd, OfflineInv, StoppedAccounts
    <3> QED BY <2>1, <3>1, <3>2 DEF OfflineInv, OnlyDeployed, StoppedAccounts,
                                    OfflineAlertsJustified, Accounted
  <2>3. CASE Handler \/ World \/ UNCHANGED vars
    <3>1. UNCHANGED tick
      BY <1>5, <2>3 DEF Handler, World, Report, vars, LinkOpen, LinkLogin, LinkLogout,
            LinkHeartbeat, LinkClose, HttpLogin, HttpLogout, HttpHeartbeat, OneBotReport,
            RunAlertTask, DeleteContainer, ClearData, Remove, CleanupInstance, Start, Stop,
            Elapse, Frame
    <3> DEFINE Outside == /\ \A c \in Containers : Accounted(c) => Accounted(c)'
                          /\ \A c \in Containers \ Deployed : docker'[c] = "absent"
                          /\ stopped \subseteq stopped'
    <3>2. ASSUME UNCHANGED <<docker, stopped>> PROVE Outside
      BY <3>2 DEF Accounted, OfflineInv, OnlyDeployed
    <3>3. ASSUME NEW c \in Deployed, Start(c) PROVE Outside
      BY <3>3, NamesAssumption DEF Start, Accounted, OfflineInv, OnlyDeployed, TypeOK
    <3>4. ASSUME NEW c \in Deployed, NEW to \in {"exited", "absent"}, Stop(c, to) PROVE Outside
      BY <3>4, NamesAssumption DEF Stop, Accounted, OfflineInv, OnlyDeployed, TypeOK
    <3>5. ASSUME NEW n \in Names, <<n, "local">> \in Deployed, NEW to, Remove(n, to),
                 docker[<<n, "local">>] = "running" => to # "running",
                 to = "running" => docker[<<n, "local">>] = "running"
          PROVE  Outside
      BY <3>5, NamesAssumption DEF Remove, Accounted, OfflineInv, OnlyDeployed, TypeOK
    <3>6. ASSUME NEW n \in Names, DeleteContainer(n) PROVE Outside
      BY <3>5, <3>6 DEF DeleteContainer, OfflineInv, OnlyDeployed, Containers, Nodes
    <3>7. ASSUME NEW n \in Names, ClearData(n) PROVE Outside
      BY <3>5, <3>7 DEF ClearData
    <3>8. ASSUME Handler PROVE Outside
      <4>1. ASSUME NEW n \in Names,
                   Report(n) \/ LinkLogout(n) \/ LinkClose(n) \/ RunAlertTask(n)
                     \/ (\E beat \in BOOLEAN : HttpLogout(n, beat)) \/ CleanupInstance(n)
            PROVE  UNCHANGED <<docker, stopped>>
        BY <4>1 DEF Report, LinkOpen, LinkLogin, LinkLogout, LinkHeartbeat, LinkClose, HttpLogin,
                    HttpLogout, HttpHeartbeat, RunAlertTask, CleanupInstance, Frame, ghosts
      <4>2. ASSUME NEW u \in Uins, NEW on \in BOOLEAN, OneBotReport(u, on)
            PROVE  UNCHANGED <<docker, stopped>>
        BY <4>2 DEF OneBotReport, Frame, ghosts
      <4> QED BY <3>2, <3>6, <3>7, <3>8, <4>1, <4>2 DEF Handler
    <3>9. ASSUME World PROVE Outside
      <4>1. ASSUME NEW n \in Names, Elapse(n) PROVE UNCHANGED <<docker, stopped>>
        BY <4>1 DEF Elapse, ghosts
      <4> QED BY <1>5, <3>2, <3>3, <3>4, <3>9, <4>1 DEF World
    <3>10. ASSUME UNCHANGED vars PROVE Outside
      BY <3>2, <3>10 DEF vars, ghosts
    <3>11. Outside
      BY <2>3, <3>8, <3>9, <3>10
    <3>12. UNCHANGED <<prevRunning, localList, offline, pc>>
      BY <3>1 DEF tick
    <3> QED BY <2>1, <3>11, <3>12, QuietStep
  <2> QED BY <2>2, <2>3 DEF Next
<1> QED BY <1>1, <1>2, <1>3, <1>4, <1>5

(* An instance-stopped alert is queued only for a container that stopped, as  *)
(* long as listings do not fail and no name is used on two nodes.             *)
THEOREM OfflineJustified ==
  ASSUME ~ListFails, DistinctNames
  PROVE  Spec => []OfflineAlertsJustified
<1>1. TypeOK /\ OfflineInv /\ [Next]_vars => OfflineInv'
  BY OfflineStep
<1>2. OfflineInv => OfflineAlertsJustified
  BY DEF OfflineInv
<1> QED BY <1>1, <1>2, InitOffline, TypeCorrect, PTL DEF Spec

-----------------------------------------------------------------------------
(* The online flag and the open plugin WebSockets. *)
OnlineLinked == \A n \in known : inst[n].bot_online => links[n] > 0

\* Bot_online after each method.
LEMMA MethodsOnline ==
  ASSUME NEW i \in Inst
  PROVE  /\ ~ClearRuntime(i).bot_online
         /\ \A on \in BOOLEAN : Beat(i, on).bot_online = on
         /\ \A ok \in BOOLEAN, u \in Uins \cup {NoUin} :
               UpdateLogin(i, ok, u).bot_online = i.bot_online
  BY DEF Beat, UpdateLogin, ClearRuntime, Inst

LEMMA OnlineStep ==
  ASSUME TypeOK, OnlineLinked, Sources = {"ws"}, [Next]_vars
  PROVE  OnlineLinked'
<1> USE DEF TypeOK, OnlineLinked
<1>1. ASSUME NEW n \in Names
      PROVE  inst[n] \in Inst /\ inst[n].uin \in Uins \cup {NoUin} /\ links[n] \in Nat
  BY LinksAssumption DEF Inst
<1>2. ASSUME UNCHANGED <<known, inst, links>> PROVE OnlineLinked'
  BY <1>2
\* Writing i to n while a link of n is open, or i is not online.
<1>3. ASSUME NEW n \in Names, NEW i, Write(n, i), i.bot_online => links'[n] > 0,
             \A m \in Names \ {n} : links'[m] = links[m]
      PROVE  OnlineLinked'
  BY <1>3 DEF Write
<1>4. ASSUME NEW n \in Names, LinkOpen(n) PROVE OnlineLinked'
  <2>1. links'[n] > 0 /\ \A m \in Names \ {n} : links'[m] = links[m]
    BY <1>1, <1>4 DEF LinkOpen
  <2> QED BY <1>3, <1>4, <2>1 DEF LinkOpen
<1>5. ASSUME NEW n \in Names, LinkHeartbeat(n) PROVE OnlineLinked'
  BY <1>3, <1>5 DEF LinkHeartbeat
<1>6. ASSUME NEW n \in Names, NEW u \in Uins \cup {NoUin}, LinkLogin(n, u) PROVE OnlineLinked'
  BY <1>3, <1>6 DEF LinkLogin
<1>7. ASSUME NEW n \in Names, LinkLogout(n) PROVE OnlineLinked'
  <2> DEFINE i == [UpdateLogin(inst[n], FALSE, inst[n].uin) EXCEPT !.bot_online = FALSE]
  <2>1. ~i.bot_online
    BY <1>1, UpdateLoginType DEF Inst
  <2>2. Write(n, i) /\ UNCHANGED links
    BY <1>7 DEF LinkLogout
  <2> HIDE DEF i
  <2> QED BY <1>3, <2>1, <2>2
<1>8. ASSUME NEW n \in Names, LinkClose(n) PROVE OnlineLinked'
  <2> DEFINE i == [inst[n] EXCEPT !.bot_online = FALSE, !.hb = "none"]
  <2>1. ~i.bot_online
    BY <1>1 DEF Inst
  <2>2. Write(n, i) /\ \A m \in Names \ {n} : links'[m] = links[m]
    BY <1>8 DEF LinkClose
  <2> HIDE DEF i
  <2> QED BY <1>3, <2>1, <2>2
<1>9. ASSUME NEW n \in Names, CleanupInstance(n) PROVE OnlineLinked'
  BY <1>9 DEF CleanupInstance
<1>10. CASE Handler
  <2>1. ASSUME NEW n \in Names, Report(n) PROVE OnlineLinked'
    BY <1>4, <1>5, <1>6, <2>1 DEF Report, HttpLogin, HttpHeartbeat
  <2>2. ASSUME NEW n \in Names, RunAlertTask(n) \/ DeleteContainer(n) \/ ClearData(n)
        PROVE  OnlineLinked'
    <3>1. UNCHANGED <<known, inst, links>>
      BY <2>2 DEF RunAlertTask, DeleteContainer, ClearData, Remove, table
    <3> QED BY <1>2, <3>1
  <2> QED BY <1>7, <1>8, <1>9, <1>10, <2>1, <2>2 DEF Handler, HttpLogout, OneBotReport
<1>11. CASE World
  <2>1. ASSUME NEW c \in Deployed, Start(c) \/ \E to \in {"exited", "absent"} : Stop(c, to)
        PROVE  UNCHANGED <<known, inst, links>>
    BY <2>1 DEF Start, Stop, table
  <2>2. ASSUME NEW n \in Names, Elapse(n) PROVE OnlineLinked'
    <3>1. \A m \in known : inst'[m].bot_online = inst[m].bot_online
      BY <1>1, <2>2 DEF Elapse, Inst
    <3> QED BY <2>2, <3>1 DEF Elapse
  <2>3. CASE Restart
    BY <2>3 DEF Restart
  <2> QED BY <1>2, <1>11, <2>1, <2>2, <2>3 DEF World
<1>12. CASE Refresh
  <2> PICK r \in Listing("remote") : Refresh!2!(r)
    BY <1>12 DEF Refresh
  <2>1. ASSUME NEW n \in known' PROVE inst'[n].bot_online => n \in known /\ inst[n].bot_online
    <3> DEFINE i == IF n \in known THEN inst[n] ELSE NewInst
               j == IF localList[n] = "exited" \/ r[n] = "exited" THEN ClearRuntime(i) ELSE i
    <3>1. CASE UNCHANGED table
      BY <2>1, <3>1 DEF table
    <3>2. CASE ~UNCHANGED table
      <4>1. n \in Names /\ inst'[n] = Upserted(n, localList, r)
        BY <2>1, <3>2
      <4>2. i \in Inst /\ (i.bot_online => n \in known /\ inst[n].bot_online)
        BY <4>1, NewInstType DEF NewInst
      <4>3. j \in Inst /\ (j.bot_online => i.bot_online)
        <5> HIDE DEF i
        <5> QED BY <4>2, ClearRuntimeType, MethodsOnline
      <4>4. Upserted(n, localList, r).bot_online = j.bot_online
        <5>1. \A p, q : [j EXCEPT !.node = p, !.status = q].bot_online = j.bot_online
          <6> HIDE DEF j
          <6> QED BY <4>3 DEF Inst
        <5>2. Upserted(n, localList, r)
                = [j EXCEPT !.node = IF r[n] # "absent" THEN "remote" ELSE "local",
                            !.status = IF r[n] # "absent" THEN r[n] ELSE localList[n]]
          BY DEF Upserted
        <5> HIDE DEF j
        <5> QED BY <5>1, <5>2
      <4> QED BY <4>1, <4>2, <4>3, <4>4
    <3> QED BY <3>1, <3>2
  <2>2. UNCHANGED links
    BY <1>12 DEF Refresh
  <2> QED BY <2>1, <2>2
<1>13. CASE HeartbeatScan
  <2>1. \A n \in Names : inst'[n].bot_online = inst[n].bot_online
    BY <1>1, <1>13, MethodsOnline DEF HeartbeatScan
  <2> QED BY <1>13, <2>1 DEF HeartbeatScan
<1>14. CASE QrRead
  <2> PICK n \in reading, q \in {"none", "ok", "expired"} : Write(n, [inst[n] EXCEPT !.qr = q])
    BY <1>14 DEF QrRead
  <2> DEFINE i == [inst[n] EXCEPT !.qr = q]
  <2>1. i.bot_online = inst[n].bot_online
    BY <1>1 DEF Inst
  <2>2. UNCHANGED links
    BY <1>14 DEF QrRead
  <2> HIDE DEF i
  <2> QED BY <2>1, <2>2 DEF i, Write
<1>15. CASE TickStep
  <2>1. Refresh \/ HeartbeatScan \/ QrRead \/ UNCHANGED <<known, inst, links>>
    BY <1>15 DEF TickStep, Wake, ListLocal, AlertOffline, AlertOnline, AlertLost, QrNext, TickEnd, table
  <2> QED BY <1>2, <1>12, <1>13, <1>14, <2>1
<1> QED BY <1>2, <1>10, <1>11, <1>15 DEF Next, vars

(* An instance is shown online only while a plugin WebSocket is open, when    *)
(* that is the only report path.                                              *)
THEOREM OnlineHasLink == Spec => []OnlineOnlyWithLink
<1>1. Init => OnlineLinked
  BY DEF Init, OnlineLinked
<1>2. CASE Sources = {"ws"}
  <2>1. TypeOK /\ OnlineLinked /\ [Next]_vars => OnlineLinked'
    BY <1>2, OnlineStep
  <2>2. OnlineLinked => OnlineOnlyWithLink
    BY DEF OnlineLinked, OnlineOnlyWithLink
  <2> QED BY <1>1, <2>1, <2>2, TypeCorrect, PTL DEF Spec
<1>3. CASE Sources # {"ws"}
  <2>1. OnlineOnlyWithLink
    BY <1>3 DEF OnlineOnlyWithLink
  <2> QED BY <2>1, PTL
<1> QED BY <1>2, <1>3

-----------------------------------------------------------------------------
(* "Instance online" alerts, the QR code cache, and logins that end in      *)
(* silence.  The first two are about names the engine remembers across      *)
(* awaits, the last about every handler that can end a login.               *)

-----------------------------------------------------------------------------
(* What the handlers and the world leave alone. *)

\* Only the tick and a restart touch the tick's variables.
LEMMA TickKept ==
  ASSUME Handler \/ World \/ UNCHANGED vars, ~Restart
  PROVE  UNCHANGED <<tick, initialized>>
  BY DEF Handler, World, Report, vars, LinkOpen, LinkLogin, LinkLogout, LinkHeartbeat,
         LinkClose, HttpLogin, HttpLogout, HttpHeartbeat, OneBotReport, RunAlertTask,
         DeleteContainer, ClearData, Remove, CleanupInstance, Start, Stop, Elapse, Frame

\* Only Docker and the two requests that go to it change a container.
LEMMA DockerKept ==
  ASSUME [Next]_vars
  PROVE  \/ ListLocal \/ Refresh \/ Restart
         \/ UNCHANGED <<docker, removing, started>>
         \/ \E c \in Deployed : Start(c) \/ \E to \in {"exited", "absent"} : Stop(c, to)
         \/ \E n \in Names : DeleteContainer(n) \/ ClearData(n) \/ CleanupInstance(n)
<1>1. CASE TickStep
  BY <1>1 DEF TickStep, Wake, ListLocal, Refresh, AlertOffline, AlertOnline, HeartbeatScan,
              AlertLost, QrNext, QrRead, TickEnd, ghosts
<1>2. ASSUME NEW n \in Names,
             Report(n) \/ LinkLogout(n) \/ LinkClose(n) \/ RunAlertTask(n)
               \/ (\E beat \in BOOLEAN : HttpLogout(n, beat))
      PROVE  UNCHANGED <<docker, removing, started>>
  BY <1>2 DEF Report, LinkOpen, LinkLogin, LinkLogout, LinkHeartbeat, LinkClose, HttpLogin,
              HttpLogout, HttpHeartbeat, RunAlertTask, Frame, ghosts
<1>3. ASSUME NEW u \in Uins, NEW on \in BOOLEAN, OneBotReport(u, on)
      PROVE  UNCHANGED <<docker, removing, started>>
  BY <1>3 DEF OneBotReport, Frame, ghosts
<1>4. CASE Handler
  BY <1>2, <1>3, <1>4 DEF Handler
<1>5. ASSUME NEW n \in Names, Elapse(n) PROVE UNCHANGED <<docker, removing, started>>
  BY <1>5 DEF Elapse, ghosts
<1>6. CASE World
  BY <1>5, <1>6 DEF World
<1>7. CASE UNCHANGED vars
  BY <1>7 DEF vars, ghosts
<1> QED BY <1>1, <1>4, <1>6, <1>7 DEF Next

-----------------------------------------------------------------------------
(* Only deployed containers exist, and listings show no other. *)
LEMMA DeployedStep == TypeOK /\ OnlyDeployed /\ [Next]_vars => OnlyDeployed'
<1> SUFFICES ASSUME TypeOK, OnlyDeployed, [Next]_vars PROVE OnlyDeployed'
  OBVIOUS
<1> USE NamesAssumption DEF OnlyDeployed
<1> DEFINE Same == \A c \in Containers \ Deployed : docker'[c] = "absent"
<1>1. Same
  <2>1. ASSUME UNCHANGED docker PROVE Same
    BY <2>1
  <2>2. ASSUME NEW c \in Deployed, Start(c) PROVE Same
    BY <2>2 DEF Start, TypeOK
  <2>3. ASSUME NEW c \in Deployed, NEW to, Stop(c, to) PROVE Same
    BY <2>3 DEF Stop, TypeOK
  <2>4. ASSUME NEW n \in Names, <<n, "local">> \in Deployed, NEW to, Remove(n, to) PROVE Same
    BY <2>4 DEF Remove, TypeOK
  <2>5. ASSUME NEW n \in Names, DeleteContainer(n) PROVE Same
    BY <2>4, <2>5 DEF DeleteContainer, Containers, Nodes
  <2>6. ASSUME NEW n \in Names, ClearData(n) PROVE Same
    BY <2>4, <2>6 DEF ClearData
  <2>7. ASSUME ListLocal \/ Refresh \/ Restart \/ \E n \in Names : CleanupInstance(n)
        PROVE  UNCHANGED docker
    BY <2>7 DEF ListLocal, Refresh, Restart, CleanupInstance
  <2> QED BY <2>1, <2>2, <2>3, <2>5, <2>6, <2>7, DockerKept
<1>2. \A n \in Names : localList'[n] # "absent" => <<n, "local">> \in Deployed
  <2>1. ASSUME ListLocal
        PROVE  \A n \in Names : localList'[n] = docker[<<n, "local">>] \/ localList'[n] = "absent"
    BY <2>1 DEF ListLocal, Listing, NoList
  <2>2. CASE ListLocal
    BY <2>1, <2>2 DEF Containers, Nodes
  <2>3. CASE Refresh \/ Restart
    BY <2>3 DEF Refresh, Restart, NoList
  <2>4. CASE ~ListLocal /\ ~Refresh /\ ~Restart
    <3>1. ASSUME TickStep PROVE UNCHANGED localList
      BY <2>4, <3>1 DEF TickStep, Wake, AlertOffline, AlertOnline, HeartbeatScan, AlertLost,
                        QrNext, QrRead, TickEnd
    <3>2. UNCHANGED localList
      BY <2>4, <3>1, TickKept DEF Next, tick
    <3> QED BY <3>2
  <2> QED BY <2>2, <2>3, <2>4
<1> QED BY <1>1, <1>2

LEMMA DeployedInit == Init => OnlyDeployed
  BY DEF Init, OnlyDeployed, NoList

LEMMA DeployedAlways == Spec => []OnlyDeployed
<1> QED BY DeployedInit, DeployedStep, TypeCorrect, PTL DEF Spec

\* Where names are distinct, a name listed locally is absent remotely.
LEMMA OneNode ==
  ASSUME OnlyDeployed, DistinctNames, NEW n \in Names, <<n, "local">> \in Deployed
  PROVE  docker[<<n, "remote">>] = "absent"
<1>1. <<n, "remote">> \notin Deployed
  BY DEF DistinctNames
<1> QED BY <1>1 DEF OnlyDeployed, Containers, Nodes

\* What an upsert of one refresh makes of an instance.
LEMMA UpsertedFields ==
  ASSUME TypeOK, NEW n \in Names, NEW l, NEW r
  PROVE  /\ Upserted(n, l, r).status = IF r[n] # "absent" THEN r[n] ELSE l[n]
         /\ Upserted(n, l, r).node = IF r[n] # "absent" THEN "remote" ELSE "local"
         /\ l[n] = "exited" \/ r[n] = "exited" => Upserted(n, l, r).qr = "none"
<1> DEFINE i == IF n \in known THEN inst[n] ELSE NewInst
           j == IF l[n] = "exited" \/ r[n] = "exited" THEN ClearRuntime(i) ELSE i
           x == IF r[n] # "absent" THEN "remote" ELSE "local"
           y == IF r[n] # "absent" THEN r[n] ELSE l[n]
<1>1. i \in Inst
  BY NewInstType DEF TypeOK
<1>2. j \in Inst
  BY <1>1, ClearRuntimeType
<1>3. l[n] = "exited" \/ r[n] = "exited" => j.qr = "none"
  BY <1>1 DEF ClearRuntime, Inst
<1>4. Upserted(n, l, r) = [j EXCEPT !.node = x, !.status = y]
  BY DEF Upserted
<1> HIDE DEF j, x, y
<1>5. /\ [j EXCEPT !.node = x, !.status = y].status = y
      /\ [j EXCEPT !.node = x, !.status = y].node = x
      /\ [j EXCEPT !.node = x, !.status = y].qr = j.qr
  BY <1>2 DEF Inst
<1>6. Upserted(n, l, r).status = y /\ Upserted(n, l, r).node = x /\ Upserted(n, l, r).qr = j.qr
  BY <1>4, <1>5, Zenon
<1> QED BY <1>3, <1>6 DEF x, y

-----------------------------------------------------------------------------
(* Online alerts are justified.  A container that runs is either held as     *)
(* running by the engine, in the copy the next difference is taken from, or  *)
(* the ghost set started accounts for it.                                    *)
Fresh(c) == docker[c] = "running" => c \in started

RemovedFresh == \A n \in removing : <<n, "local">> \in Deployed /\ Fresh(<<n, "local">>)

TableAccounts ==
    initialized \/ pc = "alerts" => \A c \in Containers : c \in TableRunning(known, inst) \/ Fresh(c)

TickAccounts ==
    /\ initialized /\ pc \in {"local", "remote"} =>
          \A c \in Containers : c \in prevRunning \/ Fresh(c)
    /\ pc = "remote" => \A n \in Names : localList[n] # "running" => Fresh(<<n, "local">>)
    /\ initialized /\ pc = "remote" => \A n \in Names :
          localList[n] = "running" => <<n, "local">> \in prevRunning \cup started
    /\ pc # "alerts" => online = {}

OnlineInv == RemovedFresh /\ TableAccounts /\ TickAccounts /\ OnlineAlertsJustified

LEMMA InitOnline == Init => OnlineInv
  BY DEF Init, OnlineInv, RemovedFresh, TableAccounts, TickAccounts, OnlineAlertsJustified

LEMMA OnlineListLocal ==
  ASSUME TypeOK, OnlineInv, ~ListFails, ListLocal
  PROVE  OnlineInv'
<1>1. \A n \in Names : localList'[n] = docker[<<n, "local">>]
  BY ListingTruth DEF ListLocal, Nodes
<1>2. /\ UNCHANGED <<docker, known, inst, removing, initialized, prevRunning, online>>
      /\ pc = "local" /\ pc' = "remote"
      /\ started' = {c \in started : ~(c[2] = "local" /\ localList'[c[1]] # "running")}
  BY DEF ListLocal, Shown, table
<1>3. \A c \in Containers : Fresh(c) => Fresh(c)'
  BY <1>1, <1>2, Pairs DEF Fresh
<1>4. \A n \in Names : <<n, "local">> \in Containers
  BY DEF Containers, Nodes
<1>5. RemovedFresh'
  BY <1>2, <1>3, <1>4 DEF OnlineInv, RemovedFresh, TypeOK
<1>6. TableAccounts'
  BY <1>2, <1>3 DEF OnlineInv, TableAccounts, TableRunning
<1>7. \A n \in Names : localList'[n] # "running" => Fresh(<<n, "local">>)'
  BY <1>1, <1>2 DEF Fresh
<1>8. initialized' => \A c \in Containers : c \in prevRunning' \/ Fresh(c)'
  BY <1>2, <1>3 DEF OnlineInv, TickAccounts
<1>9. initialized' => \A n \in Names :
        localList'[n] = "running" => <<n, "local">> \in prevRunning' \cup started'
  BY <1>1, <1>2, <1>4, <1>8 DEF Fresh
<1>10. TickAccounts' /\ OnlineAlertsJustified'
  BY <1>2, <1>7, <1>8, <1>9 DEF TickAccounts, OnlineAlertsJustified, OnlineInv
<1> QED BY <1>5, <1>6, <1>10 DEF OnlineInv

LEMMA OnlineRefresh ==
  ASSUME TypeOK, OnlyDeployed, OnlineInv, ~ListFails, DistinctNames, Refresh
  PROVE  OnlineInv'
<1> PICK r \in Listing("remote") : Refresh!2!(r)
  BY DEF Refresh
<1> DEFINE active == {n \in Names : localList[n] # "absent" \/ r[n] # "absent"}
           t == [n \in Names |-> IF n \in active THEN Upserted(n, localList, r) ELSE NewInst]
           curr == TableRunning(active, t)
<1>1. \A n \in Names : r[n] = docker[<<n, "remote">>]
  BY ListingTruth DEF Nodes
<1>2. /\ UNCHANGED <<docker, removing, initialized>> /\ pc = "remote"
      /\ \/ active = {} /\ known = {} /\ pc' = "wait" /\ UNCHANGED <<known, inst, online>>
         \/ pc' = "alerts" /\ known' = active /\ inst' = t /\ online' = CameOnline(curr)
  BY DEF Refresh, table
<1>3. started' = {c \in started : ~(c[2] = "remote" /\ r[c[1]] # "running")}
  BY DEF Shown
<1>4. \A c \in Containers : Fresh(c) => Fresh(c)'
  BY <1>1, <1>2, <1>3, Pairs DEF Fresh
<1>5. \A n \in active : /\ t[n].status = IF r[n] # "absent" THEN r[n] ELSE localList[n]
                        /\ t[n].node = IF r[n] # "absent" THEN "remote" ELSE "local"
  BY UpsertedFields
<1> HIDE DEF t
<1>6. \A c \in Containers : c[2] = "remote" /\ docker[c] = "running" => c \in curr
  BY <1>1, <1>5, Pairs DEF TableRunning
<1>7. \A n \in Names : localList[n] = "running" => r[n] = "absent" /\ <<n, "local">> \in curr
  <2> SUFFICES ASSUME NEW n \in Names, localList[n] = "running"
               PROVE  r[n] = "absent" /\ <<n, "local">> \in curr
    OBVIOUS
  <2>1. r[n] = "absent"
    BY <1>1, OneNode DEF OnlyDeployed
  <2> QED BY <1>5, <2>1 DEF TableRunning, Containers, Nodes
<1>8. \A c \in Containers : c \in curr \/ Fresh(c)'
  <2> SUFFICES ASSUME NEW c \in Containers, c \notin curr PROVE Fresh(c)'
    OBVIOUS
  <2>1. CASE c[2] = "remote"
    BY <1>2, <1>6, <2>1 DEF Fresh
  <2>2. CASE c[2] = "local"
    <3>1. c = <<c[1], "local">> /\ c[1] \in Names
      BY <2>2, Pairs
    <3>2. localList[c[1]] # "running"
      BY <1>7, <3>1
    <3> QED BY <1>2, <1>4, <3>1, <3>2 DEF OnlineInv, TickAccounts
  <2> QED BY <2>1, <2>2, Pairs DEF Nodes
<1>9. \A c \in curr : initialized => c \in prevRunning \cup started'
  <2> SUFFICES ASSUME NEW c \in curr, initialized PROVE c \in prevRunning \cup started'
    OBVIOUS
  <2>1. c \in Containers /\ c[1] \in active /\ t[c[1]].status = "running" /\ t[c[1]].node = c[2]
        /\ c[1] \in Names /\ c = <<c[1], c[2]>>
    BY Pairs DEF TableRunning
  <2>2. CASE r[c[1]] # "absent"
    <3>1. c[2] = "remote" /\ r[c[1]] = "running" /\ docker[c] = "running"
      BY <1>1, <1>5, <2>1, <2>2
    <3>2. c \in prevRunning \/ c \in started
      BY <1>2, <2>1, <3>1 DEF OnlineInv, TickAccounts, Fresh
    <3> QED BY <1>3, <3>1, <3>2
  <2>3. CASE r[c[1]] = "absent"
    <3>1. c[2] = "local" /\ localList[c[1]] = "running"
      BY <1>5, <2>1, <2>3
    <3>2. <<c[1], "local">> \in prevRunning \cup started
      BY <1>2, <2>1, <3>1 DEF OnlineInv, TickAccounts
    <3> QED BY <1>3, <2>1, <3>1, <3>2
  <2> QED BY <2>2, <2>3
<1>10. CameOnline(curr) \subseteq started'
  BY <1>9 DEF CameOnline, TableRunning
<1>11. RemovedFresh'
  BY <1>2, <1>4 DEF OnlineInv, RemovedFresh, TypeOK, Containers, Nodes
<1>12. TableAccounts'
  <2>1. CASE pc' = "wait"
    BY <1>2, <1>4, <2>1 DEF OnlineInv, TableAccounts, TableRunning
  <2>2. CASE pc' = "alerts"
    BY <1>2, <1>8, <2>2 DEF TableAccounts
  <2> QED BY <1>2, <2>1, <2>2
<1>13. TickAccounts' /\ OnlineAlertsJustified'
  BY <1>2, <1>10 DEF OnlineInv, TickAccounts, OnlineAlertsJustified
<1> QED BY <1>11, <1>12, <1>13 DEF OnlineInv

\* A step that leaves the tick alone, forgets no start, and takes nothing
\* that runs unaccounted for out of the table.
LEMMA OnlineQuiet ==
  ASSUME TypeOK, OnlineInv, UNCHANGED <<tick, initialized>>,
         \A c \in Containers : Fresh(c) => Fresh(c)',
         started \subseteq started',
         RemovedFresh',
         \A c \in TableRunning(known, inst) : c \in TableRunning(known', inst') \/ Fresh(c)'
  PROVE  OnlineInv'
<1>1. UNCHANGED <<pc, prevRunning, localList, online, initialized>>
  BY DEF tick
<1>2. TableAccounts'
  BY <1>1 DEF OnlineInv, TableAccounts
<1>3. TickAccounts'
  BY <1>1 DEF OnlineInv, TickAccounts, Containers, Nodes
<1>4. OnlineAlertsJustified'
  BY <1>1 DEF OnlineInv, OnlineAlertsJustified
<1> QED BY <1>2, <1>3, <1>4 DEF OnlineInv

LEMMA StartedStep ==
  ASSUME TypeOK, OnlyDeployed, OnlineInv, ~ListFails, DistinctNames, [Next]_vars
  PROVE  OnlineInv'
<1>1. CASE ListLocal
  BY <1>1, OnlineListLocal
<1>2. CASE Refresh
  BY <1>2, OnlineRefresh
<1>3. CASE Restart
  BY <1>3 DEF Restart, OnlineInv, RemovedFresh, TableAccounts, TickAccounts, OnlineAlertsJustified
<1>4. CASE TickStep /\ ~ListLocal /\ ~Refresh
  <2>1. UNCHANGED <<docker, removing, started>>
    BY <1>4 DEF TickStep, Wake, AlertOffline, AlertOnline, HeartbeatScan, AlertLost, QrNext,
                QrRead, TickEnd, ghosts
  <2>2. TableRunning(known', inst') = TableRunning(known, inst)
    BY <1>4, RunningKept DEF SameRunning, TickStep, Wake, AlertOffline, AlertOnline,
          HeartbeatScan, AlertLost, QrNext, QrRead, TickEnd, Restart, CleanupInstance, Next, table
  <2>3. online' \subseteq online /\ pc' # "remote" /\ (pc' # "alerts" => online' = {})
    BY <1>4 DEF TickStep, Wake, AlertOffline, AlertOnline, HeartbeatScan, AlertLost, QrNext,
                QrRead, TickEnd, OnlineInv, TickAccounts
  <2>4. pc' = "local" => prevRunning' = TableRunning(known, inst) /\ UNCHANGED initialized
    BY <1>4 DEF TickStep, Wake, AlertOffline, AlertOnline, HeartbeatScan, AlertLost, QrNext,
                QrRead, TickEnd, PrevRunning
  <2>5. (pc' = "alerts" => pc = "alerts") /\ (pc = "alerts" \/ UNCHANGED initialized)
    BY <1>4 DEF TickStep, Wake, AlertOffline, AlertOnline, HeartbeatScan, AlertLost, QrNext,
                QrRead, TickEnd
  <2>6. TableAccounts'
    BY <2>1, <2>2, <2>5 DEF OnlineInv, TableAccounts, Fresh
  <2>7. TickAccounts'
    BY <2>1, <2>3, <2>4 DEF OnlineInv, TableAccounts, TickAccounts, Fresh
  <2>8. RemovedFresh' /\ OnlineAlertsJustified'
    BY <2>1, <2>3 DEF OnlineInv, RemovedFresh, OnlineAlertsJustified, Fresh
  <2> QED BY <2>6, <2>7, <2>8 DEF OnlineInv
<1>5. CASE (Handler \/ World \/ UNCHANGED vars) /\ ~ListLocal /\ ~Refresh /\ ~Restart
  <2>1. UNCHANGED <<tick, initialized>>
    BY <1>5, TickKept
  <2>2. ASSUME UNCHANGED <<docker, removing, started>>, ~\E n \in Names : CleanupInstance(n)
        PROVE  OnlineInv'
    <3>1. SameRunning
      BY <1>5, <2>2, RunningKept
    <3> QED BY <2>1, <2>2, <3>1, OnlineQuiet DEF SameRunning, Fresh, RemovedFresh, OnlineInv
  <2>3. ASSUME UNCHANGED table, UNCHANGED removing, started \subseteq started',
               \A c \in Containers : Fresh(c) => Fresh(c)'
        PROVE  OnlineInv'
    BY <2>1, <2>3, OnlineQuiet DEF table, RemovedFresh, OnlineInv, TypeOK, Containers, Nodes
  <2>4. ASSUME NEW c \in Deployed, Start(c) PROVE OnlineInv'
    BY <2>3, <2>4, NamesAssumption DEF Start, Fresh, TypeOK
  <2>5. ASSUME NEW c \in Deployed, NEW to \in {"exited", "absent"}, Stop(c, to) PROVE OnlineInv'
    BY <2>3, <2>5, NamesAssumption DEF Stop, Fresh, TypeOK
  <2>6. ASSUME NEW n \in Names, <<n, "local">> \in Deployed, NEW to, to # "running", Remove(n, to)
        PROVE  OnlineInv'
    <3>1. /\ docker' = [docker EXCEPT ![<<n, "local">>] = to]
          /\ removing' = removing \cup {n} /\ UNCHANGED <<table, started>>
      BY <2>6 DEF Remove
    <3>2. \A c \in Containers : Fresh(c) => Fresh(c)'
      BY <2>6, <3>1 DEF Fresh, TypeOK
    <3>3. Fresh(<<n, "local">>)'
      BY <2>6, <3>1 DEF Fresh, TypeOK, Containers, Nodes
    <3>4. RemovedFresh'
      BY <2>6, <3>1, <3>2, <3>3 DEF RemovedFresh, OnlineInv, TypeOK, Containers, Nodes
    <3> QED BY <2>1, <3>1, <3>2, <3>4, OnlineQuiet DEF table
  <2>7. ASSUME NEW n \in Names, DeleteContainer(n) PROVE OnlineInv'
    BY <2>6, <2>7 DEF DeleteContainer, OnlyDeployed, Containers, Nodes
  <2>8. ASSUME NEW n \in Names, ClearData(n) PROVE OnlineInv'
    <3>1. (IF docker[<<n, "local">>] = "running" THEN "exited" ELSE docker[<<n, "local">>]) # "running"
      OBVIOUS
    <3> QED BY <2>6, <2>8, <3>1 DEF ClearData
  <2>9. ASSUME NEW n \in Names, CleanupInstance(n) PROVE OnlineInv'
    <3>1. UNCHANGED <<docker, started>> /\ n \in removing /\ removing' = removing \ {n}
      BY <2>9 DEF CleanupInstance, ghosts
    <3>2. \A c \in Containers : c[1] = n => Fresh(c)'
      <4>1. Fresh(<<n, "local">>) /\ <<n, "local">> \in Deployed
        BY <3>1 DEF OnlineInv, RemovedFresh
      <4>2. docker[<<n, "remote">>] = "absent"
        BY <4>1, OneNode
      <4> QED BY <3>1, <4>1, <4>2, Pairs DEF Fresh, Nodes
    <3>3. \A c \in TableRunning(known, inst) : c \in TableRunning(known', inst') \/ Fresh(c)'
      BY <2>9, <3>2, CleanupShrinks DEF TableRunning
    <3>4. RemovedFresh' /\ \A c \in Containers : Fresh(c) => Fresh(c)'
      BY <3>1 DEF RemovedFresh, OnlineInv, Fresh
    <3> QED BY <2>1, <3>1, <3>3, <3>4, OnlineQuiet
  <2> QED BY <1>5, <2>2, <2>4, <2>5, <2>7, <2>8, <2>9, DockerKept
<1> QED BY <1>1, <1>2, <1>3, <1>4, <1>5 DEF Next

(* An instance-online alert is queued only for a container that did start    *)
(* since a listing last showed it not running, as long as listings do not    *)
(* fail and no name is used on two nodes.                                    *)
THEOREM OnlineJustified ==
  ASSUME ~ListFails, DistinctNames
  PROVE  Spec => []OnlineAlertsJustified
<1>1. TypeOK /\ OnlyDeployed /\ OnlineInv /\ [Next]_vars => OnlineInv'
  BY StartedStep
<1>2. OnlineInv => OnlineAlertsJustified
  BY DEF OnlineInv
<1> QED BY <1>1, <1>2, InitOnline, DeployedAlways, TypeCorrect, PTL DEF Spec

-----------------------------------------------------------------------------
(* The QR cache.  The names the QR loop goes through were listed as running  *)
(* by the refresh, and only the next refresh changes that.                   *)
ListedRun == \A n \in runningLocal \cap known : inst[n].status = "running"

QrCached == \A n \in known : inst[n].qr # "none" => inst[n].status = "running"

QrInv ==
    /\ QrCached /\ ListedRun
    /\ qrTodo \subseteq runningLocal /\ reading \subseteq runningLocal
    /\ pc \notin {"lost", "qr"} => qrTodo = {} /\ reading = {}

\* A step adds no instance and keeps the status and the QR code of the rest.
Kept == known' \subseteq known /\ \A n \in known' : inst'[n].status = inst[n].status /\ inst'[n].qr = inst[n].qr

LEMMA MethodsKeepQr ==
  ASSUME NEW i \in Inst
  PROVE  /\ \A on \in BOOLEAN : Beat(i, on).status = i.status /\ Beat(i, on).qr = i.qr
         /\ \A ok \in BOOLEAN, u \in Uins \cup {NoUin} :
               UpdateLogin(i, ok, u).status = i.status /\ UpdateLogin(i, ok, u).qr = i.qr
  BY DEF Beat, UpdateLogin, Inst

LEMMA WriteKeeps ==
  ASSUME TypeOK, NEW n \in Names, NEW i, i.status = inst[n].status, i.qr = inst[n].qr, Write(n, i)
  PROVE  Kept
  BY DEF TypeOK, Write, Kept

\* The handlers and the world write neither a status nor a QR code.
LEMMA HandlersKeep ==
  ASSUME TypeOK, Handler \/ World \/ UNCHANGED vars, ~Restart
  PROVE  Kept
<1> USE DEF TypeOK
<1>1. ASSUME UNCHANGED table PROVE Kept
  BY <1>1 DEF table, Kept
<1>2. ASSUME NEW n \in Names
      PROVE  /\ inst[n] \in Inst
             /\ inst[n].uin \in Uins \cup {NoUin}
  BY DEF Inst
<1>3. ASSUME NEW n \in Names, NEW on \in BOOLEAN, Write(n, Beat(inst[n], on)) PROVE Kept
  BY <1>2, <1>3, MethodsKeepQr, WriteKeeps
<1>4. ASSUME NEW n \in Names, NEW u \in Uins \cup {NoUin},
             NEW i, i = IF u = NoUin THEN inst[n] ELSE UpdateLogin(inst[n], TRUE, u),
             Write(n, i) \/ Write(n, Beat(i, TRUE))
      PROVE  Kept
  <2>1. i \in Inst /\ i.status = inst[n].status /\ i.qr = inst[n].qr
    BY <1>2, <1>4, UpdateLoginType, MethodsKeepQr
  <2>2. Beat(i, TRUE).status = i.status /\ Beat(i, TRUE).qr = i.qr
    BY <2>1, MethodsKeepQr
  <2> QED BY <1>4, <2>1, <2>2, WriteKeeps
<1>5. ASSUME NEW n \in Names,
             NEW i, i = UpdateLogin(inst[n], FALSE, inst[n].uin),
             Write(n, i) \/ Write(n, [i EXCEPT !.bot_online = FALSE])
      PROVE  Kept
  <2>1. i \in Inst /\ i.status = inst[n].status /\ i.qr = inst[n].qr
    BY <1>2, <1>5, UpdateLoginType, MethodsKeepQr
  <2>2. /\ [i EXCEPT !.bot_online = FALSE].status = i.status
        /\ [i EXCEPT !.bot_online = FALSE].qr = i.qr
    BY <2>1 DEF Inst
  <2> QED BY <1>5, <2>1, <2>2, WriteKeeps
<1>6. ASSUME NEW n \in Names, LinkClose(n) PROVE Kept
  <2> DEFINE i == [inst[n] EXCEPT !.bot_online = FALSE, !.hb = "none"]
  <2>1. i.status = inst[n].status /\ i.qr = inst[n].qr
    BY <1>2 DEF Inst
  <2>2. Write(n, i)
    BY <1>6 DEF LinkClose
  <2> HIDE DEF i
  <2> QED BY <2>1, <2>2, WriteKeeps
<1>7. ASSUME NEW n \in Names, Report(n) PROVE Kept
  <2>1. CASE LinkOpen(n) \/ LinkHeartbeat(n) \/ \E on \in BOOLEAN : HttpHeartbeat(n, on)
    BY <1>3, <2>1 DEF LinkOpen, LinkHeartbeat, HttpHeartbeat
  <2>2. CASE \E u \in Uins \cup {NoUin} : LinkLogin(n, u)
    BY <1>4, <2>2 DEF LinkLogin
  <2>3. CASE \E u \in Uins \cup {NoUin}, beat \in BOOLEAN : HttpLogin(n, u, beat)
    BY <1>4, <2>3 DEF HttpLogin
  <2> QED BY <1>7, <2>1, <2>2, <2>3 DEF Report
<1>8. CASE Handler
  <2>1. ASSUME NEW n \in Names, LinkLogout(n) PROVE Kept
    BY <1>5, <2>1 DEF LinkLogout
  <2>2. ASSUME NEW n \in Names, NEW beat \in BOOLEAN, HttpLogout(n, beat) PROVE Kept
    BY <1>5, <2>2 DEF HttpLogout
  <2>3. ASSUME NEW n \in Names, RunAlertTask(n) \/ DeleteContainer(n) \/ ClearData(n)
        PROVE  Kept
    <3>1. UNCHANGED table
      BY <2>3 DEF RunAlertTask, DeleteContainer, ClearData, Remove
    <3> QED BY <1>1, <3>1
  <2>4. ASSUME NEW u \in Uins, NEW on \in BOOLEAN, OneBotReport(u, on) PROVE Kept
    BY <1>3, <2>4 DEF OneBotReport
  <2>5. ASSUME NEW n \in Names, CleanupInstance(n) PROVE Kept
    BY <2>5 DEF CleanupInstance, Kept
  <2> QED BY <1>6, <1>7, <1>8, <2>1, <2>2, <2>3, <2>4, <2>5 DEF Handler
<1>9. ASSUME NEW n \in Names, Elapse(n) PROVE Kept
  <2>1. [inst[n] EXCEPT !.hb = "stale"].status = inst[n].status /\ [inst[n] EXCEPT !.hb = "stale"].qr = inst[n].qr
    BY <1>2 DEF Inst
  <2> QED BY <1>9, <2>1 DEF Elapse, Kept
<1>10. CASE World
  <2>1. ASSUME NEW c \in Deployed, Start(c) \/ \E to \in {"exited", "absent"} : Stop(c, to)
        PROVE  UNCHANGED table
    BY <2>1 DEF Start, Stop
  <2> QED BY <1>1, <1>9, <1>10, <2>1 DEF World
<1>11. CASE UNCHANGED vars
  BY <1>1, <1>11 DEF vars, table
<1> QED BY <1>8, <1>10, <1>11

LEMMA QrRefresh ==
  ASSUME TypeOK, OnlyDeployed, DistinctNames, QrInv, Refresh
  PROVE  QrInv'
<1> PICK r \in Listing("remote") : Refresh!2!(r)
  BY DEF Refresh
<1> DEFINE active == {n \in Names : localList[n] # "absent" \/ r[n] # "absent"}
           t == [n \in Names |-> IF n \in active THEN Upserted(n, localList, r) ELSE NewInst]
<1>1. /\ UNCHANGED <<qrTodo, reading>> /\ pc = "remote"
      /\ \/ UNCHANGED <<known, inst, runningLocal>>
         \/ known' = active /\ inst' = t /\ runningLocal' = {n \in Names : localList[n] = "running"}
  BY DEF Refresh, table
<1>2. \A n \in active : /\ t[n].status = IF r[n] # "absent" THEN r[n] ELSE localList[n]
                        /\ localList[n] = "exited" \/ r[n] = "exited" => t[n].qr = "none"
  BY UpsertedFields
<1> HIDE DEF t
<1>3. \A n \in Names : r[n] = docker[<<n, "remote">>] \/ r[n] = "absent"
  BY DEF Listing, NoList
<1>4. \A n \in Names : r[n] \in ContStatus /\ localList[n] \in ContStatus
  BY <1>3 DEF TypeOK, Containers, Nodes, ContStatus
<1>5. \A n \in Names : localList[n] = "running" => r[n] = "absent"
  BY <1>3, OneNode DEF OnlyDeployed
<1>6. QrCached'
  <2>1. \A n \in active : t[n].qr # "none" => t[n].status = "running"
    BY <1>2, <1>4 DEF ContStatus
  <2> QED BY <1>1, <2>1 DEF QrInv, QrCached
<1>7. ListedRun'
  <2>1. \A n \in Names : localList[n] = "running" => t[n].status = "running"
    BY <1>2, <1>5
  <2> QED BY <1>1, <2>1 DEF QrInv, ListedRun
<1> QED BY <1>1, <1>6, <1>7 DEF QrInv

LEMMA QrStep ==
  ASSUME TypeOK, OnlyDeployed, DistinctNames, QrInv, [Next]_vars
  PROVE  QrInv'
<1>1. CASE Refresh
  BY <1>1, QrRefresh
<1>2. CASE Restart
  BY <1>2 DEF Restart, QrInv, QrCached, ListedRun
<1>3. CASE QrRead
  <2> PICK n \in reading, q \in {"none", "ok", "expired"} : Write(n, [inst[n] EXCEPT !.qr = q])
    BY <1>3 DEF QrRead
  <2> DEFINE i == [inst[n] EXCEPT !.qr = q]
  <2>1. n \in Names /\ inst[n] \in Inst
    BY DEF TypeOK
  <2>2. i.status = inst[n].status
    BY <2>1 DEF Inst
  <2>3. /\ known' = known
        /\ \A m \in known : inst'[m] = IF m = n THEN i ELSE inst[m]
        /\ reading' = {} /\ UNCHANGED <<runningLocal, qrTodo, pc>> /\ pc = "qr"
    BY <1>3, <2>1 DEF QrRead, Write, TypeOK
  <2> HIDE DEF i
  <2>4. n \in known => inst[n].status = "running"
    BY DEF QrInv, ListedRun
  <2> QED BY <2>2, <2>3, <2>4 DEF QrInv, QrCached, ListedRun
<1>4. CASE HeartbeatScan
  <2>1. \A n \in Names : inst'[n].status = inst[n].status /\ inst'[n].qr = inst[n].qr
    <3>1. \A n \in Names : inst[n] \in Inst /\ inst[n].uin \in Uins \cup {NoUin}
      BY DEF TypeOK, Inst
    <3> QED BY <1>4, <3>1, MethodsKeepQr DEF HeartbeatScan
  <2>2. /\ known' = known /\ known \subseteq Names /\ runningLocal' = runningLocal
        /\ qrTodo' = runningLocal /\ reading' = reading /\ pc' \in {"lost", "qr"}
    BY <1>4 DEF HeartbeatScan, TypeOK
  <2> QED BY <2>1, <2>2 DEF QrInv, QrCached, ListedRun
<1>5. CASE TickStep /\ ~Refresh /\ ~QrRead /\ ~HeartbeatScan
  <2>1. UNCHANGED <<known, inst>>
    BY <1>5 DEF TickStep, Wake, ListLocal, AlertOffline, AlertOnline, AlertLost, QrNext, TickEnd, table
  <2>2. /\ runningLocal' = runningLocal \/ (runningLocal' = {} /\ qrTodo = {} /\ reading = {})
        /\ qrTodo' \subseteq qrTodo /\ reading' \subseteq reading \cup qrTodo
        /\ pc' \notin {"lost", "qr"} => qrTodo' = {} /\ reading' = {}
    BY <1>5 DEF TickStep, Wake, ListLocal, AlertOffline, AlertOnline, AlertLost, QrNext, TickEnd,
                QrInv
  <2> QED BY <2>1, <2>2 DEF QrInv, QrCached, ListedRun
<1>6. CASE (Handler \/ World \/ UNCHANGED vars) /\ ~Restart
  <2>1. Kept /\ UNCHANGED <<tick, initialized>>
    BY <1>6, HandlersKeep, TickKept
  <2> QED BY <2>1 DEF Kept, tick, QrInv, QrCached, ListedRun
<1> QED BY <1>1, <1>2, <1>3, <1>4, <1>5, <1>6 DEF Next

(* The engine never keeps a QR code for an instance it does not show         *)
(* running, whatever handlers and deletions do while the QR file is read, as *)
(* long as no name is used on two nodes.                                     *)
THEOREM QrWhileRunning ==
  ASSUME DistinctNames
  PROVE  Spec => []QrOnlyWhileRunning
<1>1. Init => QrInv
  BY DEF Init, QrInv, QrCached, ListedRun
<1>2. TypeOK /\ OnlyDeployed /\ QrInv /\ [Next]_vars => QrInv'
  BY QrStep
<1>3. QrInv => QrOnlyWhileRunning
  BY DEF QrInv, QrCached, QrOnlyWhileRunning
<1> QED BY <1>1, <1>2, <1>3, DeployedAlways, TypeCorrect, PTL DEF Spec

-----------------------------------------------------------------------------
(* No login is lost in silence. *)
Told(n) == n \in alertTasks' \/ \E x \in lost' : x.name = n

LoginsTold ==
    \A n \in known \cap known' :
       ("http" \notin Sources /\ inst[n].logged_in /\ ~inst'[n].logged_in /\ inst'[n].status = "running")
          => Told(n)

LEMMA MethodsLogin ==
  ASSUME NEW i \in Inst
  PROVE  /\ \A on \in BOOLEAN : Beat(i, on).logged_in = i.logged_in
         /\ \A u \in Uins : UpdateLogin(i, TRUE, u).logged_in
  BY DEF Beat, UpdateLogin, Inst

\* A handler that writes to an instance without ending its login, or with
\* an alert created for it.
LEMMA WriteTold ==
  ASSUME TypeOK, NEW n \in Names, NEW i, Write(n, i),
         (inst[n].logged_in => i.logged_in) \/ n \in alertTasks'
  PROVE  LoginsTold
  BY DEF TypeOK, Write, LoginsTold, Told

LEMMA RefreshTold ==
  ASSUME TypeOK, OnlyDeployed, DistinctNames, Refresh
  PROVE  LoginsTold
<1> PICK r \in Listing("remote") : Refresh!2!(r)
  BY DEF Refresh
<1> DEFINE active == {n \in Names : localList[n] # "absent" \/ r[n] # "absent"}
           t == [n \in Names |-> IF n \in active THEN Upserted(n, localList, r) ELSE NewInst]
<1>1. UNCHANGED <<known, inst>> \/ (known' = active /\ inst' = t)
  BY DEF Refresh, table
<1>2. \A n \in active : t[n].status = IF r[n] # "absent" THEN r[n] ELSE localList[n]
  BY UpsertedFields
<1>3. \A n \in Names : r[n] = docker[<<n, "remote">>] \/ r[n] = "absent"
  BY DEF Listing, NoList
<1>4. \A n \in Names : localList[n] # "absent" => r[n] = "absent"
  BY <1>3, OneNode DEF OnlyDeployed
<1>5. ASSUME NEW n \in active \cap known, t[n].status = "running", inst[n].logged_in
      PROVE  t[n].logged_in
  <2>1. localList[n] # "exited" /\ r[n] # "exited"
    BY <1>2, <1>4, <1>5
  <2>2. t[n] = [inst[n] EXCEPT !.node = IF r[n] # "absent" THEN "remote" ELSE "local",
                               !.status = IF r[n] # "absent" THEN r[n] ELSE localList[n]]
    BY <2>1, <1>5 DEF Upserted
  <2>3. inst[n] \in Inst
    BY DEF TypeOK
  <2> HIDE DEF t
  <2> QED BY <1>5, <2>2, <2>3 DEF Inst
<1> HIDE DEF t
<1> QED BY <1>1, <1>5 DEF LoginsTold

LEMMA LoginStep ==
  ASSUME TypeOK, OnlyDeployed, DistinctNames, [Next]_vars
  PROVE  LoginsTold
<1> USE DEF TypeOK
<1>1. ASSUME UNCHANGED table PROVE LoginsTold
  BY <1>1 DEF table, LoginsTold
<1>2. ASSUME NEW n \in Names
      PROVE  inst[n] \in Inst /\ inst[n].logged_in \in BOOLEAN
  BY DEF Inst
<1>3. ASSUME NEW n \in Names, NEW on \in BOOLEAN, Write(n, Beat(inst[n], on)) PROVE LoginsTold
  BY <1>2, <1>3, MethodsLogin, WriteTold
<1>4. ASSUME NEW n \in Names, NEW u \in Uins \cup {NoUin}, LinkLogin(n, u) PROVE LoginsTold
  <2> DEFINE i == IF u = NoUin THEN inst[n] ELSE UpdateLogin(inst[n], TRUE, u)
  <2>1. i \in Inst /\ (inst[n].logged_in => i.logged_in)
    BY <1>2, UpdateLoginType, MethodsLogin
  <2>2. Beat(i, TRUE).logged_in = i.logged_in
    BY <2>1, MethodsLogin
  <2>3. Write(n, Beat(i, TRUE))
    BY <1>4 DEF LinkLogin
  <2> HIDE DEF i
  <2> QED BY <2>1, <2>2, <2>3, WriteTold
<1>5. ASSUME NEW n \in Names, LinkLogout(n) PROVE LoginsTold
  BY <1>5, WriteTold DEF LinkLogout
<1>6. ASSUME NEW n \in Names, LinkClose(n) PROVE LoginsTold
  <2> DEFINE i == [inst[n] EXCEPT !.bot_online = FALSE, !.hb = "none"]
  <2>1. i.logged_in = inst[n].logged_in /\ Write(n, i)
    BY <1>2, <1>6 DEF LinkClose, Inst
  <2> HIDE DEF i
  <2> QED BY <2>1, WriteTold
<1>7. CASE Handler
  <2>1. ASSUME "http" \in Sources PROVE LoginsTold
    BY <2>1 DEF LoginsTold
  <2>2. ASSUME NEW n \in Names, Report(n) \/ \E beat \in BOOLEAN : HttpLogout(n, beat)
        PROVE  LoginsTold
    <3>1. CASE LinkOpen(n) \/ LinkHeartbeat(n)
      BY <1>3, <3>1 DEF LinkOpen, LinkHeartbeat
    <3>2. ASSUME ~LinkOpen(n), ~LinkHeartbeat(n), ~\E u \in Uins \cup {NoUin} : LinkLogin(n, u)
          PROVE  "http" \in Sources
      BY <2>2, <3>2 DEF Report, HttpLogin, HttpLogout, HttpHeartbeat
    <3> QED BY <1>4, <2>1, <3>1, <3>2
  <2>3. ASSUME NEW n \in Names, RunAlertTask(n) \/ DeleteContainer(n) \/ ClearData(n)
        PROVE  UNCHANGED table
    BY <2>3 DEF RunAlertTask, DeleteContainer, ClearData, Remove
  <2>4. ASSUME NEW n \in Names, CleanupInstance(n) PROVE LoginsTold
    BY <2>4 DEF CleanupInstance, LoginsTold
  <2>5. ASSUME NEW u \in Uins, NEW on \in BOOLEAN, OneBotReport(u, on) PROVE LoginsTold
    BY <1>3, <2>5 DEF OneBotReport
  <2> QED BY <1>1, <1>5, <1>6, <1>7, <2>2, <2>3, <2>4, <2>5 DEF Handler
<1>8. CASE World
  <2>1. ASSUME NEW c \in Deployed, Start(c) \/ \E to \in {"exited", "absent"} : Stop(c, to)
        PROVE  UNCHANGED table
    BY <2>1 DEF Start, Stop
  <2>2. ASSUME NEW n \in Names, Elapse(n) PROVE LoginsTold
    <3>1. [inst[n] EXCEPT !.hb = "stale"].logged_in = inst[n].logged_in
      BY <1>2 DEF Inst
    <3> QED BY <2>2, <3>1 DEF Elapse, LoginsTold
  <2>3. ASSUME Restart PROVE LoginsTold
    BY <2>3 DEF Restart, LoginsTold
  <2> QED BY <1>1, <1>8, <2>1, <2>2, <2>3 DEF World
<1>9. CASE HeartbeatScan
  <2>1. ASSUME NEW n \in Names, inst'[n] # inst[n] PROVE \E x \in lost' : x.name = n
    <3>1. n \in TimedOut
      BY <1>9, <2>1 DEF HeartbeatScan
    <3>2. [name |-> n, uin |-> inst[n].uin, node |-> inst[n].node] \in lost'
      BY <1>9, <3>1 DEF HeartbeatScan
    <3> QED BY <3>2
  <2> QED BY <2>1 DEF LoginsTold, Told
<1>10. CASE QrRead
  <2> PICK n \in reading, q \in {"none", "ok", "expired"} : Write(n, [inst[n] EXCEPT !.qr = q])
    BY <1>10 DEF QrRead
  <2> DEFINE i == [inst[n] EXCEPT !.qr = q]
  <2>1. i.logged_in = inst[n].logged_in /\ n \in Names
    BY <1>2 DEF Inst
  <2> HIDE DEF i
  <2> QED BY <2>1, WriteTold DEF i
<1>11. CASE TickStep /\ ~Refresh /\ ~HeartbeatScan /\ ~QrRead
  <2>1. UNCHANGED table
    BY <1>11 DEF TickStep, Wake, ListLocal, AlertOffline, AlertOnline, AlertLost, QrNext, TickEnd, table
  <2> QED BY <1>1, <2>1
<1>12. CASE UNCHANGED vars
  BY <1>1, <1>12 DEF vars, table
<1> QED BY <1>7, <1>8, <1>9, <1>10, <1>11, <1>12, RefreshTold DEF Next

(* A login lost while the instance stays known and running always has an     *)
(* alert, unless it was reported over HTTP or its name is used on two nodes. *)
THEOREM LogoutTold ==
  ASSUME DistinctNames
  PROVE  Spec => NoSilentLogout
<1>1. TypeOK /\ OnlyDeployed /\ [Next]_vars => [LoginsTold]_vars
  BY LoginStep
<1> QED BY <1>1, DeployedAlways, TypeCorrect, PTL DEF Spec, NoSilentLogout, LoginsTold, Told
=============================================================================
