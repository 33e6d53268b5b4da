-------------------------- MODULE InterlinkProofs --------------------------
(* Proofs about the plugin: its socket and its reports. *)
EXTENDS Interlink, TLAPS

(***************************************************************************)
(* The inductive invariant of the link.  A socket whose onclose was taken  *)
(* off has not reported its end yet, so a new socket is never one of them; *)
(* and every end of a socket that is not muted schedules a reconnection.   *)
(***************************************************************************)
Tracked == tracked => timers > 0
LinkInv ==
    /\ ws \in Socks \cup {NoSock} /\ muted \subseteq Socks
    /\ sock \in [Socks -> {"free", "connecting", "open", "gone", "failing", "closing"}]
    /\ opening \in Nat /\ timers \in Nat /\ Tracked
    /\ \A s \in muted : sock[s] # "free"
    /\ NeverStranded

LEMMA InitLink == ASSUME InterlinkAssumption, Init PROVE LinkInv
BY DEF Init, LinkInv, Tracked, NeverStranded

LEMMA LinkUnchanged ==
    ASSUME LinkInv, UNCHANGED link PROVE LinkInv'
BY DEF LinkInv, Tracked, NeverStranded, link

(* What _scheduleReconnect leaves.                                          *)
LEMMA ScheduledTimer ==
    ASSUME timers \in Nat, Tracked, Scheduled PROVE timers' \in Nat /\ timers' > 0 /\ Tracked'
BY DEF Tracked, Scheduled

LEMMA DroppedLink ==
    ASSUME InterlinkAssumption, LinkInv, Dropped
    PROVE  /\ ws' = NoSock /\ muted' \subseteq Socks /\ timers' \in Nat /\ Tracked'
           /\ sock' \in [Socks -> {"free", "connecting", "open", "gone", "failing", "closing"}]
           /\ \A s \in muted' : sock'[s] # "free"
<1>1. timers' \in Nat /\ Tracked' /\ ws' = NoSock
  BY DEF LinkInv, Tracked, Dropped, Cleared
<1>2. CASE ws = NoSock \/ sock[ws] = "free"
  BY <1>1, <1>2 DEF LinkInv, Dropped
<1>3. CASE ~(ws = NoSock \/ sock[ws] = "free")
  <2> DEFINE to == CASE sock[ws] = "failing" -> sock[ws]
                     [] sock[ws] = "connecting" -> "failing"
                     [] OTHER -> "closing"
  <2>1. to \in {"failing", "closing"}
    BY <1>3 DEF LinkInv
  <2>2. ws \in Socks /\ muted' = muted \cup {ws} /\ sock' = [sock EXCEPT ![ws] = to]
    BY <1>3 DEF LinkInv, Dropped
  <2> HIDE DEF to
  <2> QED
    BY <1>1, <2>1, <2>2 DEF LinkInv
<1> QED
  BY <1>2, <1>3

LEMMA LinkStep == ASSUME InterlinkAssumption, LinkInv, [Next]_vars PROVE LinkInv'
<1>1. CASE Reconnect
  BY <1>1 DEF Reconnect, LinkInv, Tracked, NeverStranded
<1>2. CASE PluginInit
  BY <1>2 DEF PluginInit, LinkInv, Tracked, NeverStranded
<1>3. CASE CreateFails
  <2>1. timers' \in Nat /\ timers' > 0 /\ Tracked'
    BY <1>3, ScheduledTimer DEF CreateFails, LinkInv
  <2>2. opening' \in Nat /\ UNCHANGED <<ws, sock, muted, active>>
    BY <1>3 DEF CreateFails, LinkInv
  <2> QED
    BY <2>1, <2>2 DEF LinkInv, NeverStranded
<1>4. CASE Create
  <2> DEFINE c == CHOOSE x \in Socks : sock[x] = "free"
  <2>1. c \in Socks /\ sock[c] = "free"
    BY <1>4 DEF Create
  <2>2. /\ ws' = c /\ sock' = [sock EXCEPT ![c] = "connecting"] /\ opening' = opening - 1 /\ opening > 0
        /\ UNCHANGED <<muted, timers, tracked, active>>
    BY <1>4 DEF Create
  <2> HIDE DEF c
  <2>3. c # NoSock /\ c \notin muted
    BY <2>1 DEF LinkInv, InterlinkAssumption
  <2> QED
    BY <2>1, <2>2, <2>3 DEF LinkInv, Tracked, NeverStranded
<1>5. ASSUME NEW s \in Socks, OnOpen(s) PROVE LinkInv'
  BY <1>5 DEF OnOpen, LinkInv, Tracked, NeverStranded
<1>6. ASSUME NEW s \in Socks, NEW closes \in BOOLEAN, OnError(s, closes) PROVE LinkInv'
  <2>1. /\ sock' = [sock EXCEPT ![s] = IF closes THEN "closing" ELSE "free"]
        /\ muted' = IF closes THEN muted ELSE muted \ {s}
        /\ UNCHANGED <<opening, active>>
    BY <1>6 DEF OnError
  <2>2. timers' \in Nat /\ timers' > 0 /\ Tracked' /\ ws' \in Socks \cup {NoSock}
    <3>1. CASE tracked
      BY <1>6, <3>1 DEF OnError, LinkInv, Tracked
    <3>2. CASE ~tracked
      BY <1>6, <3>2, ScheduledTimer DEF OnError, LinkInv
    <3> QED
      BY <3>1, <3>2
  <2>3. sock' \in [Socks -> {"free", "connecting", "open", "gone", "failing", "closing"}]
    BY <2>1 DEF LinkInv
  <2>4. \A t \in muted' : sock'[t] # "free"
    BY <2>1 DEF LinkInv
  <2> QED
    BY <2>1, <2>2, <2>3, <2>4 DEF LinkInv, NeverStranded
<1>7. ASSUME NEW s \in Socks, OnClose(s) PROVE LinkInv'
  <2>1. sock' = [sock EXCEPT ![s] = "free"] /\ muted' = muted \ {s} /\ UNCHANGED <<opening, active>>
    BY <1>7 DEF OnClose
  <2>2. /\ sock' \in [Socks -> {"free", "connecting", "open", "gone", "failing", "closing"}]
        /\ \A t \in muted' : sock'[t] # "free"
    BY <2>1 DEF LinkInv
  <2>3. CASE s \in muted
    BY <1>7, <2>1, <2>2, <2>3 DEF OnClose, LinkInv, Tracked, NeverStranded
  <2>4. CASE s \notin muted
    <3>1. timers' \in Nat /\ timers' > 0 /\ Tracked' /\ ws' = NoSock
      BY <1>7, <2>4, ScheduledTimer DEF OnClose, LinkInv
    <3> QED
      BY <2>1, <2>2, <3>1 DEF LinkInv, NeverStranded
  <2> QED
    BY <2>3, <2>4
<1>8. CASE SetConfig
  <2>1. Dropped /\ opening' = opening + 1
    BY <1>8 DEF SetConfig
  <2> QED
    BY <2>1, DroppedLink DEF LinkInv, NeverStranded
<1>9. CASE PluginCleanup
  <2>1. Dropped /\ active' = FALSE /\ opening' = opening
    BY <1>9 DEF PluginCleanup
  <2> QED
    BY <2>1, DroppedLink DEF LinkInv, NeverStranded
<1>10. ASSUME NEW s \in Socks, Breaks(s) PROVE LinkInv'
  BY <1>10 DEF Breaks, LinkInv, Tracked, NeverStranded
<1>11. CASE CheckAndReportLogin \/ WatchTick \/ Answered \/ Heartbeat \/ LogIn \/ Elapse \/ \E noticed \in BOOLEAN : LogOut(noticed)
  <2>1. UNCHANGED link
    BY <1>11 DEF CheckAndReportLogin, WatchTick, Answered, Confirmed, LateChecked, Heartbeat, LogIn, Elapse, LogOut
  <2> QED
    BY <2>1, LinkUnchanged
<1>12. CASE UNCHANGED vars
  BY <1>12, LinkUnchanged DEF vars
<1> QED
  BY <1>1, <1>2, <1>3, <1>4, <1>5, <1>6, <1>7, <1>8, <1>9, <1>10, <1>11, <1>12 DEF Next, Reports

(* An initialised plugin holds a socket that can still be lost, or tries to *)
(* get one, for any number of sockets, losses and reconfigurations.         *)
THEOREM AlwaysTries == ASSUME InterlinkAssumption PROVE Spec => []NeverStranded
<1>1. Init => LinkInv
  BY InitLink
<1>2. LinkInv /\ [Next]_vars => LinkInv'
  BY LinkStep
<1>3. LinkInv => NeverStranded
  BY DEF LinkInv
<1> QED
  BY <1>1, <1>2, <1>3, PTL DEF Spec

-----------------------------------------------------------------------------
(***************************************************************************)
(* The inductive invariant of the reports: an account that is lost is an   *)
(* excuse, and "in" is only sent while the account is there.               *)
(***************************************************************************)
ReportInv == qq \in BOOLEAN /\ excuse \in BOOLEAN /\ (~qq => excuse) /\ LogoutExcused

LEMMA SentIn == ASSUME ReportInv, qq', qq' \in BOOLEAN, Send("in") PROVE ReportInv'
<1>1. CASE Linked
  <2>1. told' = "in" /\ excuse' = FALSE
    BY <1>1 DEF Send
  <2> QED
    BY <2>1 DEF ReportInv, LogoutExcused
<1>2. CASE ~Linked
  <2>1. told' = told /\ excuse' = excuse
    BY <1>2 DEF Send, view
  <2> QED
    BY <2>1 DEF ReportInv, LogoutExcused
<1> QED
  BY <1>1, <1>2

LEMMA ReportUnchanged == ASSUME ReportInv, UNCHANGED <<qq, view>> PROVE ReportInv'
BY DEF ReportInv, LogoutExcused, view

(* An answer that is not "in" comes from an account that is not logged in,  *)
(* or from an API that fails.                                               *)
LEMMA AnswerExcuses ==
    ASSUME ReportInv, NEW a \in Answers
    PROVE  /\ a = "in" => qq
           /\ a # "in" => excuse \/ a = "error"
BY DEF Answers, ReportInv

LEMMA AskedOut ==
    ASSUME ReportInv, NEW a \in Answers, a # "in", qq' = qq,
           told' = (IF Linked THEN "out" ELSE told), excuse' = (excuse \/ a = "error")
    PROVE  ReportInv'
<1>1. excuse \/ a = "error"
  BY AnswerExcuses
<1>2. excuse' = TRUE
  BY <1>1 DEF ReportInv
<1> QED
  BY <1>2 DEF ReportInv, LogoutExcused

LEMMA ReportStep == ASSUME ReportInv, [Next]_vars PROVE ReportInv'
<1>1. CASE CheckAndReportLogin
  <2>1. PICK a \in Answers :
          IF a = "in" /\ active
            THEN Send("in")
            ELSE told' = told /\ excuse' = (excuse \/ (active /\ a = "error"))
    BY <1>1 DEF CheckAndReportLogin
  <2>2. qq' = qq
    BY <1>1 DEF CheckAndReportLogin, ext
  <2>3. CASE a = "in" /\ active
    <3>1. qq
      BY <2>3, AnswerExcuses
    <3> QED
      BY <2>1, <2>2, <2>3, <3>1, SentIn DEF ReportInv
  <2>4. CASE ~(a = "in" /\ active)
    BY <2>1, <2>2, <2>4 DEF ReportInv, LogoutExcused
  <2> QED
    BY <2>3, <2>4
<1>2. CASE Confirmed
  <2>1. PICK a \in Answers :
          IF a = "in" THEN UNCHANGED view
          ELSE told' = (IF Linked THEN "out" ELSE told) /\ excuse' = (excuse \/ a = "error")
    BY <1>2 DEF Confirmed
  <2>2. qq' = qq
    BY <1>2 DEF Confirmed, ext
  <2> QED
    BY <2>1, <2>2, AskedOut, ReportUnchanged
<1>3. CASE LateChecked
  <2>1. PICK a \in Answers :
          IF a = "in" THEN Send("in")
          ELSE told' = (IF Linked THEN "out" ELSE told) /\ excuse' = (excuse \/ a = "error")
    BY <1>3 DEF LateChecked
  <2>2. qq' = qq
    BY <1>3 DEF LateChecked, ext
  <2>3. CASE a = "in"
    <3>1. qq
      BY <2>3, AnswerExcuses
    <3> QED
      BY <2>1, <2>2, <2>3, <3>1, SentIn DEF ReportInv
  <2> QED
    BY <2>1, <2>2, <2>3, AskedOut
<1>4. CASE LogIn
  <2>1. qq' = TRUE
    BY <1>4 DEF LogIn
  <2>2. Send("in") \/ UNCHANGED view
    BY <1>4 DEF LogIn
  <2>3. CASE UNCHANGED view
    BY <2>1, <2>3 DEF ReportInv, LogoutExcused, view
  <2> QED
    BY <2>1, <2>2, <2>3, SentIn
<1>5. CASE \E noticed \in BOOLEAN : LogOut(noticed)
  BY <1>5 DEF LogOut, ReportInv, LogoutExcused
<1>6. CASE \/ Reconnect \/ Create \/ WatchTick \/ CreateFails \/ PluginInit \/ SetConfig \/ PluginCleanup \/ Heartbeat \/ Elapse
           \/ \E s \in Socks : OnOpen(s) \/ Breaks(s) \/ Reports(s)
  <2>1. UNCHANGED <<qq, view>>
    BY <1>6 DEF Reconnect, Create, WatchTick, CreateFails, PluginInit, SetConfig, PluginCleanup, Heartbeat, Elapse,
                OnOpen, Breaks, Reports, OnClose, OnError, ext
  <2> QED
    BY <2>1, ReportUnchanged
<1>7. CASE UNCHANGED vars
  BY <1>7, ReportUnchanged DEF vars, ext
<1> QED
  BY <1>1, <1>2, <1>3, <1>4, <1>5, <1>6, <1>7 DEF Next, Answered

(* The manager is told of a logout only if, since it was told of the login, *)
(* the account was lost or NapCat's API failed.                             *)
THEOREM LogoutsConfirmed == Spec => []LogoutExcused
<1>1. Init => ReportInv
  BY DEF Init, ReportInv, LogoutExcused
<1>2. ReportInv /\ [Next]_vars => ReportInv'
  BY ReportStep
<1>3. ReportInv => LogoutExcused
  BY DEF ReportInv
<1> QED
  BY <1>1, <1>2, <1>3, PTL DEF Spec

-----------------------------------------------------------------------------
(***************************************************************************)
(* The types of the variables that LinkInv does not speak of.              *)
(***************************************************************************)
FlagsTyped ==
    /\ tracked \in BOOLEAN /\ initWait \in BOOLEAN /\ active \in BOOLEAN /\ watching \in BOOLEAN
    /\ checking \in BOOLEAN /\ online \in BOOLEAN /\ failed \in BOOLEAN /\ grace \in BOOLEAN
BotTyped ==
    /\ watch \in {"idle", "confirm", "late"} /\ hb \in {"none", "fresh", "old"}
    /\ trouble \in Nat /\ good \in BOOLEAN /\ qq \in BOOLEAN /\ excuse \in BOOLEAN
    /\ told \in {"none", "in", "out"}

LEMMA TroubleLeft == ASSUME trouble \in Nat, Troubled PROVE trouble' \in Nat
BY DEF Troubled

LEMMA FlagsStep == ASSUME FlagsTyped, [Next]_vars PROVE FlagsTyped'
<1> USE DEF FlagsTyped
<1>1. CASE Reconnect \/ Create \/ CreateFails
  BY <1>1 DEF Reconnect, Create, CreateFails, Scheduled, bot
<1>2. CASE PluginInit \/ SetConfig \/ PluginCleanup
  BY <1>2 DEF PluginInit, SetConfig, PluginCleanup, Dropped, Cleared, bot
<1>3. CASE \E s \in Socks : OnOpen(s) \/ Breaks(s) \/ Reports(s)
  BY <1>3 DEF OnOpen, Breaks, Reports, OnClose, OnError, Scheduled, bot
<1>4. CASE CheckAndReportLogin
  BY <1>4 DEF CheckAndReportLogin, link
<1>5. CASE WatchTick \/ Confirmed \/ LateChecked
  BY <1>5 DEF WatchTick, Confirmed, LateChecked, link
<1>6. CASE Heartbeat \/ LogIn \/ Elapse
  BY <1>6 DEF Heartbeat, LogIn, Elapse, link
<1>7. CASE \E noticed \in BOOLEAN : LogOut(noticed)
  BY <1>7 DEF LogOut, link
<1>8. CASE UNCHANGED vars
  BY <1>8 DEF vars, link, bot
<1> QED
  BY <1>1, <1>2, <1>3, <1>4, <1>5, <1>6, <1>7, <1>8 DEF Next, Answered

LEMMA SendTyped ==
    ASSUME told \in {"none", "in", "out"}, excuse \in BOOLEAN, Send("in")
    PROVE  told' \in {"none", "in", "out"} /\ excuse' \in BOOLEAN
<1>1. CASE Linked
  BY <1>1 DEF Send
<1>2. CASE ~Linked
  BY <1>2 DEF Send, view
<1> QED
  BY <1>1, <1>2

LEMMA BotStep == ASSUME BotTyped, [Next]_vars PROVE BotTyped'
<1> USE DEF BotTyped
<1>1. CASE Reconnect \/ Create \/ CreateFails
  BY <1>1, TroubleLeft DEF Reconnect, Create, CreateFails, bot, ext, view
<1>2. CASE PluginInit \/ SetConfig \/ PluginCleanup
  BY <1>2, TroubleLeft DEF PluginInit, SetConfig, PluginCleanup, bot, ext, view
<1>3. CASE \E s \in Socks : OnOpen(s) \/ Breaks(s) \/ Reports(s)
  BY <1>3, TroubleLeft DEF OnOpen, Breaks, Reports, OnClose, OnError, bot, ext, view
<1>4. CASE CheckAndReportLogin
  BY <1>4, SendTyped DEF CheckAndReportLogin, ext
<1>5. CASE WatchTick
  BY <1>5 DEF WatchTick, ext, view
<1>6. CASE Confirmed
  BY <1>6 DEF Confirmed, ext, view
<1>7. CASE LateChecked
  BY <1>7, SendTyped DEF LateChecked, ext
<1>8. CASE Heartbeat \/ Elapse
  BY <1>8 DEF Heartbeat, Elapse, ext, view
<1>9. CASE LogIn
  BY <1>9, SendTyped DEF LogIn, view
<1>10. CASE \E noticed \in BOOLEAN : LogOut(noticed)
  BY <1>10, TroubleLeft DEF LogOut
<1>11. CASE UNCHANGED vars
  BY <1>11 DEF vars, bot, ext, view
<1> QED
  BY <1>1, <1>2, <1>3, <1>4, <1>5, <1>6, <1>7, <1>8, <1>9, <1>10, <1>11 DEF Next, Answered

(* The variables of the plugin have their types, and a reconnect timer that *)
(* it knows of runs: no timer is cleared, or fires, behind its back.        *)
THEOREM PluginTyped == ASSUME InterlinkAssumption PROVE Spec => []TypeOK
<1>1. Init => LinkInv /\ FlagsTyped /\ BotTyped
  BY InitLink DEF InterlinkAssumption, Init, FlagsTyped, BotTyped
<1>2. LinkInv /\ FlagsTyped /\ BotTyped /\ [Next]_vars => (LinkInv /\ FlagsTyped /\ BotTyped)'
  BY LinkStep, FlagsStep, BotStep
<1>3. LinkInv /\ FlagsTyped /\ BotTyped => TypeOK
  BY DEF LinkInv, FlagsTyped, BotTyped, Tracked, TypeOK
<1> QED
  BY <1>1, <1>2, <1>3, PTL DEF Spec
============================================================================
