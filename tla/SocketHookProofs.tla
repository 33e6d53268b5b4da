------------------------- MODULE SocketHookProofs -------------------------
(* Proofs about the WebSocket hooks of the console. *)
EXTENDS SocketHook, FiniteSetTheorems, TLAPS

(***************************************************************************)
(* The inductive invariant.  What is not closed is the socket in wsRef, and *)
(* while it is there no reconnect timer runs; a hook that was refused, and *)
(* one that is unmounted, has neither.                                     *)
(***************************************************************************)
Idle == timers = 0 /\ \A s \in Socks : sock[s] = "free"

Types ==
    /\ kind \in {"events", "public"} /\ mounted \in {"new", "yes", "no"} /\ path \in Paths
    /\ ref \in Socks \cup {NoSock} /\ spath \in [Socks -> Paths]
    /\ sock \in [Socks -> {"free", "connecting", "open", "closing", "aborted"}]
    /\ timers \in 0..1 /\ hb \in BOOLEAN /\ connected \in BOOLEAN
    /\ closing \in Reasons \cup {"none"} /\ lastReason \in Reasons \cup {"none"}

Lone ==
    /\ \A s, t \in Socks : sock[s] # "free" /\ sock[t] # "free" => s = t
    /\ timers > 0 => mounted = "yes" /\ \A s \in Socks : sock[s] = "free"
    /\ mounted = "new" => Idle /\ ref = NoSock /\ ~connected /\ ~hb /\ lastReason = "none"
    /\ \A s \in Socks : sock[s] # "free" /\ mounted = "yes" => ref = s
    /\ \A s \in Socks : sock[s] \in {"connecting", "open"} => mounted = "yes"
    /\ HeartbeatOwn
    /\ Final(lastReason) => Idle /\ ~connected

LinkInv == Types /\ Lone

LEMMA InitLink == ASSUME HookAssumption, Init PROVE LinkInv
<1>1. Types
  <2>1. spath \in [Socks -> Paths]
    BY DEF Init
  <2>2. connected \in BOOLEAN /\ hb \in BOOLEAN
    BY DEF Init
  <2> QED
    BY <2>1, <2>2 DEF Init, Types
<1>2. Lone
  BY DEF Init, Lone, Idle, HeartbeatOwn, Final, Skipped, SkippedPublic
<1> QED
  BY <1>1, <1>2 DEF LinkInv

(* Connect takes a socket that is free; the one it replaces is too.         *)
LEMMA Connected ==
    ASSUME HookAssumption, Types, \A s \in Socks : sock[s] = "free", Connect
    PROVE  /\ ref' \in Socks /\ sock' = [sock EXCEPT ![ref'] = "connecting"]
           /\ spath' \in [Socks -> Paths] /\ closing' \in {closing, "manual_close"}
<1> DEFINE left == IF ref = NoSock THEN sock ELSE Shut(ref)
           c == CHOOSE x \in Socks : left[x] = "free"
<1>1. left = sock
  BY DEF Shut, Types
<1>2. c \in Socks
  BY <1>1 DEF HookAssumption
<1>3. ref' = c /\ sock' = [left EXCEPT ![c] = "connecting"] /\ spath' = [spath EXCEPT ![c] = path]
      /\ closing' \in {closing, "manual_close"}
  BY DEF Connect
<1> HIDE DEF left, c
<1> QED
  BY <1>1, <1>2, <1>3 DEF Types

(* A hook that has nothing connects.                                        *)
LEMMA Connecting ==
    ASSUME HookAssumption, LinkInv, \A s \in Socks : sock[s] = "free", Connect,
           ~connected, ~hb, ~Final(lastReason), mounted' = "yes", timers' = 0,
           UNCHANGED <<kind, path, hb, connected, lastReason>>
    PROVE  LinkInv'
<1>1. /\ ref' \in Socks /\ sock' = [sock EXCEPT ![ref'] = "connecting"]
      /\ spath' \in [Socks -> Paths] /\ closing' \in {closing, "manual_close"}
  BY Connected DEF LinkInv
<1>2. Types'
  BY <1>1 DEF LinkInv, Types, Reasons
<1>3. sock'[ref'] = "connecting" /\ \A s \in Socks \ {ref'} : sock'[s] = "free"
  BY <1>1 DEF LinkInv, Types
<1>4. ~hb' /\ ~connected' /\ ~Final(lastReason)'
  BY DEF Final, Skipped, SkippedPublic
<1>5. Lone'
  BY <1>2, <1>3, <1>4 DEF Lone, HeartbeatOwn
<1> QED
  BY <1>2, <1>5 DEF LinkInv

LEMMA MountLink == ASSUME HookAssumption, LinkInv, Mount PROVE LinkInv'
<1>1. mounted = "new" /\ mounted' = "yes" /\ Connect /\ UNCHANGED <<kind, path, timers, hb, connected, lastReason>>
  BY DEF Mount
<1>2. timers = 0 /\ ~connected /\ ~hb /\ \A s \in Socks : sock[s] = "free"
  BY <1>1 DEF LinkInv, Lone, Idle
<1>3. ~Final(lastReason)
  BY <1>1 DEF LinkInv, Lone, Final, Skipped, SkippedPublic
<1> QED
  BY <1>1, <1>2, <1>3, Connecting

LEMMA RetryLink == ASSUME HookAssumption, LinkInv, Retry PROVE LinkInv'
<1>1. timers > 0 /\ timers' = timers - 1 /\ Connect /\ UNCHANGED <<kind, mounted, path, hb, connected, lastReason>>
  BY DEF Retry
<1>2. timers' = 0 /\ mounted' = "yes" /\ \A s \in Socks : sock[s] = "free"
  BY <1>1 DEF LinkInv, Types, Lone
<1>3. ~hb /\ ~connected
  BY <1>1, <1>2 DEF LinkInv, Types, Lone, HeartbeatOwn
<1>4. ~Final(lastReason)
  BY <1>1 DEF LinkInv, Types, Lone, Idle
<1> QED
  BY <1>1, <1>2, <1>3, <1>4, Connecting

(* ws.close() leaves every socket but one alone, and frees none.            *)
LEMMA ShutOne ==
    ASSUME Types, NEW s \in Socks
    PROVE  /\ Shut(s) \in [Socks -> {"free", "connecting", "open", "closing", "aborted"}]
           /\ \A t \in Socks \ {s} : Shut(s)[t] = sock[t]
           /\ Shut(s)[s] \notin {"connecting", "open"} /\ (Shut(s)[s] = "free" <=> sock[s] = "free")
           /\ sock[s] \in {"open", "closing"} => Shut(s)[s] = "closing"
<1>1. sock[s] \in {"free", "connecting", "open", "closing", "aborted"}
  BY DEF Types
<1>2. CASE sock[s] = "connecting"
  BY <1>1, <1>2 DEF Shut, Types
<1>3. CASE sock[s] = "open"
  BY <1>1, <1>3 DEF Shut, Types
<1>4. CASE sock[s] \notin {"connecting", "open"}
  BY <1>1, <1>4 DEF Shut, Types
<1> QED
  BY <1>2, <1>3, <1>4

LEMMA UnmountLink == ASSUME HookAssumption, LinkInv, Unmount PROVE LinkInv'
<1>1. /\ mounted = "yes" /\ mounted' = "no" /\ timers' = 0 /\ hb' = FALSE /\ ref' = NoSock
      /\ closing' = "manual_close" /\ UNCHANGED <<kind, path, spath, connected, lastReason>>
      /\ sock' = IF ref = NoSock THEN sock ELSE Shut(ref)
  BY DEF Unmount
<1>2. \A s \in Socks : sock[s] # "free" => ref = s
  BY <1>1 DEF LinkInv, Lone
<1>5. closing' \in Reasons \cup {"none"} /\ timers' \in 0..1
  BY <1>1 DEF Reasons
<1>7. hb' \in BOOLEAN
  BY <1>1
<1>6. connected' \in BOOLEAN
  BY <1>1 DEF LinkInv, Types
<1>3. CASE ref = NoSock
  <2>1. sock' = sock /\ \A s \in Socks : sock[s] = "free"
    BY <1>1, <1>2, <1>3 DEF HookAssumption
  <2>2. Types'
    BY <1>1, <1>5, <1>6, <1>7, <2>1 DEF LinkInv, Types
  <2> QED
    BY <1>1, <2>1, <2>2 DEF LinkInv, Lone, Idle, HeartbeatOwn, Final, Skipped, SkippedPublic
<1>4. CASE ref # NoSock
  <2>1. ref \in Socks /\ sock' = Shut(ref)
    BY <1>1, <1>4 DEF LinkInv, Types
  <2>2. /\ sock' \in [Socks -> {"free", "connecting", "open", "closing", "aborted"}]
        /\ \A t \in Socks \ {ref} : sock'[t] = sock[t]
        /\ sock'[ref] \notin {"connecting", "open"} /\ (sock'[ref] = "free" <=> sock[ref] = "free")
    BY <2>1, ShutOne DEF LinkInv
  <2>3. \A s \in Socks : (sock'[s] = "free" <=> sock[s] = "free") /\ sock'[s] \notin {"connecting", "open"}
    BY <1>2, <2>2
  <2>4. Types'
    BY <1>1, <1>5, <1>6, <1>7, <2>2 DEF LinkInv, Types
  <2> QED
    BY <1>1, <2>3, <2>4 DEF LinkInv, Lone, Idle, HeartbeatOwn, Final, Skipped, SkippedPublic
<1> QED
  BY <1>3, <1>4

(* What closes the socket in wsRef while it is mounted.                     *)
LEMMA Closing ==
    ASSUME HookAssumption, LinkInv, ref \in Socks, sock[ref] # "free", sock' = Shut(ref), path' \in Paths,
           hb' \in BOOLEAN, hb' => hb, closing' \in Reasons,
           UNCHANGED <<kind, mounted, ref, spath, timers, connected, lastReason>>
    PROVE  LinkInv'
<1>1. /\ sock' \in [Socks -> {"free", "connecting", "open", "closing", "aborted"}]
      /\ \A t \in Socks \ {ref} : sock'[t] = sock[t]
      /\ sock'[ref] \notin {"connecting", "open"} /\ sock'[ref] # "free"
      /\ sock[ref] \in {"open", "closing"} => sock'[ref] = "closing"
  BY ShutOne DEF LinkInv
<1>2. Types'
  BY <1>1 DEF LinkInv, Types
<1>3. \A s \in Socks : (sock'[s] = "free" <=> sock[s] = "free") /\ (sock'[s] \in {"connecting", "open"} => sock'[s] = sock[s])
  BY <1>1
<1>4. HeartbeatOwn'
  BY <1>1 DEF LinkInv, Lone, HeartbeatOwn
<1>5. Lone'
  BY <1>3, <1>4 DEF LinkInv, Lone, Idle, Final, Skipped, SkippedPublic
<1> QED
  BY <1>2, <1>5 DEF LinkInv

LEMMA SetPathLink == ASSUME HookAssumption, LinkInv, NEW p \in Paths, SetPath(p) PROVE LinkInv'
<1>1. path' = p /\ UNCHANGED <<kind, mounted, ref, spath, timers, hb, connected, lastReason>>
  BY DEF SetPath
<1>2. CASE ref # NoSock /\ sock[ref] = "open"
  <2>1. ref \in Socks /\ sock' = Shut(ref) /\ closing' \in Reasons /\ hb \in BOOLEAN
    BY <1>2 DEF SetPath, LinkInv, Types, Reasons
  <2> QED
    BY <1>1, <1>2, <2>1, Closing
<1>3. CASE ~(ref # NoSock /\ sock[ref] = "open")
  <2>1. UNCHANGED <<closing, sock>>
    BY <1>3 DEF SetPath
  <2>2. Types'
    BY <1>1, <2>1 DEF LinkInv, Types
  <2> QED
    BY <1>1, <2>1, <2>2 DEF LinkInv, Lone, Idle, HeartbeatOwn, Final, Skipped, SkippedPublic
<1> QED
  BY <1>2, <1>3

LEMMA TimeoutLink == ASSUME HookAssumption, LinkInv, HeartbeatTimeout PROVE LinkInv'
<1>1. hb /\ hb' = FALSE /\ closing' = "heartbeat_timeout"
      /\ UNCHANGED <<kind, mounted, path, ref, spath, timers, connected, lastReason>>
  BY DEF HeartbeatTimeout
<1>2. ref # NoSock /\ sock[ref] \in {"open", "closing"}
  BY <1>1 DEF LinkInv, Lone, HeartbeatOwn
<1>3. ref \in Socks /\ sock' = Shut(ref) /\ sock[ref] # "free" /\ closing' \in Reasons /\ path' \in Paths
  BY <1>1, <1>2 DEF HeartbeatTimeout, LinkInv, Types, Reasons
<1> QED
  BY <1>1, <1>3, Closing

LEMMA OpenLink == ASSUME HookAssumption, LinkInv, NEW s \in Socks, OnOpen(s) PROVE LinkInv'
<1>1. sock[s] = "connecting" /\ mounted = "yes" /\ ref = s /\ ~Final(lastReason)
  BY DEF OnOpen, LinkInv, Lone, Idle
<1>2. /\ sock' = [sock EXCEPT ![s] = "open"] /\ connected' = TRUE /\ lastReason' = "none" /\ hb' = TRUE
      /\ UNCHANGED <<kind, mounted, path, ref, spath, timers, closing>>
  BY <1>1 DEF OnOpen
<1>3. Types'
  BY <1>2 DEF LinkInv, Types
<1>4. sock'[s] = "open" /\ s # NoSock /\ \A t \in Socks \ {s} : sock'[t] = sock[t]
  BY <1>2 DEF LinkInv, Types, HookAssumption
<1>5. ~Final(lastReason)'
  BY <1>2 DEF Final, Skipped, SkippedPublic
<1>6. timers' = 0
  BY <1>1, <1>2 DEF LinkInv, Types, Lone
<1>7. Lone'
  BY <1>1, <1>2, <1>4, <1>5, <1>6 DEF LinkInv, Lone, HeartbeatOwn
<1> QED
  BY <1>3, <1>7 DEF LinkInv

LEMMA CloseLink ==
    ASSUME HookAssumption, LinkInv, NEW s \in Socks, NEW code \in Codes, NEW error \in BOOLEAN, OnClose(s, code, error)
    PROVE  LinkInv'
<1> DEFINE reason == IF error THEN "network_error"
                     ELSE IF closing # "none" THEN closing
                     ELSE IF kind = "events" THEN Classify(code) ELSE ClassifyPublic(code)
<1>1. /\ sock[s] # "free" /\ sock' = [sock EXCEPT ![s] = "free"] /\ lastReason' = reason
      /\ timers' = IF Final(reason) \/ mounted # "yes" THEN timers ELSE timers + 1
      /\ closing' = "none" /\ connected' = FALSE /\ hb' = FALSE
      /\ UNCHANGED <<kind, mounted, path, ref, spath>>
  BY DEF OnClose
<1>2. reason \in Reasons
  <2>1. Classify(code) \in Reasons /\ ClassifyPublic(code) \in Reasons
    BY DEF Codes, Classify, ClassifyPublic, Reasons
  <2> QED
    BY <2>1 DEF LinkInv, Types, Reasons
<1> HIDE DEF reason
<1>3. \A t \in Socks : sock'[t] = "free"
  BY <1>1 DEF LinkInv, Types, Lone
<1>4. timers = 0 /\ mounted # "new"
  BY <1>1 DEF LinkInv, Types, Lone, Idle
<1>9. timers' \in 0..1
  BY <1>1, <1>4
<1>11. hb' \in BOOLEAN /\ connected' \in BOOLEAN
  BY <1>1
<1>10. lastReason' \in Reasons \cup {"none"} /\ closing' \in Reasons \cup {"none"}
  BY <1>1, <1>2
<1>5. Types'
  BY <1>1, <1>9, <1>10, <1>11 DEF LinkInv, Types
<1>6. timers' > 0 => mounted' = "yes" /\ ~Final(lastReason)'
  BY <1>1, <1>4 DEF Final
<1>7. Final(lastReason)' => timers' = 0
  BY <1>5, <1>6 DEF Types
<1>8. Lone'
  BY <1>1, <1>3, <1>4, <1>6, <1>7 DEF Lone, Idle, HeartbeatOwn
<1> QED
  BY <1>5, <1>8 DEF LinkInv

LEMMA LinkStep == ASSUME HookAssumption, LinkInv, [Next]_hookVars PROVE LinkInv'
<1>1. ASSUME NEW s \in Socks, OnMessage(s) PROVE LinkInv'
  <2>1. sock[s] = "open" /\ ref = s /\ hb' = TRUE
        /\ UNCHANGED <<kind, mounted, path, ref, sock, spath, timers, closing, connected, lastReason>>
    BY <1>1 DEF OnMessage, LinkInv, Lone
  <2>2. Types'
    BY <2>1 DEF LinkInv, Types
  <2>3. HeartbeatOwn' /\ mounted = "yes"
    BY <2>1 DEF HeartbeatOwn, HookAssumption, LinkInv, Lone
  <2> QED
    BY <2>1, <2>2, <2>3 DEF LinkInv, Lone, Idle, Final, Skipped, SkippedPublic
<1>2. CASE UNCHANGED hookVars
  <2>1. Types'
    BY <1>2 DEF LinkInv, Types, hookVars
  <2>2. Lone'
    BY <1>2 DEF LinkInv, Lone, Idle, HeartbeatOwn, Final, Skipped, SkippedPublic, hookVars
  <2> QED
    BY <2>1, <2>2 DEF LinkInv
<1> QED
  BY <1>1, <1>2, MountLink, UnmountLink, RetryLink, TimeoutLink, SetPathLink, OpenLink, CloseLink DEF Next

LEMMA LinkHolds == ASSUME HookAssumption PROVE Spec => []LinkInv
<1>1. Init => LinkInv
  BY InitLink
<1>2. LinkInv /\ [Next]_hookVars => LinkInv'
  BY LinkStep
<1> QED
  BY <1>1, <1>2, PTL DEF Spec

(* Every variable of a hook keeps its type, for any sockets and paths; so   *)
(* it never has two reconnect timers (useWebSocket, usePublicWebSocket).    *)
THEOREM TypeCorrect == ASSUME HookAssumption PROVE Spec => []TypeOK
<1>1. LinkInv => TypeOK
  <2> SUFFICES ASSUME LinkInv PROVE TypeOK
    OBVIOUS
  <2>1. {hb, connected} \subseteq BOOLEAN
    BY DEF LinkInv, Types
  <2>2. {closing, lastReason} \subseteq Reasons \cup {"none"}
    BY DEF LinkInv, Types
  <2> QED
    BY <2>1, <2>2 DEF TypeOK, LinkInv, Types
<1> QED
  BY <1>1, LinkHolds, PTL

(* A hook has one socket or one reconnect timer, however closes, errors,    *)
(* timeouts and changes of the path overlap.                                *)
THEOREM NeverTwo == ASSUME HookAssumption PROVE Spec => []OneLink
<1>1. LinkInv => OneLink
  <2> SUFFICES ASSUME LinkInv PROVE OneLink
    OBVIOUS
  <2> DEFINE A == {s \in Socks : sock[s] # "free"}
  <2>1. timers \in 0..1 /\ \A s, t \in A : s = t
    BY DEF LinkInv, Types, Lone
  <2>2. timers > 0 => A = {}
    BY DEF LinkInv, Lone
  <2>3. CASE A = {}
    <3>1. Cardinality(A) = 0
      BY <2>3, FS_EmptySet
    <3> HIDE DEF A
    <3>2. timers + Cardinality(A) <= 1
      BY <2>1, <3>1
    <3> QED
      BY <3>2 DEF OneLink, A
  <2>4. CASE A # {}
    <3>1. PICK s \in A : A = {s}
      BY <2>1, <2>4
    <3>2. Cardinality(A) = 1
      BY <3>1, FS_Singleton
    <3> HIDE DEF A
    <3>3. timers = 0
      BY <2>1, <2>2, <2>4
    <3>4. timers + Cardinality(A) <= 1
      BY <3>2, <3>3
    <3> QED
      BY <3>4 DEF OneLink, A
  <2> QED
    BY <2>3, <2>4
<1> QED
  BY <1>1, LinkHolds, PTL

(* The heartbeat timer of a hook is of the socket in wsRef, and so is the   *)
(* badge that shows it connected.                                           *)
THEOREM HeartbeatIsOwn == ASSUME HookAssumption PROVE Spec => []HeartbeatOwn
<1>1. LinkInv => HeartbeatOwn
  BY DEF LinkInv, Lone
<1> QED
  BY <1>1, LinkHolds, PTL

-----------------------------------------------------------------------------
(* The refinement: what Link puts for the variable of LiveLink.             *)
Phase ==
    CASE mounted # "yes" -> "off"
      [] mounted = "yes" /\ connected -> "up"
      [] mounted = "yes" /\ ~connected /\ Live = {} /\ timers = 0 /\ Final(lastReason) -> "stopped"
      [] OTHER -> "trying"

PhaseTable ==
    Phase = IF mounted # "yes" THEN "off" ELSE IF connected THEN "up"
            ELSE IF Final(lastReason) THEN "stopped" ELSE "trying"

LEMMA PhaseIs == LinkInv => PhaseTable
<1> SUFFICES ASSUME LinkInv PROVE PhaseTable
  OBVIOUS
<1>1. Final(lastReason) => Live = {} /\ timers = 0 /\ ~connected
  BY DEF LinkInv, Lone, Idle, Live
<1>2. connected \in BOOLEAN
  BY DEF LinkInv, Types
<1>3. CASE mounted # "yes"
  BY <1>3 DEF PhaseTable, Phase
<1>4. CASE mounted = "yes" /\ connected
  BY <1>4 DEF PhaseTable, Phase
<1>5. CASE mounted = "yes" /\ ~connected /\ Final(lastReason)
  BY <1>1, <1>5 DEF PhaseTable, Phase
<1>6. CASE mounted = "yes" /\ ~connected /\ ~Final(lastReason)
  BY <1>6 DEF PhaseTable, Phase
<1> QED
  BY <1>3, <1>4, <1>5, <1>6

LEMMA PhaseIsNext == LinkInv' => PhaseTable'
BY PhaseIs, PTL

LEMMA PhaseStep ==
    ASSUME HookAssumption, LinkInv, LinkInv', [Next]_hookVars
    PROVE  /\ Phase = "off" => Phase' # "stopped"
           /\ Phase = "stopped" => Phase' \in {"stopped", "off"}
<1>1. Phase = IF mounted # "yes" THEN "off" ELSE IF connected THEN "up"
              ELSE IF Final(lastReason) THEN "stopped" ELSE "trying"
  BY PhaseIs DEF PhaseTable
<1>2. Phase' = IF mounted' # "yes" THEN "off" ELSE IF connected' THEN "up"
               ELSE IF Final(lastReason)' THEN "stopped" ELSE "trying"
  BY PhaseIsNext DEF PhaseTable
<1>3. ASSUME mounted # "yes", mounted' = "yes" PROVE ~Final(lastReason)'
  <2>1. Mount
    BY <1>3 DEF Next, hookVars, Unmount, Retry, HeartbeatTimeout, SetPath, OnOpen, OnMessage, OnClose
  <2>2. lastReason' = "none"
    BY <2>1 DEF Mount, LinkInv, Lone
  <2> QED
    BY <2>2 DEF Final, Skipped, SkippedPublic
<1>4. ASSUME mounted = "yes", mounted' = "yes", Final(lastReason), ~connected
      PROVE  Final(lastReason)' /\ ~connected'
  <2>1. timers = 0 /\ \A s \in Socks : sock[s] = "free"
    BY <1>4 DEF LinkInv, Lone, Idle
  <2>2. UNCHANGED <<kind, connected, lastReason>>
    BY <1>4, <2>1 DEF Next, hookVars, Mount, Unmount, Retry, HeartbeatTimeout, SetPath, OnOpen, OnMessage, OnClose
  <2> QED
    BY <1>4, <2>2 DEF Final, Skipped, SkippedPublic
<1>5. Phase = "off" <=> mounted # "yes"
  BY <1>1
<1>6. Phase = "stopped" => mounted = "yes" /\ ~connected /\ Final(lastReason)
  BY <1>1
<1>7. Phase' = "stopped" => mounted' = "yes" /\ Final(lastReason)'
  BY <1>2
<1>8. mounted' # "yes" => Phase' = "off"
  BY <1>2
<1>9. mounted' = "yes" /\ ~connected' /\ Final(lastReason)' => Phase' = "stopped"
  BY <1>2
<1> QED
  BY <1>3, <1>4, <1>5, <1>6, <1>7, <1>8, <1>9

(* The hook implements the reconnecting link: it never goes on by itself    *)
(* after a refusal, and does nothing else that the link may not do.         *)
THEOREM IsALink == ASSUME HookAssumption PROVE Spec => Link!Safety
<1>1. Init => Link!Init
  <2> SUFFICES ASSUME Init PROVE Phase = "off"
    BY DEF Link!Init, Phase
  <2> QED
    BY DEF Init, Phase
<1>2. LinkInv /\ LinkInv' /\ [Next]_hookVars => [Link!Next]_Phase
  <2> SUFFICES ASSUME LinkInv, LinkInv', [Next]_hookVars PROVE Link!Next \/ Phase' = Phase
    OBVIOUS
  <2>1. /\ Phase = "off" => Phase' # "stopped"
        /\ Phase = "stopped" => Phase' \in {"stopped", "off"}
    BY PhaseStep
  <2>2. Phase \in {"off", "up", "stopped", "trying"} /\ Phase' \in {"off", "up", "stopped", "trying"}
    BY PhaseIs, PhaseIsNext DEF PhaseTable
  <2>3. Link!Next <=>
          \/ Phase = "off" /\ Phase' \in {"trying", "up"}
          \/ Phase = "trying" /\ Phase' \in {"up", "stopped"}
          \/ Phase = "up" /\ Phase' \in {"trying", "stopped"}
          \/ Phase # "off" /\ Phase' = "off"
    BY DEF Link!Next, Link!Want, Link!Open, Link!Lose, Link!Refuse, Link!Expel, Link!Leave, Phase
  <2> HIDE DEF Phase
  <2> QED
    BY <2>1, <2>2, <2>3
<1>3. Init /\ [][Next]_hookVars /\ []LinkInv => Link!Init /\ [][Link!Next]_Phase
  BY <1>1, <1>2, PTL
<1> QED
  BY <1>3, LinkHolds, PTL DEF Spec, Link!Safety, Phase

===========================================================================
