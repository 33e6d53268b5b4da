--------------------------- MODULE StreamsProofs ---------------------------
(***************************************************************************)
(* What is proved of the parts holds of their composition, the one that is *)
(* model-checked: each part of Streams takes the steps of its module, and  *)
(* rests while another is exercised.                                       *)
(***************************************************************************)
EXTENDS Streams, FiniteSetTheorems, TLAPS

MonitorProved == INSTANCE BotMessagesProofs WITH pc <- session

HookProved == INSTANCE SocketHookProofs

-----------------------------------------------------------------------------
(* The parts and their proved instances each have a copy of FiniteSets.     *)
LEMMA SameFiniteSets ==
    /\ \A S : Admit!Cardinality(S) = Cardinality(S)
    /\ \A S : Hook!Cardinality(S) = HookProved!Cardinality(S)
    /\ \A S : Hook!IsFiniteSet(S) <=> HookProved!IsFiniteSet(S)
<1>1. \A S : Admit!Cardinality(S) = Cardinality(S)
  BY DEF Admit!Cardinality, Cardinality
<1>2. \A S : Hook!Cardinality(S) = HookProved!Cardinality(S)
  BY DEF Hook!Cardinality, HookProved!Cardinality
<1>3. \A S : Hook!IsFiniteSet(S) <=> HookProved!IsFiniteSet(S)
  BY DEF Hook!IsFiniteSet, HookProved!IsFiniteSet
<1> QED
  BY <1>1, <1>2, <1>3

-----------------------------------------------------------------------------
(* The admission of WebSockets *)

\* CountersExact of PublicWs, with this module's copy of Cardinality.
ExactCounts == \A i \in Ips : perIp[i] = Cardinality(Admit!Open(Admit!From(i)))

(* The type invariant.  That no counter becomes negative follows from its   *)
(* being exact, so the two are proved together.                             *)
Counting == Admit!TypeOK /\ Admit!ConnectionsExact /\ IsFiniteSet(connections) /\ ExactCounts

(* What the open sockets are after a step that moves one of them.           *)
LEMMA OpenAfter ==
    ASSUME Admit!TypeOK, NEW c \in Conns, NEW to \in {"rejected", "accepting", "open", "closed"},
           Admit!Move(c, to), NEW S \in SUBSET Conns
    PROVE  Admit!Open(S)' = IF to = "open" /\ c \in S THEN Admit!Open(S) \cup {c} ELSE Admit!Open(S) \ {c}
BY DEF Admit!TypeOK, Admit!Move, Admit!Open

(* Registering a socket that is not open, and unregistering one that is,    *)
(* change the number of the open ones by one.                               *)
LEMMA OneMore ==
    ASSUME NEW S, IsFiniteSet(S), NEW c
    PROVE  /\ c \notin S => Cardinality(S \cup {c}) = Cardinality(S) + 1
           /\ c \in S => Cardinality(S \ {c}) = Cardinality(S) - 1
           /\ Cardinality(S) \in Nat
           /\ c \in S => Cardinality(S) > 0
<1>1. Cardinality(S) \in Nat
  BY FS_CardinalityType
<1>2. c \notin S => Cardinality(S \cup {c}) = Cardinality(S) + 1
  BY FS_AddElement
<1>3. c \in S => Cardinality(S \ {c}) = Cardinality(S) - 1
  BY FS_RemoveElement
<1>4. c \in S => Cardinality(S) # 0
  BY FS_EmptySet
<1> QED
  BY <1>1, <1>2, <1>3, <1>4

(* A step that opens and closes no socket.                                  *)
LEMMA OthersCount ==
    ASSUME Admit!ConnsAssumption, Counting, Admit!TypeOK',
           UNCHANGED <<connections, perIp>>, \A S \in SUBSET Conns : Admit!Open(S)' = Admit!Open(S)
    PROVE  Counting'
<1>1. Conns \in SUBSET Conns /\ \A i \in Ips : Admit!From(i) \in SUBSET Conns /\ Admit!From(i)' = Admit!From(i)
  BY DEF Admit!From, Admit!ConnsAssumption
<1>2. Admit!ConnectionsExact' /\ IsFiniteSet(connections)'
  BY <1>1 DEF Counting, Admit!ConnectionsExact
<1>3. ExactCounts'
  BY <1>1 DEF Counting, ExactCounts
<1> QED
  BY <1>2, <1>3 DEF Counting

(* Each step keeps the counters and the set of connections exact.           *)
LEMMA CountingStep ==
    ASSUME Admit!ConnsAssumption, Counting, [Next]_vars
    PROVE  Counting'
<1>0. /\ Admit!TypeOK /\ Admit!ConnectionsExact /\ IsFiniteSet(connections) /\ ExactCounts
      /\ Public \subseteq Conns /\ Ip \in [Conns -> Ips]
  BY DEF Counting, Admit!ConnsAssumption
<1>1. \A i \in Ips : Admit!From(i) \in SUBSET Conns /\ Admit!From(i)' = Admit!From(i)
  BY <1>0 DEF Admit!From
<1>2. \A S \in SUBSET Conns : IsFiniteSet(Admit!Open(S))
  <2> SUFFICES ASSUME NEW S \in SUBSET Conns PROVE IsFiniteSet(Admit!Open(S))
    OBVIOUS
  <2>1. Admit!Open(S) \subseteq connections
    BY <1>0 DEF Admit!Open, Admit!ConnectionsExact
  <2> QED
    BY <1>0, <2>1, FS_Subset
<1>3. ASSUME NEW c \in Conns, Admit!Ask(c) PROVE Counting'
  <2>1. PICK to \in {"rejected", "accepting"} : Admit!Move(c, to)
    BY <1>3 DEF Admit!Ask
  <2>2. \A S \in SUBSET Conns : Admit!Open(S)' = Admit!Open(S)
    BY <1>0, <1>3, <2>1, OpenAfter DEF Admit!Ask, Admit!Open
  <2>3. Admit!TypeOK'
    BY <1>0, <1>3, <2>1 DEF Admit!TypeOK, Admit!Ask, Admit!Move
  <2> QED
    BY <1>3, <2>2, <2>3, OthersCount DEF Admit!Ask
<1>4. ASSUME NEW c \in Conns, Admit!AskEvents(c) PROVE Counting'
  <2>1. \A S \in SUBSET Conns : Admit!Open(S)' = Admit!Open(S)
    BY <1>0, <1>4, OpenAfter DEF Admit!AskEvents, Admit!Open
  <2>2. Admit!TypeOK'
    BY <1>0, <1>4 DEF Admit!TypeOK, Admit!AskEvents, Admit!Move
  <2> QED
    BY <1>4, <2>1, <2>2, OthersCount DEF Admit!AskEvents
<1>5. ASSUME NEW c \in Conns, Admit!Accepted(c) PROVE Counting'
  <2>1. c \notin Admit!Open(Conns) /\ Admit!Move(c, "open") /\ perIp' = Admit!Counted(c) /\ connections' = connections \cup {c}
    BY <1>5 DEF Admit!Accepted, Admit!Open
  <2>2. \A S \in SUBSET Conns : Admit!Open(S)' = IF c \in S THEN Admit!Open(S) \cup {c} ELSE Admit!Open(S) \ {c}
    BY <1>0, <2>1, OpenAfter
  <2>3. Admit!TypeOK'
    BY <1>0, <1>5 DEF Admit!TypeOK, Admit!Accepted, Admit!Move, Admit!Counted
  <2>4. Admit!ConnectionsExact' /\ IsFiniteSet(connections)'
    <3>1. Admit!Open(Conns)' = Admit!Open(Conns) \cup {c}
      BY <2>2
    <3> QED
      BY <1>0, <2>1, <3>1, FS_AddElement DEF Admit!ConnectionsExact
  <2>5. ASSUME NEW i \in Ips PROVE perIp'[i] = Cardinality(Admit!Open(Admit!From(i))')
    <3>1. c \notin Admit!Open(Admit!From(i))
      BY <2>1 DEF Admit!Open
    <3>2. perIp[i] = Cardinality(Admit!Open(Admit!From(i))) /\ perIp[i] \in Nat
      BY <1>0 DEF ExactCounts, Admit!TypeOK
    <3>3. CASE c \in Admit!From(i)
      <4>1. Admit!Open(Admit!From(i))' = Admit!Open(Admit!From(i)) \cup {c}
        BY <1>1, <2>2, <3>3
      <4>2. perIp'[i] = perIp[i] + 1
        BY <1>0, <2>1, <3>3 DEF Admit!Counted, Admit!From, Admit!TypeOK
      <4> QED
        BY <1>1, <1>2, <3>1, <3>2, <4>1, <4>2, OneMore
    <3>4. CASE c \notin Admit!From(i)
      <4>1. Admit!Open(Admit!From(i))' = Admit!Open(Admit!From(i))
        BY <1>1, <2>2, <3>1, <3>4
      <4>2. perIp'[i] = perIp[i]
        BY <1>0, <2>1, <3>4 DEF Admit!Counted, Admit!From, Admit!TypeOK
      <4> QED
        BY <3>2, <4>1, <4>2
    <3> QED
      BY <3>3, <3>4
  <2>6. ExactCounts'
    BY <1>1, <2>5 DEF ExactCounts
  <2> QED
    BY <2>3, <2>4, <2>6 DEF Counting
<1>6. ASSUME NEW c \in Conns, Admit!AcceptFails(c) PROVE Counting'
  <2>1. \A S \in SUBSET Conns : Admit!Open(S)' = Admit!Open(S)
    BY <1>0, <1>6, OpenAfter DEF Admit!AcceptFails, Admit!Open
  <2>2. Admit!TypeOK'
    BY <1>0, <1>6 DEF Admit!TypeOK, Admit!AcceptFails, Admit!Move
  <2> QED
    BY <1>6, <2>1, <2>2, OthersCount DEF Admit!AcceptFails
<1>7. ASSUME NEW c \in Conns, Admit!Leaves(c) PROVE Counting'
  <2>1. \A S \in SUBSET Conns : Admit!Open(S)' = Admit!Open(S)
    BY <1>7 DEF Admit!Leaves, Admit!Open
  <2>2. Admit!TypeOK'
    BY <1>0, <1>7 DEF Admit!TypeOK, Admit!Leaves
  <2> QED
    BY <1>7, <2>1, <2>2, OthersCount DEF Admit!Leaves
<1>8. ASSUME NEW c \in Conns, Admit!Ends(c) PROVE Counting'
  <2>1. /\ c \in Admit!Open(Conns) /\ Admit!Move(c, "closed") /\ connections' = connections \ {c}
        /\ perIp' = IF c \in Public THEN [perIp EXCEPT ![Ip[c]] = @ - 1] ELSE perIp
        /\ admitted[c] = "open"
    BY <1>8 DEF Admit!Ends, Admit!Open, Admit!Unregistered
  <2>2. \A S \in SUBSET Conns : Admit!Open(S)' = Admit!Open(S) \ {c}
    BY <1>0, <2>1, OpenAfter
  <2>3. Admit!ConnectionsExact' /\ IsFiniteSet(connections)'
    <3>1. Admit!Open(Conns)' = Admit!Open(Conns) \ {c}
      BY <2>2
    <3> QED
      BY <1>0, <2>1, <3>1, FS_RemoveElement DEF Admit!ConnectionsExact
  <2>4. ASSUME NEW i \in Ips
        PROVE  perIp'[i] = Cardinality(Admit!Open(Admit!From(i))') /\ perIp'[i] \in Nat
    <3>1. perIp[i] = Cardinality(Admit!Open(Admit!From(i))) /\ perIp[i] \in Nat
      BY <1>0 DEF ExactCounts, Admit!TypeOK
    <3>2. CASE c \in Admit!From(i)
      <4>1. c \in Admit!Open(Admit!From(i)) /\ Admit!Open(Admit!From(i))' = Admit!Open(Admit!From(i)) \ {c}
        BY <1>1, <2>1, <2>2, <3>2 DEF Admit!Open
      <4>2. perIp'[i] = perIp[i] - 1
        BY <1>0, <2>1, <3>2 DEF Admit!From, Admit!TypeOK
      <4>3. IsFiniteSet(Admit!Open(Admit!From(i)))
        BY <1>1, <1>2
      <4>4. Cardinality(Admit!Open(Admit!From(i)) \ {c}) = perIp[i] - 1 /\ perIp[i] > 0
        BY <3>1, <4>1, <4>3, OneMore
      <4> QED
        BY <3>1, <4>1, <4>2, <4>4
    <3>3. CASE c \notin Admit!From(i)
      <4>1. Admit!Open(Admit!From(i))' = Admit!Open(Admit!From(i))
        BY <1>1, <2>2, <3>3 DEF Admit!Open
      <4>2. perIp'[i] = perIp[i]
        BY <1>0, <2>1, <3>3 DEF Admit!From, Admit!TypeOK
      <4> QED
        BY <3>1, <4>1, <4>2
    <3> QED
      BY <3>2, <3>3
  <2>5. ExactCounts'
    BY <1>1, <2>4 DEF ExactCounts
  <2>6. Admit!TypeOK'
    <3>1. perIp' \in [Ips -> Nat]
      <4>1. DOMAIN perIp' = Ips /\ perIp' = [i \in Ips |-> perIp'[i]]
        BY <1>0, <2>1 DEF Admit!TypeOK
      <4> QED
        BY <2>4, <4>1
    <3> QED
      BY <1>0, <1>8, <2>1, <3>1 DEF Admit!TypeOK, Admit!Ends, Admit!Move
  <2> QED
    BY <2>3, <2>5, <2>6 DEF Counting
<1>9. ASSUME NEW i \in Ips, Admit!Cooled(i) PROVE Counting'
  <2>1. \A S \in SUBSET Conns : Admit!Open(S)' = Admit!Open(S)
    BY <1>9 DEF Admit!Cooled, Admit!Open
  <2>2. Admit!TypeOK'
    BY <1>0, <1>9 DEF Admit!TypeOK, Admit!Cooled
  <2> QED
    BY <1>9, <2>1, <2>2, OthersCount DEF Admit!Cooled
<1>10. CASE UNCHANGED admitVars
  <2>1. \A S \in SUBSET Conns : Admit!Open(S)' = Admit!Open(S)
    BY <1>10 DEF admitVars, Admit!Open
  <2>2. Admit!TypeOK'
    BY <1>0, <1>10 DEF Admit!TypeOK, admitVars
  <2> QED
    BY <1>10, <2>1, <2>2, OthersCount DEF admitVars
<1> QED
  BY <1>3, <1>4, <1>5, <1>6, <1>7, <1>8, <1>9, <1>10 DEF Next, vars, Admit!Next, Admit!Step

(* However handshakes, failed accepts and disconnects overlap, the counters *)
(* of the addresses and the set of connections are exact: for any number of *)
(* sockets and addresses, and for any limits.                               *)
THEOREM CountingHolds == Spec => []Counting
<1>1. Init => Counting
  <2> SUFFICES ASSUME Admit!Init PROVE Counting
    BY DEF Init
  <2>1. \A S \in SUBSET Conns : Admit!Open(S) = {}
    BY DEF Admit!Init, Admit!Open
  <2>2. \A i \in Ips : Admit!From(i) \in SUBSET Conns
    BY PartsAssumption DEF Admit!From, Admit!ConnsAssumption
  <2>3. IsFiniteSet({}) /\ Cardinality({}) = 0
    BY FS_EmptySet
  <2>4. Admit!TypeOK
    BY DEF Admit!Init, Admit!TypeOK
  <2>5. Admit!ConnectionsExact /\ ExactCounts
    BY <2>1, <2>2, <2>3 DEF Admit!Init, Admit!ConnectionsExact, ExactCounts
  <2> QED
    BY <2>3, <2>4, <2>5 DEF Counting, Admit!Init
<1>2. Counting /\ [Next]_vars => Counting'
  BY PartsAssumption, CountingStep
<1> QED
  BY <1>1, <1>2, PTL DEF Spec

-----------------------------------------------------------------------------
(* The parts that have proof modules of their own, and the timers *)

LEMMA MonitorPart == Spec => MonitorProved!Spec
<1>1. Init => MonitorProved!Init
  BY DEF Init, Monitor!Init, MonitorProved!Init
<1>2. ASSUME Monitor!Next PROVE MonitorProved!Next
  BY <1>2 DEF Monitor!Next, MonitorProved!Next, Monitor!Push, MonitorProved!Push,
       Monitor!Cleanup, MonitorProved!Cleanup, Monitor!Open, MonitorProved!Open, Monitor!Idle, MonitorProved!Idle,
       Monitor!Session, MonitorProved!Session, Monitor!Sent, MonitorProved!Sent,
       Monitor!SendFails, MonitorProved!SendFails, Monitor!Follow, MonitorProved!Follow,
       Monitor!Beaten, MonitorProved!Beaten, Monitor!SetSession, MonitorProved!SetSession,
       Monitor!Woken, MonitorProved!Woken, Monitor!NewMsgs, MonitorProved!NewMsgs,
       Monitor!AfterMsg, MonitorProved!AfterMsg, Monitor!Elems, MonitorProved!Elems,
       Monitor!Appended, MonitorProved!Appended
<1>3. [Next]_vars => [MonitorProved!Next]_MonitorProved!vars
  BY <1>2 DEF Next, vars, monitorVars, MonitorProved!vars
<1> QED
  BY <1>1, <1>3, PTL DEF Spec, MonitorProved!Spec

LEMMA HookPart == Spec => HookProved!Spec
<1>1. Init => HookProved!Init
  BY DEF Init, Hook!Init, HookProved!Init
<1>2. ASSUME Hook!Next PROVE HookProved!Next
  <2>1. Hook!Connect <=> HookProved!Connect
    BY DEF Hook!Connect, HookProved!Connect, Hook!Shut, HookProved!Shut
  <2>2. CASE Hook!Mount \/ Hook!Retry
    BY <2>1, <2>2 DEF HookProved!Next, Hook!Mount, HookProved!Mount, Hook!Retry, HookProved!Retry
  <2>3. CASE Hook!Unmount \/ Hook!HeartbeatTimeout \/ \E p \in Paths : Hook!SetPath(p)
    BY <2>3 DEF HookProved!Next, Hook!Unmount, HookProved!Unmount, Hook!HeartbeatTimeout,
         HookProved!HeartbeatTimeout, Hook!SetPath, HookProved!SetPath, Hook!Shut, HookProved!Shut
  <2>4. CASE \E s \in Socks : Hook!OnOpen(s) \/ Hook!OnMessage(s)
    BY <2>4 DEF HookProved!Next, Hook!OnOpen, HookProved!OnOpen, Hook!OnMessage, HookProved!OnMessage
  <2>5. CASE \E s \in Socks, code \in Hook!Codes, error \in BOOLEAN : Hook!OnClose(s, code, error)
    <3>1. PICK s \in Socks, code \in HookProved!Codes, error \in BOOLEAN : Hook!OnClose(s, code, error)
      BY <2>5 DEF Hook!Codes, HookProved!Codes
    <3>2. HookProved!OnClose(s, code, error)
      BY <3>1 DEF Hook!OnClose, HookProved!OnClose, Hook!Classify, HookProved!Classify, Hook!ClassifyPublic,
           HookProved!ClassifyPublic, Hook!Final, HookProved!Final, Hook!Skipped, HookProved!Skipped,
           Hook!SkippedPublic, HookProved!SkippedPublic
    <3> QED
      BY <3>2 DEF HookProved!Next
  <2> QED
    BY <1>2, <2>2, <2>3, <2>4, <2>5 DEF Hook!Next
<1>3. [Next]_vars => [HookProved!Next]_HookProved!hookVars
  BY <1>2 DEF Next, vars, hookVars, HookProved!hookVars
<1> QED
  BY <1>1, <1>3, PTL DEF Spec, HookProved!Spec

\* The timers of a feed have no theorems of their own.
LEMMA TimersTyped == Spec => []Timers!TypeOK
<1>1. Init => Timers!TypeOK
  BY DEF Init, Timers!Init, Timers!TypeOK
<1>2. Timers!TypeOK /\ [Next]_vars => Timers!TypeOK'
  <2> SUFFICES ASSUME Timers!TypeOK, Timers!Next PROVE Timers!TypeOK'
    BY DEF Next, vars, timersVars, Timers!TypeOK
  <2>1. open' \in BOOLEAN
    BY DEF Timers!Next, Timers!TypeOK, Timers!Tick, Timers!Event, Timers!Beat, Timers!GiveUp, Timers!Reconnect,
           Timers!Second, Timers!Notify
  <2>2. CASE Timers!Tick \/ \E change \in BOOLEAN : Timers!Event(change)
    BY <2>1, <2>2 DEF Timers!Tick, Timers!Event, Timers!Notify, Timers!NextInterval, Timers!TypeOK
  <2>3. CASE Timers!Beat \/ Timers!GiveUp \/ Timers!Reconnect
    BY <2>1, <2>3 DEF Timers!Beat, Timers!GiveUp, Timers!Reconnect, Timers!TypeOK
  <2>4. CASE Timers!Second
    BY <2>1, <2>4 DEF Timers!Second, Timers!TypeOK
  <2> QED
    BY <2>2, <2>3, <2>4 DEF Timers!Next
<1> QED
  BY <1>1, <1>2, PTL DEF Spec

-----------------------------------------------------------------------------
(* The assumptions of the parts' theorems are those of the composition.     *)
LEMMA Assumed == MonitorProved!CapAssumption /\ HookProved!HookAssumption
<1>2. MonitorProved!CapAssumption
  BY PartsAssumption DEF Monitor!CapAssumption, MonitorProved!CapAssumption
<1>3. HookProved!HookAssumption
  BY PartsAssumption, SameFiniteSets DEF Hook!HookAssumption, HookProved!HookAssumption
<1> QED
  BY <1>2, <1>3

(* Every variable of the composition keeps its type (ws_manager, the        *)
(* message monitor, the feed's timers and the hooks).                       *)
THEOREM TypeCorrect == Spec => []TypeOK
<1>1. Counting => Admit!TypeOK
  BY DEF Counting
<1>2. Spec => []MonitorProved!TypeOK
  BY Assumed, MonitorPart, MonitorProved!TypeCorrect, PTL
<1>3. Spec => []HookProved!TypeOK
  BY Assumed, HookPart, HookProved!TypeCorrect, PTL
<1>4. Admit!TypeOK /\ MonitorProved!TypeOK /\ HookProved!TypeOK /\ Timers!TypeOK => TypeOK
  BY DEF TypeOK, MonitorProved!TypeOK, Monitor!TypeOK, MonitorProved!Msgs,
         Monitor!Msgs, HookProved!TypeOK, Hook!TypeOK, HookProved!Reasons, Hook!Reasons
<1> QED
  BY <1>1, <1>2, <1>3, <1>4, CountingHolds, TimersTyped, PTL

(* The counter of an address is the number of its open public sockets.      *)
THEOREM Counters == Spec => []CountersExact
<1>1. Counting => CountersExact
  BY SameFiniteSets DEF Counting, ExactCounts, CountersExact, Admit!CountersExact
<1> QED
  BY <1>1, CountingHolds, PTL

(* The connection set holds exactly the sockets that are open.              *)
THEOREM Connections == Spec => []ConnectionsExact
<1>1. Counting => ConnectionsExact
  BY DEF Counting, ConnectionsExact
<1> QED
  BY <1>1, CountingHolds, PTL

(* A monitor gets messages in their order, and none twice.                  *)
THEOREM InOrder == Spec => []InOrderOnce
<1>1. Spec => []MonitorProved!InOrderOnce
  BY Assumed, MonitorPart, MonitorProved!InOrder, PTL
<1>2. MonitorProved!InOrderOnce => InOrderOnce
  BY DEF MonitorProved!InOrderOnce, InOrderOnce, Monitor!InOrderOnce
<1> QED
  BY <1>1, <1>2, PTL

(* A monitor skips no message it could have been sent.                      *)
THEOREM NothingLost == Spec => []NothingSkipped
<1>1. Spec => []MonitorProved!NothingSkipped
  BY Assumed, MonitorPart, MonitorProved!NothingLost, PTL
<1>2. MonitorProved!NothingSkipped => NothingSkipped
  BY DEF MonitorProved!NothingSkipped, NothingSkipped, Monitor!NothingSkipped, MonitorProved!Elems, Monitor!Elems
<1> QED
  BY <1>1, <1>2, PTL

(* A hook has one socket, or one reconnect timer, and its heartbeat timer   *)
(* is of the socket it has.                                                 *)
THEOREM NeverTwo == Spec => []OneLink
<1>1. Spec => []HookProved!OneLink
  BY Assumed, HookPart, HookProved!NeverTwo, PTL
<1>2. Spec => []HookProved!HeartbeatOwn
  BY Assumed, HookPart, HookProved!HeartbeatIsOwn, PTL
<1>3. HookProved!OneLink /\ HookProved!HeartbeatOwn => OneLink
  BY SameFiniteSets DEF OneLink, HookProved!OneLink, Hook!OneLink, HookProved!HeartbeatOwn, Hook!HeartbeatOwn
<1> QED
  BY <1>1, <1>2, <1>3, PTL
============================================================================
