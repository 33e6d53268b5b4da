--------------------------- MODULE NapcatWsProofs ---------------------------
(* Proofs about the registry of reverse WebSockets and its API proxies. *)
EXTENDS NapcatWs, TLAPS

FutTypes == [Calls -> {"none", "pending", "ok", "failed", "cancelled"}]

(* Closing a proxy, or leaving all as they are, keeps the types.            *)
LEMMA ProxyTypes ==
    ASSUME TypeOK,
           KeepProxies \/ \E p \in Socks \cup {NoSock} : CloseProxy(p)
    PROVE  closed' \subseteq Socks /\ fut' \in FutTypes /\ pending' \in [Socks -> SUBSET Calls]
<1>1. CASE KeepProxies
  BY <1>1 DEF KeepProxies, TypeOK, FutTypes
<1>2. ASSUME NEW p \in Socks \cup {NoSock}, CloseProxy(p)
      PROVE  closed' \subseteq Socks /\ fut' \in FutTypes /\ pending' \in [Socks -> SUBSET Calls]
  <2>1. closed' \subseteq Socks
    BY <1>2 DEF CloseProxy, TypeOK
  <2>2. fut' \in FutTypes
    BY <1>2 DEF CloseProxy, TypeOK, FutTypes
  <2>3. pending' \in [Socks -> SUBSET Calls]
    BY <1>2 DEF CloseProxy, TypeOK
  <2> QED
    BY <2>1, <2>2, <2>3
<1> QED
  BY <1>1, <1>2

(* The type invariant holds for any number of sockets, calls and accounts.  *)
THEOREM TypeCorrect == Spec => []TypeOK
<1>1. Init => TypeOK
  <2> SUFFICES ASSUME Init PROVE TypeOK
    OBVIOUS
  <2>1. entry \in Entry
    BY DEF Init, Entry, NoEntry
  <2>2. header \in [Socks -> Headers]
    BY DEF Init, Headers
  <2> QED
    BY <2>1, <2>2 DEF Init, TypeOK
<1>2. TypeOK /\ [Next]_vars => TypeOK'
  <2> SUFFICES ASSUME TypeOK, [Next]_vars PROVE TypeOK'
    OBVIOUS
  <2> USE DEF TypeOK
  <2>1. ASSUME NEW s \in Socks, NEW h \in Headers, Accept(s, h) PROVE TypeOK'
    <3>1. Accepted(s, h) \in Entry
      BY DEF Accepted, Connected, Entry, Headers
    <3>2. KeepProxies \/ \E p \in Socks \cup {NoSock} : CloseProxy(p)
      BY <2>1 DEF Accept, Register
    <3>3. closed' \subseteq Socks /\ fut' \in FutTypes /\ pending' \in [Socks -> SUBSET Calls]
      BY <3>2, ProxyTypes
    <3>4. proxy' \in Socks \cup {NoSock} /\ latest' \in Socks \cup {NoSock} /\ reported' \in BOOLEAN
      BY <2>1 DEF Accept, Register
    <3> QED
      BY <2>1, <3>1, <3>3, <3>4 DEF Accept, FutTypes
  <2>2. ASSUME NEW s \in Socks, NEW u \in Uins, Event(s, u) PROVE TypeOK'
    <3>1. EnsuredUin(u, s) \in Entry
      BY DEF EnsuredUin, Connected, Entry
    <3> QED
      BY <2>2, <3>1 DEF Event
  <2>3. ASSUME NEW s \in Socks, NEW c \in Calls, NEW ok \in BOOLEAN, Response(s, c, ok)
        PROVE TypeOK'
    BY <2>3 DEF Response
  <2>4. ASSUME NEW s \in Socks, PeerLeaves(s) PROVE TypeOK'
    BY <2>4 DEF PeerLeaves
  <2>5. ASSUME NEW s \in Socks, HandlerEnds(s) PROVE TypeOK'
    <3>1. Disconnected(s) \in Entry
      BY DEF Disconnected, Entry
    <3>2. KeepProxies \/ \E p \in Socks \cup {NoSock} : CloseProxy(p)
      BY <2>5 DEF HandlerEnds, Unregister
    <3>3. closed' \subseteq Socks /\ fut' \in FutTypes /\ pending' \in [Socks -> SUBSET Calls]
      BY <3>2, ProxyTypes
    <3>4. proxy' \in Socks \cup {NoSock} /\ latest' \in Socks \cup {NoSock} /\ reported' \in BOOLEAN
      BY <2>5 DEF HandlerEnds, Unregister
    <3> QED
      BY <2>5, <3>1, <3>3, <3>4 DEF HandlerEnds, FutTypes
  <2>6. ASSUME Cleanup PROVE TypeOK'
    <3>1. NoEntry \in Entry
      BY DEF NoEntry, Entry
    <3>2. closed' \subseteq Socks /\ fut' \in FutTypes /\ pending' \in [Socks -> SUBSET Calls]
      BY <2>6, ProxyTypes DEF Cleanup
    <3> QED
      BY <2>6, <3>1, <3>2 DEF Cleanup, FutTypes
  <2>7. ASSUME GraceEnds PROVE TypeOK'
    <3>1. [entry EXCEPT !.since = "expired"] \in Entry
      BY DEF Entry
    <3> QED
      BY <2>7, <3>1 DEF GraceEnds
  <2>8. ASSUME NEW c \in Calls, NEW outcome \in {"returned", "error", "cancelled"}, End(c, outcome)
        PROVE TypeOK'
    BY <2>8 DEF End
  <2>9. ASSUME NEW c \in Calls, Start(c) PROVE TypeOK'
    BY <2>8, <2>9 DEF Start
  <2>10. ASSUME NEW c \in Calls, CallStep(c) PROVE TypeOK'
    BY <2>8, <2>10 DEF CallStep, Sent, SendFails, Answered, TimesOut
  <2>11. CASE UNCHANGED vars
    BY <2>11 DEF vars
  <2> QED
    BY <2>1, <2>2, <2>3, <2>4, <2>5, <2>6, <2>7, <2>9, <2>10, <2>11 DEF Next
<1> QED
  BY <1>1, <1>2, PTL DEF Spec

-----------------------------------------------------------------------------
(* What is inductive: an entry shown connected is in the registry, too.      *)
ConnectedInv == ConnectedHasSocket /\ (entry.connected => entry.known)

(* Whatever sockets overlap, an entry shown connected is bound to a socket   *)
(* whose handler has not ended.                                              *)
THEOREM ConnectedBound == Spec => []ConnectedHasSocket
<1>1. Init => ConnectedInv
  BY DEF Init, ConnectedInv, ConnectedHasSocket, NoEntry
<1>2. TypeOK /\ ConnectedInv /\ [Next]_vars => ConnectedInv'
  <2> SUFFICES ASSUME TypeOK, ConnectedInv, [Next]_vars PROVE ConnectedInv'
    OBVIOUS
  <2> USE DEF ConnectedInv, ConnectedHasSocket
  <2> entry \in Entry /\ sock \in [Socks -> {"new", "open", "gone", "closed"}]
    BY DEF TypeOK
  <2>1. ASSUME NEW s \in Socks, NEW h \in Headers, Accept(s, h) PROVE ConnectedInv'
    BY <2>1 DEF Accept, Accepted, Connected
  <2>2. ASSUME NEW s \in Socks, NEW u \in Uins, Event(s, u) PROVE ConnectedInv'
    BY <2>2 DEF Event, EnsuredUin, Connected, Entry
  <2>3. ASSUME NEW s \in Socks, PeerLeaves(s) PROVE ConnectedInv'
    BY <2>3 DEF PeerLeaves
  <2>4. ASSUME NEW s \in Socks, HandlerEnds(s) PROVE ConnectedInv'
    BY <2>4, NoSockAssumption DEF HandlerEnds, Disconnected, Entry, NoEntry
  <2>5. ASSUME Cleanup PROVE ConnectedInv'
    BY <2>5 DEF Cleanup, NoEntry
  <2>6. ASSUME GraceEnds PROVE ConnectedInv'
    BY <2>6 DEF GraceEnds, Entry
  <2>7. ASSUME UNCHANGED <<sock, entry>> PROVE ConnectedInv'
    BY <2>7
  <2> QED
    BY <2>1, <2>2, <2>3, <2>4, <2>5, <2>6, <2>7
       DEF Next, Response, Start, CallStep, Sent, SendFails, Answered, TimesOut, End, vars
<1>3. ConnectedInv => ConnectedHasSocket
  BY DEF ConnectedInv
<1> QED
  BY <1>1, <1>2, <1>3, TypeCorrect, PTL DEF Spec

-----------------------------------------------------------------------------
(* The last socket accepted keeps its API proxy until its handler ends.      *)
THEOREM LatestServes == Spec => []LatestKeepsProxy
<1>1. Init => LatestKeepsProxy
  BY DEF Init, LatestKeepsProxy
<1>2. LatestKeepsProxy /\ [Next]_vars => LatestKeepsProxy'
  <2> SUFFICES ASSUME LatestKeepsProxy, [Next]_vars PROVE LatestKeepsProxy'
    OBVIOUS
  <2> USE DEF LatestKeepsProxy
  <2>1. ASSUME NEW s \in Socks, NEW h \in Headers, Accept(s, h) PROVE LatestKeepsProxy'
    BY <2>1 DEF Accept, Register
  <2>2. ASSUME NEW s \in Socks, HandlerEnds(s) PROVE LatestKeepsProxy'
    BY <2>2 DEF HandlerEnds, Unregister
  <2>3. ASSUME Cleanup PROVE LatestKeepsProxy'
    BY <2>3 DEF Cleanup
  <2>4. ASSUME UNCHANGED <<proxy, latest>> PROVE LatestKeepsProxy'
    BY <2>4
  <2> QED
    BY <2>1, <2>2, <2>3, <2>4
       DEF Next, Event, Response, PeerLeaves, GraceEnds, Start, CallStep, Sent, SendFails,
           Answered, TimesOut, End, vars
<1> QED
  BY <1>1, <1>2, PTL DEF Spec

-----------------------------------------------------------------------------
(* A proxy is closed, or registered, only once its socket has been accepted; *)
(* the registered one is never closed; and a call in flight has a proxy.     *)
ProxiesAccepted ==
    /\ \A s \in closed : sock[s] # "new"
    /\ proxy # NoSock => sock[proxy] # "new" /\ proxy \notin closed
    /\ \A c \in Calls : InFlight(c) => via[c] # NoSock

OrphanInv == ProxiesAccepted /\ NoOrphanCall

Awaited(c) == InFlight(c) /\ fut[c] = "pending"

(* Closing the registered proxy leaves no call waiting for an answer.        *)
LEMMA ClosingEndsAll ==
    ASSUME TypeOK, OrphanInv, CloseProxy(proxy), UNCHANGED call
    PROVE  \A c \in Calls : ~Awaited(c)'
<1> SUFFICES ASSUME NEW c \in Calls, Awaited(c)' PROVE FALSE
  OBVIOUS
<1>1. fut[c] = "pending" /\ InFlight(c)
  BY DEF CloseProxy, InFlight, TypeOK, Awaited
<1>2. c \in pending[proxy] /\ proxy # NoSock
  BY <1>1 DEF OrphanInv, NoOrphanCall, ProxiesAccepted
<1>3. fut'[c] = "cancelled"
  BY <1>1, <1>2 DEF CloseProxy
<1> QED
  BY <1>3 DEF Awaited

(* No call waits for an answer that cannot reach it: its proxy is the one    *)
(* registered, and is closed only together with the call.                    *)
THEOREM NoCallOrphaned == Spec => []NoOrphanCall
<1>1. Init => OrphanInv
  BY NoSockAssumption DEF Init, OrphanInv, ProxiesAccepted, NoOrphanCall, InFlight
<1>2. TypeOK /\ OrphanInv /\ [Next]_vars => OrphanInv'
  <2> SUFFICES ASSUME TypeOK, OrphanInv, [Next]_vars PROVE OrphanInv'
    OBVIOUS
  <2>0. /\ ProxiesAccepted /\ NoOrphanCall
        /\ proxy \in Socks \cup {NoSock} /\ closed \subseteq Socks
        /\ sock \in [Socks -> {"new", "open", "gone", "closed"}]
        /\ pending \in [Socks -> SUBSET Calls]
        /\ fut \in FutTypes /\ via \in [Calls -> Socks \cup {NoSock}]
    BY DEF OrphanInv, TypeOK, FutTypes
  <2>1. ASSUME NEW s \in Socks, NEW h \in Headers, Accept(s, h) PROVE OrphanInv'
    <3>1. CASE h = "0"
      BY <2>0, <2>1, <3>1
         DEF Accept, KeepProxies, OrphanInv, ProxiesAccepted, NoOrphanCall, InFlight
    <3>2. CASE h # "0"
      <4>1. CloseProxy(proxy) /\ proxy' = s /\ UNCHANGED <<call, via>>
        BY <2>1, <3>2 DEF Accept, Register
      <4>2. NoOrphanCall'
        BY <4>1, ClosingEndsAll DEF NoOrphanCall, Awaited, InFlight
      <4>3. s # proxy /\ s \notin closed
        BY <2>0, <2>1, NoSockAssumption DEF Accept, ProxiesAccepted
      <4>4. ProxiesAccepted'
        BY <2>0, <2>1, <4>1, <4>3 DEF Accept, ProxiesAccepted, CloseProxy, InFlight
      <4> QED
        BY <4>2, <4>4 DEF OrphanInv
    <3> QED
      BY <3>1, <3>2
  <2>2. ASSUME NEW s \in Socks, NEW c \in Calls, NEW ok \in BOOLEAN, Response(s, c, ok)
        PROVE OrphanInv'
    BY <2>0, <2>2 DEF Response, OrphanInv, ProxiesAccepted, NoOrphanCall, InFlight, FutTypes
  <2>3. ASSUME NEW s \in Socks, PeerLeaves(s) PROVE OrphanInv'
    BY <2>0, <2>3 DEF PeerLeaves, OrphanInv, ProxiesAccepted, NoOrphanCall, InFlight
  <2>4. ASSUME NEW s \in Socks, HandlerEnds(s) PROVE OrphanInv'
    <3>1. CASE UNCHANGED proxy /\ KeepProxies
      BY <2>0, <2>4, <3>1
         DEF HandlerEnds, KeepProxies, OrphanInv, ProxiesAccepted, NoOrphanCall, InFlight
    <3>2. CASE proxy' = NoSock /\ CloseProxy(proxy)
      <4>1. NoOrphanCall'
        BY <2>4, <3>2, ClosingEndsAll DEF HandlerEnds, NoOrphanCall, Awaited, InFlight
      <4>2. ProxiesAccepted'
        BY <2>0, <2>4, <3>2 DEF HandlerEnds, ProxiesAccepted, CloseProxy, InFlight
      <4> QED
        BY <4>1, <4>2 DEF OrphanInv
    <3> QED
      BY <2>4, <3>1, <3>2 DEF HandlerEnds, Unregister
  <2>5. ASSUME Cleanup PROVE OrphanInv'
    <3>1. NoOrphanCall'
      BY <2>5, ClosingEndsAll DEF Cleanup, NoOrphanCall, Awaited, InFlight
    <3>2. ProxiesAccepted'
      BY <2>0, <2>5 DEF Cleanup, ProxiesAccepted, CloseProxy, InFlight
    <3> QED
      BY <3>1, <3>2 DEF OrphanInv
  <2>6. ASSUME NEW c \in Calls, NEW outcome \in {"returned", "error", "cancelled"}, End(c, outcome)
        PROVE OrphanInv'
    <3>1. \A d \in Calls : InFlight(d)' => d # c /\ InFlight(d)
      BY <2>6 DEF End, InFlight, TypeOK
    <3>2. ASSUME NEW d \in Calls, InFlight(d)', fut'[d] = "pending"
          PROVE  via'[d] = proxy' /\ proxy' \notin closed' /\ d \in pending'[proxy']
      <4>1. d # c /\ InFlight(d) /\ fut[d] = "pending"
        BY <2>6, <3>1, <3>2 DEF End
      <4>2. via[d] = proxy /\ proxy \notin closed /\ d \in pending[proxy] /\ proxy \in Socks
        BY <2>0, <4>1 DEF NoOrphanCall, ProxiesAccepted
      <4>3. pending'[proxy] = pending[proxy] \ {c}
        BY <2>6, <4>2 DEF End
      <4> QED
        BY <2>6, <4>1, <4>2, <4>3 DEF End
    <3>3. ProxiesAccepted'
      BY <2>0, <2>6, <3>1 DEF End, ProxiesAccepted
    <3> QED
      BY <3>2, <3>3 DEF OrphanInv, NoOrphanCall
  <2>7. ASSUME NEW c \in Calls, Start(c) PROVE OrphanInv'
    <3>1. CASE End(c, "error")
      BY <2>6, <3>1
    <3>2. CASE /\ proxy # NoSock /\ proxy \notin closed
               /\ call' = [call EXCEPT ![c] = "sending"]
               /\ via' = [via EXCEPT ![c] = proxy]
               /\ fut' = [fut EXCEPT ![c] = "pending"]
               /\ pending' = [pending EXCEPT ![proxy] = @ \cup {c}]
               /\ UNCHANGED <<sock, proxy, closed>>
      <4>1. \A d \in Calls : d # c /\ InFlight(d)' => InFlight(d)
        BY <3>2 DEF InFlight, TypeOK
      <4>2. NoOrphanCall'
        BY <2>0, <3>2, <4>1 DEF NoOrphanCall, FutTypes
      <4>3. ProxiesAccepted'
        BY <2>0, <3>2, <4>1 DEF ProxiesAccepted
      <4> QED
        BY <4>2, <4>3 DEF OrphanInv
    <3> QED
      BY <2>7, <3>1, <3>2 DEF Start
  <2>8. ASSUME NEW c \in Calls, Sent(c) PROVE OrphanInv'
    <3>1. \A d \in Calls : InFlight(d)' => InFlight(d)
      BY <2>8 DEF Sent, InFlight, TypeOK
    <3> QED
      BY <2>0, <2>8, <3>1 DEF Sent, OrphanInv, ProxiesAccepted, NoOrphanCall
  <2>9. ASSUME NEW c \in Calls, CallStep(c) PROVE OrphanInv'
    BY <2>6, <2>8, <2>9 DEF CallStep, SendFails, Answered, TimesOut
  <2>10. ASSUME UNCHANGED <<sock, proxy, closed, pending, call, via, fut>> PROVE OrphanInv'
    BY <2>0, <2>10 DEF OrphanInv, ProxiesAccepted, NoOrphanCall, InFlight
  <2> QED
    BY <2>1, <2>2, <2>3, <2>4, <2>5, <2>7, <2>9, <2>10 DEF Next, Event, GraceEnds, vars
<1>3. OrphanInv => NoOrphanCall
  BY DEF OrphanInv
<1> QED
  BY <1>1, <1>2, <1>3, TypeCorrect, PTL DEF Spec
=============================================================================
