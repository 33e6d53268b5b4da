--------------------------- MODULE ServicesProofs ---------------------------
(***************************************************************************)
(* What the run of Services checks, for every value of the constants: the  *)
(* leases of ports, the injection of logins (which ports are reserved, and *)
(* where bots and BotShepherd meet), the watchdog of BotShepherd and the   *)
(* public feed.                                                            *)
(***************************************************************************)
EXTENDS Services, TLAPS, WellFoundedInduction

-----------------------------------------------------------------------------
(* The lowest of some ports is one of them. *)

LEMMA Lowest == ASSUME NEW S \in SUBSET Nat, S # {}
                PROVE  \E x \in S : \A y \in S : x <= y
<1>1. PICK x \in S : \A y \in S : ~(<<y, x>> \in OpToRel(<, Nat))
  <2>1. IsWellFoundedOn(OpToRel(<, Nat), Nat)
    BY NatLessThanWellFounded
  <2> QED
    BY <2>1, WFMin
<1>2. \A y \in S : ~(y < x)
  BY <1>1 DEF OpToRel
<1>3. \A y \in S : x <= y
  BY <1>2
<1> QED
  BY <1>3

LEMMA LeaseMin == ASSUME NEW S \in SUBSET Nat, S # {} PROVE Lease!Min(S) \in S
  BY Lowest DEF Lease!Min

LEMMA InjectionMin == ASSUME NEW S \in SUBSET Nat, S # {} PROVE Injection!Min(S) \in S
  BY Lowest DEF Injection!Min

-----------------------------------------------------------------------------
(* Leases of ports *)

\* A request that nothing came between holds its port, or waits for a list that
\* shows what containers use by now.
SureKnown ==
    \A r \in Workers : reqs[r].sure =>
        \/ Lease!Holding(r)
        \/ reqs[r].at = "listed" /\ \A b \in Names : Lease!Bound(b) => docker[b].port \in listing

\* Who runs, and who is being created, has a port.
PortsGiven ==
    /\ \A b \in Names : docker[b].up => docker[b].port > 0
    /\ \A r \in Workers : reqs[r].at = "creating" => reqs[r].port > 0

\* LeasesHeld, lease by lease.
LeasesCovered ==
    \A p \in leases : p \in orphans \/ \E s \in Workers : Lease!Holding(s) /\ reqs[s].port = p

\* What every step of the leases keeps.
LeaseInv == Lease!TypeOK /\ Lease!LeasesHeld /\ Lease!PortsApart /\ SureKnown /\ PortsGiven

LEMMA HeldCovers == (leases \subseteq Lease!Held \cup orphans) <=> LeasesCovered
  BY DEF Lease!Held, LeasesCovered

\* What is to be shown of a step, part by part.
LEMMA LeaseParts ==
  ASSUME Lease!TypeOK',
         \A r \in Workers : Lease!Holding(r)' /\ reqs'[r].sure => reqs'[r].port \in leases',
         LeasesCovered', Lease!PortsApart', SureKnown', PortsGiven'
  PROVE  LeaseInv'
  BY DEF LeaseInv, Lease!LeasesHeld, LeasesCovered, Lease!Held

\* The records that the handlers make of requests.
LEMMA NoRequestTyped == Lease!NoRequest \in Lease!Request /\ Lease!NoRequest.at = "idle"
  BY ServicesAssumption DEF Lease!PortsAssumption, Lease!NoRequest, Lease!Request

LEMMA BegunTyped ==
  ASSUME NEW b \in Names \cup {Nobody}, NEW port \in 0..MaxPort
  PROVE  Lease!Begun(b, port) \in Lease!Request /\ Lease!Begun(b, port).at \in {"creating", "queued"}
  BY ServicesAssumption DEF Lease!PortsAssumption, Lease!Begun, Lease!NoRequest, Lease!Request

LEMMA UsedTyped ==
  ASSUME Lease!TypeOK, NEW p \in Nat, NEW starts \in BOOLEAN
  PROVE  /\ Lease!Used(p, starts) \in [Workers -> Lease!Request]
         /\ \A s \in Workers : Lease!Used(p, starts)[s].at = reqs[s].at
  BY DEF Lease!Used, Lease!TypeOK, Lease!Request

LEMMA LeaseTyped == LeaseInv => Lease!TypeOK
  BY DEF LeaseInv

LEMMA LeaseInitial == ServicesInit => LeaseInv
  BY ServicesAssumption DEF ServicesInit, Lease!Init, Lease!Request, LeaseInv, Lease!TypeOK,
     Lease!LeasesHeld, Lease!PortsApart, SureKnown,
     PortsGiven, Lease!Holding, Lease!Held, Lease!Bound, Lease!NoRequest, Lease!Gone, Lease!Ports, Lease!PortsAssumption

\* A request for a new container.
LEMMA CreateKept ==
  ASSUME LeaseInv, NEW r \in Workers, NEW b \in Names, NEW port \in Explicit \cup {0}, Lease!Create(r, b, port)
  PROVE  LeaseInv'
<1> USE ServicesAssumption DEF Lease!PortsAssumption, Lease!Create, LeaseInv, Lease!Ports, Lease!Bound
<1>a. Lease!Begun(b, port) \in Lease!Request /\ Lease!Begun(b, port).at \in {"creating", "queued"}
  BY BegunTyped
<1>1. Lease!TypeOK'
  <2>1. reqs' \in [Workers -> Lease!Request]
    BY <1>a DEF Lease!TypeOK
  <2>2. \A s \in Workers : reqs'[s].at \in {"listing", "listed"} <=> lock' = s
    <3>1. reqs'[r].at \in {"creating", "queued"} /\ reqs[r].at = "idle"
      BY <1>a DEF Lease!TypeOK
    <3> QED
      BY <3>1 DEF Lease!TypeOK
  <2> QED
    BY <2>1, <2>2 DEF Lease!TypeOK, Lease!Gone
<1>2. \A s \in Workers : Lease!Holding(s)' /\ reqs'[s].sure => reqs'[s].port \in leases'
  BY DEF Lease!TypeOK, Lease!Request, Lease!NoRequest, Lease!LeasesHeld, Lease!Holding, Lease!Begun
<1>3. LeasesCovered'
  BY HeldCovers DEF Lease!TypeOK, Lease!Request, Lease!NoRequest, Lease!LeasesHeld, Lease!Holding,
     LeasesCovered, Lease!Begun
<1>4. Lease!PortsApart'
  BY DEF Lease!TypeOK, Lease!Request, Lease!NoRequest, Lease!Gone, Lease!LeasesHeld, Lease!Holding,
     Lease!PortsApart, Lease!Begun
<1>5. SureKnown'
  BY DEF Lease!TypeOK, Lease!Request, Lease!NoRequest, Lease!Gone, SureKnown, Lease!Holding, Lease!Begun
<1>6. PortsGiven'
  BY DEF Lease!TypeOK, Lease!Request, Lease!NoRequest, Lease!Gone, PortsGiven, Lease!Begun
<1> QED
  BY <1>1, <1>2, <1>3, <1>4, <1>5, <1>6, LeaseParts

\* A request to recreate one.
LEMMA RecreateKept ==
  ASSUME LeaseInv, NEW r \in Workers, NEW b \in Names, NEW port \in Explicit \cup {0}, Lease!Recreate(r, b,
         port)
  PROVE  LeaseInv'
<1> USE ServicesAssumption DEF Lease!PortsAssumption, Lease!Recreate, LeaseInv, Lease!Ports, Lease!Bound
<1>a. (IF port > 0 THEN port ELSE docker[b].port) \in 0..MaxPort
  BY DEF Lease!TypeOK
<1>1. Lease!TypeOK'
  <2>1. reqs' \in [Workers -> Lease!Request]
    BY <1>a, LeaseTyped DEF Lease!TypeOK, Lease!Request, Lease!NoRequest
  <2>2. \A s \in Workers : reqs'[s].at \in {"listing", "listed"} <=> lock' = s
    BY DEF Lease!TypeOK, Lease!Request, Lease!NoRequest
  <2> QED
    BY <2>1, <2>2 DEF Lease!TypeOK, Lease!Gone
<1>2. \A s \in Workers : Lease!Holding(s)' /\ reqs'[s].sure => reqs'[s].port \in leases'
  BY DEF Lease!TypeOK, Lease!Request, Lease!NoRequest, Lease!LeasesHeld, Lease!Holding
<1>3. LeasesCovered'
  BY HeldCovers DEF Lease!TypeOK, Lease!Request, Lease!NoRequest, Lease!LeasesHeld, Lease!Holding, LeasesCovered
<1>4. Lease!PortsApart'
  BY DEF Lease!TypeOK, Lease!Request, Lease!NoRequest, Lease!Gone, Lease!LeasesHeld, Lease!Holding,
     Lease!PortsApart
<1>5. SureKnown'
  BY DEF Lease!TypeOK, Lease!Request, Lease!NoRequest, Lease!Gone, SureKnown, Lease!Holding
<1>6. PortsGiven'
  BY DEF Lease!TypeOK, Lease!Request, Lease!NoRequest, Lease!Gone, PortsGiven
<1> QED
  BY <1>1, <1>2, <1>3, <1>4, <1>5, <1>6, LeaseParts

\* The old container is deleted.
LEMMA DeletedKept ==
  ASSUME LeaseInv, NEW r \in Workers, NEW done \in BOOLEAN, NEW cleared \in BOOLEAN, Lease!Deleted(r, done,
         cleared)
  PROVE  LeaseInv'
<1> USE ServicesAssumption DEF Lease!PortsAssumption, Lease!Deleted, LeaseInv, Lease!Ports, Lease!Bound
<1>a. /\ Lease!Begun(reqs[r].box, reqs[r].port) \in Lease!Request
      /\ Lease!Begun(reqs[r].box, reqs[r].port).at \in {"creating", "queued"}
      /\ Lease!NoRequest \in Lease!Request /\ Lease!NoRequest.at = "idle"
  <2>1. reqs[r].box \in Names \cup {Nobody} /\ reqs[r].port \in 0..MaxPort
    BY DEF Lease!TypeOK, Lease!Request
  <2> QED
    BY <2>1, BegunTyped, NoRequestTyped
<1>b. reqs' = [reqs EXCEPT ![r] = reqs'[r]] /\ reqs'[r] \in {Lease!NoRequest, Lease!Begun(reqs[r].box, reqs[r].port)}
  BY DEF Lease!TypeOK
<1>1. Lease!TypeOK'
  <2>1. reqs' \in [Workers -> Lease!Request]
    BY <1>a, <1>b DEF Lease!TypeOK
  <2>2. \A s \in Workers : reqs'[s].at \in {"listing", "listed"} <=> lock' = s
    <3>1. reqs'[r].at \in {"creating", "queued", "idle"} /\ reqs[r].at = "deleting"
      BY <1>a, <1>b DEF Lease!TypeOK
    <3> QED
      BY <1>b, <3>1 DEF Lease!TypeOK
  <2>3. docker' \in [Names -> [port : 0..MaxPort, up : BOOLEAN]]
    <3>1. Lease!Gone \in [port : 0..MaxPort, up : BOOLEAN]
      BY DEF Lease!Gone
    <3> QED
      BY <3>1 DEF Lease!TypeOK
  <2> QED
    BY <2>1, <2>2, <2>3 DEF Lease!TypeOK
<1>2. \A s \in Workers : Lease!Holding(s)' /\ reqs'[s].sure => reqs'[s].port \in leases'
  BY DEF Lease!TypeOK, Lease!Request, Lease!NoRequest, Lease!LeasesHeld, Lease!Holding, Lease!Begun
<1>3. LeasesCovered'
  BY HeldCovers DEF Lease!TypeOK, Lease!Request, Lease!NoRequest, Lease!LeasesHeld, Lease!Holding,
     LeasesCovered, Lease!Begun
<1>4. Lease!PortsApart'
  BY DEF Lease!TypeOK, Lease!Request, Lease!NoRequest, Lease!Gone, Lease!LeasesHeld, Lease!Holding,
     Lease!PortsApart, Lease!Begun
<1>5. SureKnown'
  BY DEF Lease!TypeOK, Lease!Request, Lease!NoRequest, Lease!Gone, SureKnown, Lease!Holding, Lease!Begun
<1>6. PortsGiven'
  BY DEF Lease!TypeOK, Lease!Request, Lease!NoRequest, Lease!Gone, PortsGiven, Lease!Begun
<1> QED
  BY <1>1, <1>2, <1>3, <1>4, <1>5, <1>6, LeaseParts

\* The container is created, or not, and the lease deleted.
LEMMA FinishKept ==
  ASSUME LeaseInv, NEW r \in Workers, NEW ok \in BOOLEAN, Lease!Finish(r, ok)
  PROVE  LeaseInv'
<1> USE ServicesAssumption DEF Lease!PortsAssumption, Lease!Finish, LeaseInv, Lease!Ports, Lease!Bound
<1>a. /\ Lease!Used(reqs[r].port, ok) \in [Workers -> Lease!Request]
      /\ \A s \in Workers : Lease!Used(reqs[r].port, ok)[s].at = reqs[s].at
      /\ Lease!NoRequest \in Lease!Request /\ Lease!NoRequest.at = "idle"
      /\ reqs[r].port \in 1..MaxPort
  <2>1. reqs[r].port \in 0..MaxPort
    BY DEF Lease!TypeOK, Lease!Request
  <2>2. reqs[r].port \in 1..MaxPort
    BY <2>1 DEF PortsGiven
  <2> QED
    BY <2>1, <2>2, UsedTyped, NoRequestTyped, LeaseTyped
<1>b. docker' \in [Names -> [port : 0..MaxPort, up : BOOLEAN]]
  <2>1. Lease!Gone \in [port : 0..MaxPort, up : BOOLEAN]
    BY DEF Lease!Gone
  <2>2. [port |-> reqs[r].port, up |-> TRUE] \in [port : 0..MaxPort, up : BOOLEAN]
    BY <1>a
  <2>3. [port |-> reqs[r].port, up |-> FALSE] \in [port : 0..MaxPort, up : BOOLEAN]
    BY <1>a
  <2>4. PICK left \in {docker[reqs[r].box], Lease!Gone, [port |-> reqs[r].port, up |-> FALSE]} :
          docker' = [docker EXCEPT ![reqs[r].box] = IF ok THEN [port |-> reqs[r].port, up |-> TRUE] ELSE left]
    OBVIOUS
  <2>5. CASE reqs[r].box \in Names
    <3>1. docker[reqs[r].box] \in [port : 0..MaxPort, up : BOOLEAN]
      BY <2>5 DEF Lease!TypeOK
    <3>2. left \in [port : 0..MaxPort, up : BOOLEAN]
      BY <2>1, <2>3, <3>1
    <3>3. (IF ok THEN [port |-> reqs[r].port, up |-> TRUE] ELSE left) \in [port : 0..MaxPort, up : BOOLEAN]
      BY <2>2, <3>2
    <3> QED
      BY <2>4, <3>3 DEF Lease!TypeOK
  <2>6. CASE reqs[r].box \notin Names
    BY <2>4, <2>6 DEF Lease!TypeOK
  <2> QED
    BY <2>5, <2>6
<1>1. Lease!TypeOK'
  <2>1. reqs' \in [Workers -> Lease!Request]
    BY <1>a DEF Lease!TypeOK
  <2>2. \A s \in Workers : reqs'[s].at \in {"listing", "listed"} <=> lock' = s
    BY <1>a DEF Lease!TypeOK
  <2> QED
    BY <1>b, <2>1, <2>2 DEF Lease!TypeOK
<1>2. \A s \in Workers : Lease!Holding(s)' /\ reqs'[s].sure => reqs'[s].port \in leases'
  BY DEF Lease!TypeOK, Lease!Request, Lease!NoRequest, Lease!LeasesHeld, Lease!Holding, Lease!Used
<1>3. LeasesCovered'
  BY HeldCovers DEF Lease!TypeOK, Lease!Request, Lease!NoRequest, Lease!LeasesHeld, Lease!Holding,
     LeasesCovered, Lease!Used
<1>4. Lease!PortsApart'
  <2> SUFFICES ASSUME NEW t \in Workers, Lease!Holding(t)', reqs'[t].sure
               PROVE  /\ \A s \in Workers \ {t} : Lease!Holding(s)' /\ reqs'[s].sure => reqs'[s].port # reqs'[t].port
                      /\ \A b \in Names \ {reqs'[t].box} : docker'[b].up => docker'[b].port # reqs'[t].port
    BY DEF Lease!PortsApart
  <2>1. /\ \A s \in Workers : Lease!Holding(s)' /\ reqs'[s].sure => Lease!Holding(s) /\ reqs'[s] = reqs[s]
        /\ reqs[t].port # reqs[r].port
    BY <1>a DEF Lease!Holding, Lease!Used, Lease!TypeOK, Lease!Request, Lease!NoRequest
  <2>2. \A s \in Workers \ {t} : Lease!Holding(s)' /\ reqs'[s].sure => reqs'[s].port # reqs'[t].port
    BY <2>1 DEF Lease!PortsApart
  <2>3. \A b \in Names : docker'[b].up => docker'[b] = docker[b] \/ docker'[b].port = reqs[r].port
    BY DEF Lease!TypeOK, Lease!Gone
  <2> QED
    BY <2>1, <2>2, <2>3 DEF Lease!PortsApart
<1>5. SureKnown'
  BY DEF Lease!TypeOK, Lease!Request, Lease!NoRequest, Lease!Gone, SureKnown, Lease!Holding, Lease!Used
<1>6. PortsGiven'
  BY DEF Lease!TypeOK, Lease!Request, Lease!NoRequest, Lease!Gone, PortsGiven, Lease!Used
<1> QED
  BY <1>1, <1>2, <1>3, <1>4, <1>5, <1>6, LeaseParts

\* A request breaks off.
LEMMA BreaksKept ==
  ASSUME LeaseInv, NEW r \in Workers, Lease!Breaks(r)
  PROVE  LeaseInv'
<1> USE ServicesAssumption DEF Lease!PortsAssumption, Lease!Breaks, LeaseInv, Lease!Ports, Lease!Bound
<1>1. Lease!TypeOK'
  <2>1. reqs' \in [Workers -> Lease!Request]
    BY DEF Lease!TypeOK, Lease!Request, Lease!NoRequest
  <2>2. \A s \in Workers : reqs'[s].at \in {"listing", "listed"} <=> lock' = s
    BY DEF Lease!TypeOK, Lease!Request, Lease!NoRequest
  <2> QED
    BY <2>1, <2>2 DEF Lease!TypeOK, Lease!Gone
<1>2. \A s \in Workers : Lease!Holding(s)' /\ reqs'[s].sure => reqs'[s].port \in leases'
  BY DEF Lease!TypeOK, Lease!Request, Lease!NoRequest, Lease!LeasesHeld, Lease!Holding
<1>3. LeasesCovered'
  BY HeldCovers DEF Lease!TypeOK, Lease!Request, Lease!NoRequest, Lease!LeasesHeld, Lease!Holding, LeasesCovered
<1>4. Lease!PortsApart'
  BY DEF Lease!TypeOK, Lease!Request, Lease!NoRequest, Lease!Gone, Lease!LeasesHeld, Lease!Holding,
     Lease!PortsApart
<1>5. SureKnown'
  BY DEF Lease!TypeOK, Lease!Request, Lease!NoRequest, Lease!Gone, SureKnown, Lease!Holding
<1>6. PortsGiven'
  BY DEF Lease!TypeOK, Lease!Request, Lease!NoRequest, Lease!Gone, PortsGiven
<1> QED
  BY <1>1, <1>2, <1>3, <1>4, <1>5, <1>6, LeaseParts

\* A request takes the lock.
LEMMA LockKept ==
  ASSUME LeaseInv, NEW r \in Workers, Lease!Lock(r)
  PROVE  LeaseInv'
<1> USE ServicesAssumption DEF Lease!PortsAssumption, Lease!Lock, LeaseInv, Lease!Ports, Lease!Bound
<1>1. Lease!TypeOK'
  <2>1. reqs' \in [Workers -> Lease!Request]
    BY DEF Lease!TypeOK, Lease!Request, Lease!NoRequest
  <2>2. \A s \in Workers : reqs'[s].at \in {"listing", "listed"} <=> lock' = s
    BY DEF Lease!TypeOK, Lease!Request, Lease!NoRequest
  <2> QED
    BY <2>1, <2>2 DEF Lease!TypeOK, Lease!Gone
<1>2. \A s \in Workers : Lease!Holding(s)' /\ reqs'[s].sure => reqs'[s].port \in leases'
  BY DEF Lease!TypeOK, Lease!Request, Lease!NoRequest, Lease!LeasesHeld, Lease!Holding
<1>3. LeasesCovered'
  BY HeldCovers DEF Lease!TypeOK, Lease!Request, Lease!NoRequest, Lease!LeasesHeld, Lease!Holding, LeasesCovered
<1>4. Lease!PortsApart'
  BY DEF Lease!TypeOK, Lease!Request, Lease!NoRequest, Lease!Gone, Lease!LeasesHeld, Lease!Holding,
     Lease!PortsApart
<1>5. SureKnown'
  BY DEF Lease!TypeOK, Lease!Request, Lease!NoRequest, Lease!Gone, SureKnown, Lease!Holding
<1>6. PortsGiven'
  BY DEF Lease!TypeOK, Lease!Request, Lease!NoRequest, Lease!Gone, PortsGiven
<1> QED
  BY <1>1, <1>2, <1>3, <1>4, <1>5, <1>6, LeaseParts

\* Docker makes its list.
LEMMA ListedKept ==
  ASSUME LeaseInv, NEW r \in Workers, NEW fails \in BOOLEAN, Lease!Listed(r, fails)
  PROVE  LeaseInv'
<1> USE ServicesAssumption DEF Lease!PortsAssumption, Lease!Listed, LeaseInv, Lease!Ports, Lease!Bound
<1>a. listing' \subseteq 1..MaxPort /\ hazards' \in 0..Hazards
  BY DEF Lease!TypeOK, PortsGiven
<1>b. /\ reqs' = [reqs EXCEPT ![r] = [reqs[r] EXCEPT !.at = "listed", !.sure = ~fails]]
      /\ reqs[r].at = "listing" /\ reqs[r] \in Lease!Request
  BY DEF Lease!TypeOK
<1>c. reqs'[r] \in Lease!Request /\ reqs'[r].at = "listed" /\ \A s \in Workers \ {r} : reqs'[s] = reqs[s]
  BY <1>b DEF Lease!TypeOK, Lease!Request
<1>1. Lease!TypeOK'
  <2>1. reqs' \in [Workers -> Lease!Request]
    BY <1>b, <1>c DEF Lease!TypeOK
  <2>2. \A s \in Workers : reqs'[s].at \in {"listing", "listed"} <=> lock' = s
    BY <1>b, <1>c DEF Lease!TypeOK
  <2> QED
    BY <1>a, <2>1, <2>2 DEF Lease!TypeOK
<1>2. \A s \in Workers : Lease!Holding(s)' /\ reqs'[s].sure => reqs'[s].port \in leases'
  BY DEF Lease!TypeOK, Lease!Request, Lease!NoRequest, Lease!LeasesHeld, Lease!Holding
<1>3. LeasesCovered'
  BY HeldCovers DEF Lease!TypeOK, Lease!Request, Lease!NoRequest, Lease!LeasesHeld, Lease!Holding, LeasesCovered
<1>4. Lease!PortsApart'
  BY DEF Lease!TypeOK, Lease!Request, Lease!NoRequest, Lease!Gone, Lease!LeasesHeld, Lease!Holding,
     Lease!PortsApart
<1>5. SureKnown'
  BY DEF Lease!TypeOK, Lease!Request, Lease!NoRequest, Lease!Gone, SureKnown, Lease!Holding
<1>6. PortsGiven'
  BY DEF Lease!TypeOK, Lease!Request, Lease!NoRequest, Lease!Gone, PortsGiven
<1> QED
  BY <1>1, <1>2, <1>3, <1>4, <1>5, <1>6, LeaseParts

\* A port is leased.
LEMMA LeasedKept ==
  ASSUME LeaseInv, NEW r \in Workers, Lease!Leased(r)
  PROVE  LeaseInv'
<1> USE ServicesAssumption DEF Lease!PortsAssumption, Lease!Leased, LeaseInv, Lease!Ports, Lease!Bound
<1> DEFINE p == Lease!Min(Lease!Ports \ Lease!Taken)
<1>a. CASE Lease!Ports \subseteq Lease!Taken
  <2> USE <1>a
  <2>1. reqs' = [reqs EXCEPT ![r] = Lease!NoRequest] /\ leases' = leases
    OBVIOUS
  <2>2. Lease!TypeOK'
    BY <2>1 DEF Lease!TypeOK, Lease!Request, Lease!NoRequest
  <2>3. LeasesCovered'
    BY <2>1, HeldCovers DEF Lease!LeasesHeld, LeasesCovered, Lease!Holding, Lease!NoRequest, Lease!TypeOK
  <2>4. \A s \in Workers : reqs'[s].sure => s # r /\ reqs'[s] = reqs[s] /\ Lease!Holding(s)
    BY <2>1 DEF Lease!NoRequest, Lease!TypeOK, SureKnown
  <2>5. Lease!PortsApart' /\ SureKnown' /\ PortsGiven'
    BY <2>1, <2>4 DEF Lease!PortsApart, SureKnown, PortsGiven, Lease!Holding, Lease!NoRequest, Lease!TypeOK
  <2>6. \A s \in Workers : Lease!Holding(s)' /\ reqs'[s].sure => reqs'[s].port \in leases'
    BY <2>1, <2>4 DEF Lease!LeasesHeld
  <2> QED
    BY <2>2, <2>3, <2>5, <2>6, LeaseParts
<1>b. CASE ~(Lease!Ports \subseteq Lease!Taken)
  <2>1. p \in 1..MaxPort /\ p \notin listing /\ p \notin leases
    <3>1. (Lease!Ports \ Lease!Taken) \in SUBSET Nat /\ Lease!Ports \ Lease!Taken # {}
      BY <1>b
    <3>2. p \in Lease!Ports \ Lease!Taken
      BY <3>1, LeaseMin
    <3> QED
      BY <3>2 DEF Lease!Taken
  <2>2. /\ leases' = leases \cup {p}
        /\ reqs' = [reqs EXCEPT ![r] = [reqs[r] EXCEPT !.at = "creating", !.port = p, !.leased = TRUE]]
    BY <1>b
  <2> HIDE DEF p
  <2>3. reqs[r] \in Lease!Request /\ reqs \in [Workers -> Lease!Request]
    BY DEF Lease!TypeOK
  <2>4. /\ reqs'[r] \in Lease!Request
        /\ reqs'[r].at = "creating" /\ reqs'[r].port = p /\ reqs'[r].leased /\ reqs'[r].sure = reqs[r].sure
        /\ \A s \in Workers \ {r} : reqs'[s] = reqs[s]
    <3> HIDE DEF Lease!Leased, LeaseInv
    <3>1. reqs'[r] = [reqs[r] EXCEPT !.at = "creating", !.port = p, !.leased = TRUE]
      BY <2>2, <2>3
    <3>2. \A s \in Workers \ {r} : reqs'[s] = reqs[s]
      BY <2>2, <2>3
    <3>3. reqs[r].box \in Names \cup {Nobody} /\ reqs[r].sure \in BOOLEAN /\ DOMAIN reqs[r] = {"at", "box", "port", "leased", "sure"}
      BY <2>3 DEF Lease!Request
    <3>4. reqs'[r] = [at |-> "creating", box |-> reqs[r].box, port |-> p, leased |-> TRUE, sure |-> reqs[r].sure]
      BY <2>3, <3>1 DEF Lease!Request
    <3>5. reqs'[r] \in Lease!Request
      BY <2>1, <3>3, <3>4 DEF Lease!Request
    <3> QED
      BY <3>2, <3>4, <3>5
  <2>5. Lease!TypeOK'
    <3>1. reqs' \in [Workers -> Lease!Request]
      BY <2>2, <2>3, <2>4
    <3>2. \A s \in Workers : reqs'[s].at \in {"listing", "listed"} <=> lock' = s
      BY <2>4 DEF Lease!TypeOK
    <3> QED
      BY <2>1, <2>2, <3>1, <3>2 DEF Lease!TypeOK
  <2>6. \A s \in Workers \ {r} : reqs[s].sure => Lease!Holding(s) /\ reqs[s].port # p
    BY <2>1 DEF SureKnown, Lease!TypeOK, Lease!LeasesHeld
  <2>7. \A s \in Workers : Lease!Holding(s)' /\ reqs'[s].sure => reqs'[s].port \in leases'
    BY <2>2, <2>4, <2>6 DEF Lease!LeasesHeld
  <2>8. LeasesCovered'
    BY <2>2, <2>4, HeldCovers DEF Lease!LeasesHeld, LeasesCovered, Lease!Holding
  <2>9. Lease!PortsApart'
    <3>1. \A b \in Names : reqs[r].sure /\ docker[b].up => docker[b].port # p
      BY <2>1 DEF SureKnown, Lease!Holding
    <3> QED
      BY <2>4, <2>6, <3>1 DEF Lease!PortsApart, Lease!Holding
  <2>10. SureKnown' /\ PortsGiven'
    BY <2>1, <2>4, <2>6 DEF SureKnown, PortsGiven, Lease!Holding
  <2> QED
    BY <2>5, <2>7, <2>8, <2>9, <2>10, LeaseParts
<1> QED
  BY <1>a, <1>b

\* A container is started.
LEMMA StartsKept ==
  ASSUME LeaseInv, NEW b \in Names, Lease!Starts(b)
  PROVE  LeaseInv'
<1> USE ServicesAssumption DEF Lease!PortsAssumption, Lease!Starts, LeaseInv, Lease!Ports, Lease!Bound
<1>a. /\ Lease!Used(docker[b].port, TRUE) \in [Workers -> Lease!Request]
      /\ \A s \in Workers : Lease!Used(docker[b].port, TRUE)[s].at = reqs[s].at
  <2>1. docker[b].port \in Nat
    BY DEF Lease!TypeOK
  <2> QED
    BY <2>1, UsedTyped, LeaseTyped
<1>1. Lease!TypeOK'
  <2>1. reqs' \in [Workers -> Lease!Request]
    BY <1>a
  <2>2. \A s \in Workers : reqs'[s].at \in {"listing", "listed"} <=> lock' = s
    BY <1>a DEF Lease!TypeOK
  <2> QED
    BY <2>1, <2>2 DEF Lease!TypeOK, Lease!Gone
<1>2. \A s \in Workers : Lease!Holding(s)' /\ reqs'[s].sure => reqs'[s].port \in leases'
  BY DEF Lease!TypeOK, Lease!Request, Lease!NoRequest, Lease!LeasesHeld, Lease!Holding, Lease!Used
<1>3. LeasesCovered'
  BY HeldCovers DEF Lease!TypeOK, Lease!Request, Lease!NoRequest, Lease!LeasesHeld, Lease!Holding,
     LeasesCovered, Lease!Used
<1>4. Lease!PortsApart'
  BY DEF Lease!TypeOK, Lease!Request, Lease!NoRequest, Lease!Gone, Lease!LeasesHeld, Lease!Holding,
     Lease!PortsApart, Lease!Used
<1>5. SureKnown'
  BY DEF Lease!TypeOK, Lease!Request, Lease!NoRequest, Lease!Gone, SureKnown, Lease!Holding, Lease!Used
<1>6. PortsGiven'
  BY DEF Lease!TypeOK, Lease!Request, Lease!NoRequest, Lease!Gone, PortsGiven, Lease!Used
<1> QED
  BY <1>1, <1>2, <1>3, <1>4, <1>5, <1>6, LeaseParts

\* A container is stopped.
LEMMA StopsKept ==
  ASSUME LeaseInv, NEW b \in Names, Lease!Stops(b)
  PROVE  LeaseInv'
<1> USE ServicesAssumption DEF Lease!PortsAssumption, Lease!Stops, LeaseInv, Lease!Ports, Lease!Bound
<1>1. Lease!TypeOK'
  <2>1. reqs' \in [Workers -> Lease!Request]
    BY DEF Lease!TypeOK, Lease!Request, Lease!NoRequest
  <2>2. \A s \in Workers : reqs'[s].at \in {"listing", "listed"} <=> lock' = s
    BY DEF Lease!TypeOK, Lease!Request, Lease!NoRequest
  <2> QED
    BY <2>1, <2>2 DEF Lease!TypeOK, Lease!Gone
<1>2. \A s \in Workers : Lease!Holding(s)' /\ reqs'[s].sure => reqs'[s].port \in leases'
  BY DEF Lease!TypeOK, Lease!Request, Lease!NoRequest, Lease!LeasesHeld, Lease!Holding
<1>3. LeasesCovered'
  BY HeldCovers DEF Lease!TypeOK, Lease!Request, Lease!NoRequest, Lease!LeasesHeld, Lease!Holding, LeasesCovered
<1>4. Lease!PortsApart'
  BY DEF Lease!TypeOK, Lease!Request, Lease!NoRequest, Lease!Gone, Lease!LeasesHeld, Lease!Holding,
     Lease!PortsApart
<1>5. SureKnown'
  BY DEF Lease!TypeOK, Lease!Request, Lease!NoRequest, Lease!Gone, SureKnown, Lease!Holding
<1>6. PortsGiven'
  BY DEF Lease!TypeOK, Lease!Request, Lease!NoRequest, Lease!Gone, PortsGiven
<1> QED
  BY <1>1, <1>2, <1>3, <1>4, <1>5, <1>6, LeaseParts

\* A container is removed.
LEMMA RemovedKept ==
  ASSUME LeaseInv, NEW b \in Names, Lease!Removed(b)
  PROVE  LeaseInv'
<1> USE ServicesAssumption DEF Lease!PortsAssumption, Lease!Removed, LeaseInv, Lease!Ports, Lease!Bound
<1>1. Lease!TypeOK'
  <2>1. reqs' \in [Workers -> Lease!Request]
    BY DEF Lease!TypeOK, Lease!Request, Lease!NoRequest
  <2>2. \A s \in Workers : reqs'[s].at \in {"listing", "listed"} <=> lock' = s
    BY DEF Lease!TypeOK, Lease!Request, Lease!NoRequest
  <2> QED
    BY <2>1, <2>2 DEF Lease!TypeOK, Lease!Gone
<1>2. \A s \in Workers : Lease!Holding(s)' /\ reqs'[s].sure => reqs'[s].port \in leases'
  BY DEF Lease!TypeOK, Lease!Request, Lease!NoRequest, Lease!LeasesHeld, Lease!Holding
<1>3. LeasesCovered'
  BY HeldCovers DEF Lease!TypeOK, Lease!Request, Lease!NoRequest, Lease!LeasesHeld, Lease!Holding, LeasesCovered
<1>4. Lease!PortsApart'
  BY DEF Lease!TypeOK, Lease!Request, Lease!NoRequest, Lease!Gone, Lease!LeasesHeld, Lease!Holding,
     Lease!PortsApart
<1>5. SureKnown'
  BY DEF Lease!TypeOK, Lease!Request, Lease!NoRequest, Lease!Gone, SureKnown, Lease!Holding
<1>6. PortsGiven'
  BY DEF Lease!TypeOK, Lease!Request, Lease!NoRequest, Lease!Gone, PortsGiven
<1> QED
  BY <1>1, <1>2, <1>3, <1>4, <1>5, <1>6, LeaseParts

\* The manager restarts.
LEMMA RestartKept ==
  ASSUME LeaseInv, Lease!Restart
  PROVE  LeaseInv'
<1> USE ServicesAssumption DEF Lease!PortsAssumption, Lease!Restart, LeaseInv, Lease!Ports, Lease!Bound
<1>1. Lease!TypeOK'
  <2>1. reqs' \in [Workers -> Lease!Request]
    BY DEF Lease!TypeOK, Lease!Request, Lease!NoRequest
  <2>2. \A s \in Workers : reqs'[s].at \in {"listing", "listed"} <=> lock' = s
    BY DEF Lease!TypeOK, Lease!Request, Lease!NoRequest
  <2> QED
    BY <2>1, <2>2 DEF Lease!TypeOK, Lease!Gone
<1>2. \A s \in Workers : Lease!Holding(s)' /\ reqs'[s].sure => reqs'[s].port \in leases'
  BY DEF Lease!TypeOK, Lease!Request, Lease!NoRequest, Lease!LeasesHeld, Lease!Holding
<1>3. LeasesCovered'
  BY HeldCovers DEF Lease!TypeOK, Lease!Request, Lease!NoRequest, Lease!LeasesHeld, Lease!Holding, LeasesCovered
<1>4. Lease!PortsApart'
  BY DEF Lease!TypeOK, Lease!Request, Lease!NoRequest, Lease!Gone, Lease!LeasesHeld, Lease!Holding,
     Lease!PortsApart
<1>5. SureKnown'
  BY DEF Lease!TypeOK, Lease!Request, Lease!NoRequest, Lease!Gone, SureKnown, Lease!Holding
<1>6. PortsGiven'
  BY DEF Lease!TypeOK, Lease!Request, Lease!NoRequest, Lease!Gone, PortsGiven
<1> QED
  BY <1>1, <1>2, <1>3, <1>4, <1>5, <1>6, LeaseParts

-----------------------------------------------------------------------------
(* Leases and the ports that are allocated, in every behaviour. *)

LEMMA LeaseNextKept == ASSUME LeaseInv, Lease!Next PROVE LeaseInv'
<1>1. CASE \E r \in Workers, b \in Names, port \in Explicit \cup {0} : Lease!Create(r, b, port) \/ Lease!Recreate(r, b, port)
  BY <1>1, CreateKept, RecreateKept
<1>2. CASE \E r \in Workers, done, cleared \in BOOLEAN : Lease!Deleted(r, done, cleared)
  BY <1>2, DeletedKept
<1>3. CASE \E r \in Workers, ok \in BOOLEAN : Lease!Finish(r, ok) \/ Lease!Listed(r, ok)
  BY <1>3, FinishKept, ListedKept
<1>4. CASE \E r \in Workers : Lease!Lock(r) \/ Lease!Leased(r) \/ Lease!Breaks(r)
  BY <1>4, LockKept, LeasedKept, BreaksKept
<1>5. CASE \E b \in Names : Lease!Starts(b) \/ Lease!Stops(b) \/ Lease!Removed(b)
  BY <1>5, StartsKept, StopsKept, RemovedKept
<1>6. CASE Lease!Restart
  BY <1>6, RestartKept
<1> QED
  BY <1>1, <1>2, <1>3, <1>4, <1>5, <1>6 DEF Lease!Next

LEMMA LeaseRestKept == ASSUME LeaseInv, UNCHANGED leaseVars PROVE LeaseInv'
BY DEF leaseVars, LeaseInv, Lease!TypeOK, Lease!LeasesHeld, Lease!PortsApart, SureKnown, PortsGiven,
   Lease!Holding, Lease!Held, Lease!Bound

(* However requests for ports overlap, with restarts and failures between     *)
(* their steps, a lease lasts as long as its request and no allocated port is *)
(* another's (allocate_port of docker_async, create and recreate).            *)
THEOREM LeasesKept == ServicesSpec => [](Lease!TypeOK /\ Lease!LeasesHeld /\ Lease!PortsApart)
<1>1. ServicesInit => LeaseInv
  BY LeaseInitial
<1>2. LeaseInv /\ [ServicesNext]_servicesVars => LeaseInv'
  BY LeaseNextKept, LeaseRestKept DEF ServicesNext, servicesVars
<1>3. LeaseInv => Lease!TypeOK /\ Lease!LeasesHeld /\ Lease!PortsApart
  BY DEF LeaseInv
<1> QED
  BY <1>1, <1>2, <1>3, PTL DEF ServicesSpec

-----------------------------------------------------------------------------
(* Injections *)

\* ReservedExact is inductive with the types.
InjectionInv == Injection!TypeOK /\ Injection!ReservedExact

\* ReservedExact, port by port.
ReservedCovered ==
    /\ \A t \in Workers : Injection!Holding(t) => tasks[t].port \in reserved
    /\ \A p \in reserved : \E t \in Workers : Injection!Holding(t) /\ tasks[t].port = p

LEMMA ReservedCovers == (reserved = {tasks[t].port : t \in {u \in Workers : Injection!Holding(u)}}) <=> ReservedCovered
  BY DEF ReservedCovered

LEMMA InjectionParts ==
  ASSUME Injection!TypeOK', ReservedCovered',
         \A t, u \in Workers : Injection!Holding(t)' /\ Injection!Holding(u)' /\ t # u => tasks'[t].port # tasks'[u].port
  PROVE  InjectionInv'
  BY DEF InjectionInv, Injection!ReservedExact, ReservedCovered

\* A step after which the same detections hold the same ports.
LEMMA HoldersSame ==
  ASSUME InjectionInv, Injection!TypeOK', reserved' = reserved,
         \A t \in Workers : Injection!Holding(t)' <=> Injection!Holding(t),
         \A t \in Workers : Injection!Holding(t) => tasks'[t].port = tasks[t].port
  PROVE  InjectionInv'
<1>1. ReservedCovered
  BY ReservedCovers DEF InjectionInv, Injection!ReservedExact
<1>2. ReservedCovered'
  BY <1>1 DEF ReservedCovered
<1> QED
  BY <1>2, InjectionParts DEF InjectionInv, Injection!ReservedExact

LEMMA InjectionInitial == ServicesInit => InjectionInv
<1> SUFFICES ASSUME ServicesInit PROVE InjectionInv
  OBVIOUS
<1> USE ServicesAssumption DEF ServicesInit, Injection!Init, Injection!InjectionAssumption
<1>1. Injection!NoFile \in [there : BOOLEAN, ports : Seq(1..MaxPort)] /\ Injection!NoConn \in Injection!Conn
  BY DEF Injection!NoFile, Injection!NoConn, Injection!Conn
<1>2. \A t \in Workers : tasks[t] = Injection!NoTask
  OBVIOUS
<1>3. Injection!TypeOK
  BY <1>1 DEF Injection!TypeOK, Injection!Detection, Injection!NoTask
<1>4. Injection!ReservedExact
  BY <1>2 DEF Injection!ReservedExact, Injection!Holding, Injection!NoTask
<1> QED
  BY <1>3, <1>4 DEF InjectionInv

\* The records that a detection is made of.
LEMMA RecordsTyped ==
  /\ Injection!NoFile \in [there : BOOLEAN, ports : Seq(1..MaxPort)]
  /\ Injection!NoConn \in Injection!Conn
  /\ Injection!NoTask \in Injection!Detection
<1> USE ServicesAssumption DEF Injection!InjectionAssumption
<1>1. Injection!NoFile \in [there : BOOLEAN, ports : Seq(1..MaxPort)] /\ Injection!NoConn \in Injection!Conn
  BY DEF Injection!NoFile, Injection!NoConn, Injection!Conn
<1>2. <<>> \in Seq(1..MaxPort)
  OBVIOUS
<1> QED
  BY <1>1, <1>2 DEF Injection!NoTask, Injection!Detection

\* What takes one from the troubles there may be.
LEMMA TroubleTyped ==
  ASSUME Injection!TypeOK, Injection!Trouble
  PROVE  count' \in [logins : 0..MaxLogins, troubles : 0..MaxTroubles]
<1> USE ServicesAssumption DEF Injection!InjectionAssumption
<1>1. count.troubles + 1 \in 0..MaxTroubles /\ count.logins \in 0..MaxLogins
  BY DEF Injection!TypeOK, Injection!Trouble
<1>2. count' = [logins |-> count.logins, troubles |-> count.troubles + 1]
  BY DEF Injection!TypeOK, Injection!Trouble
<1> QED
  BY <1>1, <1>2

LEMMA ClientsTyped ==
  ASSUME NEW ports \in Seq(1..MaxPort), NEW p \in 1..MaxPort
  PROVE  Injection!Clients(ports, p) \in Seq(1..MaxPort)
  BY DEF Injection!Clients

LEMMA DisturbedTyped ==
  ASSUME Injection!TypeOK, NEW b \in Names, Injection!Disturbed(b)
  PROVE  tasks' \in [Workers -> Injection!Detection] /\ good' \subseteq Names
<1>1. \A t \in Workers : tasks[t] \in Injection!Detection
  BY DEF Injection!TypeOK
<1>2. \A d \in Injection!Detection : [d EXCEPT !.ok = FALSE] \in Injection!Detection
  BY DEF Injection!Detection
<1>3. tasks' = [t \in Workers |-> IF tasks[t].bot = b THEN [tasks[t] EXCEPT !.ok = FALSE] ELSE tasks[t]]
  BY DEF Injection!Disturbed
<1>4. tasks' \in [Workers -> Injection!Detection]
  BY <1>1, <1>2, <1>3
<1> QED
  BY <1>4 DEF Injection!Disturbed, Injection!TypeOK

\* A login is detected.
LEMMA LoginKept ==
  ASSUME InjectionInv, NEW b \in Names, NEW w \in Workers, Injection!Login(b, w)
  PROVE  InjectionInv'
<1> USE ServicesAssumption DEF Injection!InjectionAssumption, Injection!Login, Injection!Moved, Injection!Disturbed,
        Injection!Trouble
<1>a. Injection!TypeOK
  BY DEF InjectionInv
<1>1. Injection!TypeOK'
  <2>1. tasks' \in [Workers -> Injection!Detection]
    <3>1. Injection!NoTask \in Injection!Detection /\ tasks \in [Workers -> Injection!Detection]
      BY <1>a, RecordsTyped DEF Injection!TypeOK
    <3>2. tasks' = [tasks EXCEPT ![w] = [Injection!NoTask EXCEPT !.at = "file", !.bot = b, !.ok = TRUE]]
      OBVIOUS
    <3>3. [Injection!NoTask EXCEPT !.at = "file", !.bot = b, !.ok = TRUE] \in Injection!Detection
      BY <3>1 DEF Injection!Detection
    <3> QED
      BY <3>1, <3>2, <3>3
  <2>2. /\ {logged', marker', cleanups', good', mine'} \subseteq SUBSET Names /\ reserved' \subseteq 1..MaxPort
        /\ count' \in [logins : 0..MaxLogins, troubles : 0..MaxTroubles]
    <3>1. count.logins + 1 \in 0..MaxLogins /\ count.troubles \in 0..MaxTroubles
      BY <1>a DEF Injection!TypeOK
    <3>2. count' = [logins |-> count.logins + 1, troubles |-> count.troubles]
      BY <1>a DEF Injection!TypeOK
    <3> QED
      BY <1>a, <3>1, <3>2 DEF Injection!TypeOK
  <2>3. /\ file' \in [Names -> [there : BOOLEAN, ports : Seq(1..MaxPort)]]
        /\ conns' \in [Names -> Injection!Conn]
    BY <1>a DEF Injection!TypeOK, Injection!Detection, Injection!NoFile, Injection!NoConn, Injection!Conn
  <2>4. \A t \in Workers : tasks'[t].at = "idle" <=> tasks'[t].bot = Nobody
    BY <1>a DEF Injection!TypeOK, Injection!Detection, Injection!NoTask
  <2> QED
    BY <2>1, <2>2, <2>3, <2>4 DEF Injection!TypeOK
<1>2. \A t \in Workers : Injection!Holding(t)' <=> Injection!Holding(t)
  BY <1>a DEF Injection!TypeOK, Injection!Detection, Injection!Holding, Injection!NoTask
<1>3. \A t \in Workers : Injection!Holding(t) => tasks'[t].port = tasks[t].port
  BY <1>a DEF Injection!TypeOK, Injection!Detection, Injection!Holding, Injection!NoTask
<1> QED
  BY <1>1, <1>2, <1>3, HoldersSame

\* A bot logs out.
LEMMA LogoutKept ==
  ASSUME InjectionInv, NEW b \in Names, Injection!Logout(b)
  PROVE  InjectionInv'
<1> USE ServicesAssumption DEF Injection!InjectionAssumption, Injection!Logout, Injection!Moved, Injection!Disturbed,
        Injection!Trouble
<1>a. Injection!TypeOK
  BY DEF InjectionInv
<1>1. Injection!TypeOK'
  <2>1. tasks' \in [Workers -> Injection!Detection]
    BY <1>a DEF Injection!TypeOK, Injection!Detection, Injection!NoTask, Injection!NoConn, Injection!Conn
  <2>2. /\ {logged', marker', cleanups', good', mine'} \subseteq SUBSET Names /\ reserved' \subseteq 1..MaxPort
        /\ count' \in [logins : 0..MaxLogins, troubles : 0..MaxTroubles]
    BY <1>a DEF Injection!TypeOK, Injection!Detection
  <2>3. /\ file' \in [Names -> [there : BOOLEAN, ports : Seq(1..MaxPort)]]
        /\ conns' \in [Names -> Injection!Conn]
    BY <1>a DEF Injection!TypeOK, Injection!Detection, Injection!NoFile, Injection!NoConn, Injection!Conn
  <2>4. \A t \in Workers : tasks'[t].at = "idle" <=> tasks'[t].bot = Nobody
    BY <1>a DEF Injection!TypeOK, Injection!Detection, Injection!NoTask
  <2> QED
    BY <2>1, <2>2, <2>3, <2>4 DEF Injection!TypeOK
<1>2. \A t \in Workers : Injection!Holding(t)' <=> Injection!Holding(t)
  BY <1>a DEF Injection!TypeOK, Injection!Detection, Injection!Holding, Injection!NoTask
<1>3. \A t \in Workers : Injection!Holding(t) => tasks'[t].port = tasks[t].port
  BY <1>a DEF Injection!TypeOK, Injection!Detection, Injection!Holding, Injection!NoTask
<1> QED
  BY <1>1, <1>2, <1>3, HoldersSame

\* NapCat writes its configuration.
LEMMA NapCatWritesKept ==
  ASSUME InjectionInv, NEW b \in Names, Injection!NapCatWrites(b)
  PROVE  InjectionInv'
<1> USE ServicesAssumption DEF Injection!InjectionAssumption, Injection!NapCatWrites, Injection!Moved, Injection!Disturbed,
        Injection!Trouble
<1>a. Injection!TypeOK
  BY DEF InjectionInv
<1>1. Injection!TypeOK'
  <2>1. tasks' \in [Workers -> Injection!Detection]
    BY <1>a DEF Injection!TypeOK, Injection!Detection, Injection!NoTask, Injection!NoConn, Injection!Conn
  <2>2. /\ {logged', marker', cleanups', good', mine'} \subseteq SUBSET Names /\ reserved' \subseteq 1..MaxPort
        /\ count' \in [logins : 0..MaxLogins, troubles : 0..MaxTroubles]
    BY <1>a DEF Injection!TypeOK, Injection!Detection
  <2>3. /\ file' \in [Names -> [there : BOOLEAN, ports : Seq(1..MaxPort)]]
        /\ conns' \in [Names -> Injection!Conn]
    <3>1. file[b] \in [there : BOOLEAN, ports : Seq(1..MaxPort)]
      BY <1>a DEF Injection!TypeOK
    <3>2. [file[b] EXCEPT !.there = TRUE] \in [there : BOOLEAN, ports : Seq(1..MaxPort)]
      BY <3>1
    <3>3. file' = [file EXCEPT ![b] = [file[b] EXCEPT !.there = TRUE]]
      OBVIOUS
    <3> QED
      BY <1>a, <3>2, <3>3 DEF Injection!TypeOK
  <2>4. \A t \in Workers : tasks'[t].at = "idle" <=> tasks'[t].bot = Nobody
    BY <1>a DEF Injection!TypeOK, Injection!Detection, Injection!NoTask
  <2> QED
    BY <2>1, <2>2, <2>3, <2>4 DEF Injection!TypeOK
<1>2. \A t \in Workers : Injection!Holding(t)' <=> Injection!Holding(t)
  BY <1>a DEF Injection!TypeOK, Injection!Detection, Injection!Holding, Injection!NoTask
<1>3. \A t \in Workers : Injection!Holding(t) => tasks'[t].port = tasks[t].port
  BY <1>a DEF Injection!TypeOK, Injection!Detection, Injection!Holding, Injection!NoTask
<1> QED
  BY <1>1, <1>2, <1>3, HoldersSame

\* Data of an instance is cleared.
LEMMA ClearDataKept ==
  ASSUME InjectionInv, NEW b \in Names, NEW config \in BOOLEAN, NEW all \in BOOLEAN, Injection!ClearData(b,
         config, all)
  PROVE  InjectionInv'
<1> USE ServicesAssumption DEF Injection!InjectionAssumption, Injection!ClearData, Injection!Moved, Injection!Disturbed,
        Injection!Trouble
<1>a. Injection!TypeOK
  BY DEF InjectionInv
<1>1. Injection!TypeOK'
  <2>1. tasks' \in [Workers -> Injection!Detection]
    BY <1>a, DisturbedTyped
  <2>2. /\ {logged', marker', cleanups', good', mine'} \subseteq SUBSET Names /\ reserved' \subseteq 1..MaxPort
        /\ count' \in [logins : 0..MaxLogins, troubles : 0..MaxTroubles]
    <3>1. good' \subseteq Names /\ count' \in [logins : 0..MaxLogins, troubles : 0..MaxTroubles]
      BY <1>a, DisturbedTyped, TroubleTyped
    <3>2. marker' \subseteq Names /\ cleanups' \subseteq Names /\ logged' = logged /\ mine' = mine /\ reserved' = reserved
      BY <1>a DEF Injection!TypeOK
    <3> QED
      BY <1>a, <3>1, <3>2 DEF Injection!TypeOK
  <2>3. /\ file' \in [Names -> [there : BOOLEAN, ports : Seq(1..MaxPort)]]
        /\ conns' \in [Names -> Injection!Conn]
    BY <1>a DEF Injection!TypeOK, Injection!Detection, Injection!NoFile, Injection!NoConn, Injection!Conn
  <2>4. \A t \in Workers : tasks'[t].at = "idle" <=> tasks'[t].bot = Nobody
    BY <1>a DEF Injection!TypeOK, Injection!Detection, Injection!NoTask
  <2> QED
    BY <2>1, <2>2, <2>3, <2>4 DEF Injection!TypeOK
<1>2. \A t \in Workers : Injection!Holding(t)' <=> Injection!Holding(t)
  BY <1>a DEF Injection!TypeOK, Injection!Detection, Injection!Holding, Injection!NoTask
<1>3. \A t \in Workers : Injection!Holding(t) => tasks'[t].port = tasks[t].port
  BY <1>a DEF Injection!TypeOK, Injection!Detection, Injection!Holding, Injection!NoTask
<1> QED
  BY <1>1, <1>2, <1>3, HoldersSame

\* The connection is deleted.
LEMMA BsCleanupKept ==
  ASSUME InjectionInv, NEW b \in Names, Injection!BsCleanup(b)
  PROVE  InjectionInv'
<1> USE ServicesAssumption DEF Injection!InjectionAssumption, Injection!BsCleanup, Injection!Moved, Injection!Disturbed,
        Injection!Trouble
<1>a. Injection!TypeOK
  BY DEF InjectionInv
<1>1. Injection!TypeOK'
  <2>1. tasks' \in [Workers -> Injection!Detection]
    BY <1>a, DisturbedTyped
  <2>2. /\ {logged', marker', cleanups', good', mine'} \subseteq SUBSET Names /\ reserved' \subseteq 1..MaxPort
        /\ count' \in [logins : 0..MaxLogins, troubles : 0..MaxTroubles]
    BY <1>a DEF Injection!TypeOK, Injection!Detection
  <2>3. /\ file' \in [Names -> [there : BOOLEAN, ports : Seq(1..MaxPort)]]
        /\ conns' \in [Names -> Injection!Conn]
    BY <1>a DEF Injection!TypeOK, Injection!Detection, Injection!NoFile, Injection!NoConn, Injection!Conn
  <2>4. \A t \in Workers : tasks'[t].at = "idle" <=> tasks'[t].bot = Nobody
    BY <1>a DEF Injection!TypeOK, Injection!Detection, Injection!NoTask
  <2> QED
    BY <2>1, <2>2, <2>3, <2>4 DEF Injection!TypeOK
<1>2. \A t \in Workers : Injection!Holding(t)' <=> Injection!Holding(t)
  BY <1>a DEF Injection!TypeOK, Injection!Detection, Injection!Holding, Injection!NoTask
<1>3. \A t \in Workers : Injection!Holding(t) => tasks'[t].port = tasks[t].port
  BY <1>a DEF Injection!TypeOK, Injection!Detection, Injection!Holding, Injection!NoTask
<1> QED
  BY <1>1, <1>2, <1>3, HoldersSame

\* It is not.
LEMMA CleanupFailsKept ==
  ASSUME InjectionInv, NEW b \in Names, Injection!CleanupFails(b)
  PROVE  InjectionInv'
<1> USE ServicesAssumption DEF Injection!InjectionAssumption, Injection!CleanupFails, Injection!Moved, Injection!Disturbed,
        Injection!Trouble
<1>a. Injection!TypeOK
  BY DEF InjectionInv
<1>1. Injection!TypeOK'
  <2>1. tasks' \in [Workers -> Injection!Detection]
    BY <1>a DEF Injection!TypeOK, Injection!Detection, Injection!NoTask, Injection!NoConn, Injection!Conn
  <2>2. /\ {logged', marker', cleanups', good', mine'} \subseteq SUBSET Names /\ reserved' \subseteq 1..MaxPort
        /\ count' \in [logins : 0..MaxLogins, troubles : 0..MaxTroubles]
    BY <1>a DEF Injection!TypeOK, Injection!Detection
  <2>3. /\ file' \in [Names -> [there : BOOLEAN, ports : Seq(1..MaxPort)]]
        /\ conns' \in [Names -> Injection!Conn]
    BY <1>a DEF Injection!TypeOK, Injection!Detection, Injection!NoFile, Injection!NoConn, Injection!Conn
  <2>4. \A t \in Workers : tasks'[t].at = "idle" <=> tasks'[t].bot = Nobody
    BY <1>a DEF Injection!TypeOK, Injection!Detection, Injection!NoTask
  <2> QED
    BY <2>1, <2>2, <2>3, <2>4 DEF Injection!TypeOK
<1>2. \A t \in Workers : Injection!Holding(t)' <=> Injection!Holding(t)
  BY <1>a DEF Injection!TypeOK, Injection!Detection, Injection!Holding, Injection!NoTask
<1>3. \A t \in Workers : Injection!Holding(t) => tasks'[t].port = tasks[t].port
  BY <1>a DEF Injection!TypeOK, Injection!Detection, Injection!Holding, Injection!NoTask
<1> QED
  BY <1>1, <1>2, <1>3, HoldersSame

\* A user adds an endpoint.
LEMMA UserAddsKept ==
  ASSUME InjectionInv, NEW b \in Names, Injection!UserAdds(b)
  PROVE  InjectionInv'
<1> USE ServicesAssumption DEF Injection!InjectionAssumption, Injection!UserAdds, Injection!Moved, Injection!Disturbed,
        Injection!Trouble
<1>a. Injection!TypeOK
  BY DEF InjectionInv
<1>1. Injection!TypeOK'
  <2>1. tasks' \in [Workers -> Injection!Detection]
    BY <1>a DEF Injection!TypeOK, Injection!Detection, Injection!NoTask, Injection!NoConn, Injection!Conn
  <2>2. /\ {logged', marker', cleanups', good', mine'} \subseteq SUBSET Names /\ reserved' \subseteq 1..MaxPort
        /\ count' \in [logins : 0..MaxLogins, troubles : 0..MaxTroubles]
    BY <1>a DEF Injection!TypeOK, Injection!Detection
  <2>3. /\ file' \in [Names -> [there : BOOLEAN, ports : Seq(1..MaxPort)]]
        /\ conns' \in [Names -> Injection!Conn]
    <3>1. conns[b] \in Injection!Conn
      BY <1>a DEF Injection!TypeOK
    <3>2. [conns[b] EXCEPT !.user = TRUE] \in Injection!Conn
      BY <3>1 DEF Injection!Conn
    <3>3. conns' = [conns EXCEPT ![b] = [conns[b] EXCEPT !.user = TRUE]]
      OBVIOUS
    <3> QED
      BY <1>a, <3>2, <3>3 DEF Injection!TypeOK
  <2>4. \A t \in Workers : tasks'[t].at = "idle" <=> tasks'[t].bot = Nobody
    BY <1>a DEF Injection!TypeOK, Injection!Detection, Injection!NoTask
  <2> QED
    BY <2>1, <2>2, <2>3, <2>4 DEF Injection!TypeOK
<1>2. \A t \in Workers : Injection!Holding(t)' <=> Injection!Holding(t)
  BY <1>a DEF Injection!TypeOK, Injection!Detection, Injection!Holding, Injection!NoTask
<1>3. \A t \in Workers : Injection!Holding(t) => tasks'[t].port = tasks[t].port
  BY <1>a DEF Injection!TypeOK, Injection!Detection, Injection!Holding, Injection!NoTask
<1> QED
  BY <1>1, <1>2, <1>3, HoldersSame

\* Is there a file?
LEMMA FileSeenKept ==
  ASSUME InjectionInv, NEW w \in Workers, Injection!FileSeen(w)
  PROVE  InjectionInv'
<1> USE ServicesAssumption DEF Injection!InjectionAssumption, Injection!FileSeen, Injection!Moved, Injection!Disturbed,
        Injection!Trouble
<1>a. Injection!TypeOK
  BY DEF InjectionInv
<1>1. Injection!TypeOK'
  <2>1. tasks' \in [Workers -> Injection!Detection]
    <3>1. tasks \in [Workers -> Injection!Detection] /\ tasks[w] \in Injection!Detection
      BY <1>a DEF Injection!TypeOK
    <3>2. tasks' = [tasks EXCEPT ![w] = [tasks[w] EXCEPT !.found = file[tasks[w].bot].there, !.at = "marker"]]
      BY <3>1
    <3>3. file[tasks[w].bot].there \in BOOLEAN
      BY <3>1, <1>a DEF Injection!TypeOK, Injection!Detection
    <3>4. [tasks[w] EXCEPT !.found = file[tasks[w].bot].there, !.at = "marker"] \in Injection!Detection
      BY <3>1, <3>3 DEF Injection!Detection
    <3> QED
      BY <3>1, <3>2, <3>4
  <2>2. /\ {logged', marker', cleanups', good', mine'} \subseteq SUBSET Names /\ reserved' \subseteq 1..MaxPort
        /\ count' \in [logins : 0..MaxLogins, troubles : 0..MaxTroubles]
    BY <1>a DEF Injection!TypeOK, Injection!Detection
  <2>3. /\ file' \in [Names -> [there : BOOLEAN, ports : Seq(1..MaxPort)]]
        /\ conns' \in [Names -> Injection!Conn]
    BY <1>a DEF Injection!TypeOK, Injection!Detection, Injection!NoFile, Injection!NoConn, Injection!Conn
  <2>4. \A t \in Workers : tasks'[t].at = "idle" <=> tasks'[t].bot = Nobody
    BY <1>a DEF Injection!TypeOK, Injection!Detection, Injection!NoTask
  <2> QED
    BY <2>1, <2>2, <2>3, <2>4 DEF Injection!TypeOK
<1>2. \A t \in Workers : Injection!Holding(t)' <=> Injection!Holding(t)
  BY <1>a DEF Injection!TypeOK, Injection!Detection, Injection!Holding, Injection!NoTask
<1>3. \A t \in Workers : Injection!Holding(t) => tasks'[t].port = tasks[t].port
  BY <1>a DEF Injection!TypeOK, Injection!Detection, Injection!Holding, Injection!NoTask
<1> QED
  BY <1>1, <1>2, <1>3, HoldersSame

\* Is there a mark?
LEMMA MarkerSeenKept ==
  ASSUME InjectionInv, NEW w \in Workers, Injection!MarkerSeen(w)
  PROVE  InjectionInv'
<1> USE ServicesAssumption DEF Injection!InjectionAssumption, Injection!MarkerSeen, Injection!Moved, Injection!Disturbed,
        Injection!Trouble
<1>a. Injection!TypeOK
  BY DEF InjectionInv
<1>1. Injection!TypeOK'
  <2>1. tasks' \in [Workers -> Injection!Detection]
    <3>1. tasks \in [Workers -> Injection!Detection] /\ tasks[w] \in Injection!Detection
      BY <1>a DEF Injection!TypeOK
    <3>2. tasks' = [tasks EXCEPT ![w] = [tasks[w] EXCEPT !.found = FALSE, !.at =
                     IF tasks[w].bot \notin marker THEN "allocate" ELSE IF tasks[w].found THEN "url" ELSE "unmark"]]
      BY <3>1
    <3>4. [tasks[w] EXCEPT !.found = FALSE, !.at =
             IF tasks[w].bot \notin marker THEN "allocate" ELSE IF tasks[w].found THEN "url" ELSE "unmark"] \in Injection!Detection
      BY <3>1 DEF Injection!Detection
    <3> QED
      BY <3>1, <3>2, <3>4
  <2>2. /\ {logged', marker', cleanups', good', mine'} \subseteq SUBSET Names /\ reserved' \subseteq 1..MaxPort
        /\ count' \in [logins : 0..MaxLogins, troubles : 0..MaxTroubles]
    BY <1>a DEF Injection!TypeOK, Injection!Detection
  <2>3. /\ file' \in [Names -> [there : BOOLEAN, ports : Seq(1..MaxPort)]]
        /\ conns' \in [Names -> Injection!Conn]
    BY <1>a DEF Injection!TypeOK, Injection!Detection, Injection!NoFile, Injection!NoConn, Injection!Conn
  <2>4. \A t \in Workers : tasks'[t].at = "idle" <=> tasks'[t].bot = Nobody
    BY <1>a DEF Injection!TypeOK, Injection!Detection, Injection!NoTask
  <2> QED
    BY <2>1, <2>2, <2>3, <2>4 DEF Injection!TypeOK
<1>2. \A t \in Workers : Injection!Holding(t)' <=> Injection!Holding(t)
  BY <1>a DEF Injection!TypeOK, Injection!Detection, Injection!Holding, Injection!NoTask
<1>3. \A t \in Workers : Injection!Holding(t) => tasks'[t].port = tasks[t].port
  BY <1>a DEF Injection!TypeOK, Injection!Detection, Injection!Holding, Injection!NoTask
<1> QED
  BY <1>1, <1>2, <1>3, HoldersSame

\* The mark is removed.
LEMMA UnmarkedKept ==
  ASSUME InjectionInv, NEW w \in Workers, Injection!Unmarked(w)
  PROVE  InjectionInv'
<1> USE ServicesAssumption DEF Injection!InjectionAssumption, Injection!Unmarked, Injection!Moved, Injection!Disturbed,
        Injection!Trouble
<1>a. Injection!TypeOK
  BY DEF InjectionInv
<1>1. Injection!TypeOK'
  <2>1. tasks' \in [Workers -> Injection!Detection]
    <3>1. tasks \in [Workers -> Injection!Detection] /\ tasks[w] \in Injection!Detection
      BY <1>a DEF Injection!TypeOK
    <3>2. tasks' = [tasks EXCEPT ![w] = [tasks[w] EXCEPT !.at = "allocate"]]
      BY <3>1
    <3>4. [tasks[w] EXCEPT !.at = "allocate"] \in Injection!Detection
      BY <3>1 DEF Injection!Detection
    <3> QED
      BY <3>1, <3>2, <3>4
  <2>2. /\ {logged', marker', cleanups', good', mine'} \subseteq SUBSET Names /\ reserved' \subseteq 1..MaxPort
        /\ count' \in [logins : 0..MaxLogins, troubles : 0..MaxTroubles]
    BY <1>a DEF Injection!TypeOK, Injection!Detection
  <2>3. /\ file' \in [Names -> [there : BOOLEAN, ports : Seq(1..MaxPort)]]
        /\ conns' \in [Names -> Injection!Conn]
    BY <1>a DEF Injection!TypeOK, Injection!Detection, Injection!NoFile, Injection!NoConn, Injection!Conn
  <2>4. \A t \in Workers : tasks'[t].at = "idle" <=> tasks'[t].bot = Nobody
    BY <1>a DEF Injection!TypeOK, Injection!Detection, Injection!NoTask
  <2> QED
    BY <2>1, <2>2, <2>3, <2>4 DEF Injection!TypeOK
<1>2. \A t \in Workers : Injection!Holding(t)' <=> Injection!Holding(t)
  BY <1>a DEF Injection!TypeOK, Injection!Detection, Injection!Holding, Injection!NoTask
<1>3. \A t \in Workers : Injection!Holding(t) => tasks'[t].port = tasks[t].port
  BY <1>a DEF Injection!TypeOK, Injection!Detection, Injection!Holding, Injection!NoTask
<1> QED
  BY <1>1, <1>2, <1>3, HoldersSame

\* A step that may disturb others: it changes no more of them than that.
LEMMA CrossedTasks ==
  ASSUME Injection!TypeOK, NEW w \in Workers, NEW new \in Injection!Detection, NEW bots, NEW others,
         Injection!Crossed(w, new, bots, others)
  PROVE  /\ tasks' \in [Workers -> Injection!Detection] /\ good' = good \ bots
         /\ tasks'[w].ok <=> new.ok /\ bots = {} /\ others = {}
         /\ tasks'[w].at = new.at /\ tasks'[w].bot = new.bot /\ tasks'[w].port = new.port
         /\ tasks'[w].read = new.read /\ tasks'[w].conn = new.conn
         /\ \A u \in Workers \ {w} :
              /\ tasks'[u].ok <=> tasks[u].ok /\ u \notin others
              /\ tasks'[u].at = tasks[u].at /\ tasks'[u].bot = tasks[u].bot /\ tasks'[u].port = tasks[u].port
              /\ tasks'[u].read = tasks[u].read /\ tasks'[u].conn = tasks[u].conn
<1> DEFINE mine1 == [new EXCEPT !.ok = new.ok /\ bots = {} /\ others = {}]
<1>1. /\ good' = good \ bots
      /\ tasks' = [u \in Workers |->
           IF u = w THEN mine1 ELSE IF u \in others THEN [tasks[u] EXCEPT !.ok = FALSE] ELSE tasks[u]]
  BY DEF Injection!Crossed
<1>2. /\ mine1 \in Injection!Detection
      /\ mine1.ok <=> new.ok /\ bots = {} /\ others = {}
      /\ mine1.at = new.at /\ mine1.bot = new.bot /\ mine1.port = new.port
      /\ mine1.read = new.read /\ mine1.conn = new.conn
  <2>1. (new.ok /\ bots = {} /\ others = {}) \in BOOLEAN
    OBVIOUS
  <2> DEFINE ok == new.ok /\ bots = {} /\ others = {}
  <2>2. mine1 = [new EXCEPT !.ok = ok] /\ ok \in BOOLEAN
    BY <2>1
  <2> HIDE DEF mine1, ok
  <2>3. /\ mine1 \in Injection!Detection /\ mine1.ok = ok
        /\ mine1.at = new.at /\ mine1.bot = new.bot /\ mine1.port = new.port
        /\ mine1.read = new.read /\ mine1.conn = new.conn
    BY <2>2 DEF Injection!Detection
  <2> QED
    BY <2>3 DEF ok
<1> HIDE DEF mine1
<1>3. \A u \in Workers : tasks[u] \in Injection!Detection
  BY DEF Injection!TypeOK
<1>4. \A d \in Injection!Detection :
        LET e == [d EXCEPT !.ok = FALSE]
        IN  /\ e \in Injection!Detection /\ e.ok = FALSE /\ e.at = d.at /\ e.bot = d.bot
            /\ e.port = d.port /\ e.read = d.read /\ e.conn = d.conn
  BY DEF Injection!Detection
<1>5. tasks' \in [Workers -> Injection!Detection]
  BY <1>1, <1>2, <1>3, <1>4
<1>6. tasks'[w] = mine1
  BY <1>1
<1>7. \A u \in Workers \ {w} :
        /\ tasks'[u].ok <=> tasks[u].ok /\ u \notin others
        /\ tasks'[u].at = tasks[u].at /\ tasks'[u].bot = tasks[u].bot /\ tasks'[u].port = tasks[u].port
        /\ tasks'[u].read = tasks[u].read /\ tasks'[u].conn = tasks[u].conn
  <2> TAKE u \in Workers \ {w}
  <2>1. CASE u \in others
    BY <1>1, <1>3, <1>4, <2>1
  <2>2. CASE u \notin others
    BY <1>1, <2>2
  <2> QED
    BY <2>1, <2>2
<1> QED
  BY <1>1, <1>2, <1>5, <1>6, <1>7

\* What is read of the file, where there is a client.
LEMMA UrlOfFile ==
  ASSUME Injection!TypeOK, NEW w \in Workers, Injection!UrlRead(w), file[tasks[w].bot].ports # <<>>
  PROVE  LET p == Head(file[tasks[w].bot].ports)
         IN  /\ p \in 1..MaxPort /\ tasks[w].bot \in Names
             /\ [tasks[w] EXCEPT !.at = "get", !.port = p] \in Injection!Detection
             /\ Injection!Crossed(w, [tasks[w] EXCEPT !.at = "get", !.port = p],
                                  {b \in Injection!Others(w) : conns[b].port = p}, Injection!OthersWith(w, p))
<1> DEFINE ports == file[tasks[w].bot].ports
           p == Head(ports)
<1>1. tasks[w] \in Injection!Detection /\ tasks[w].at = "url" /\ tasks[w].bot \in Names
  BY DEF Injection!TypeOK, Injection!Detection, Injection!UrlRead
<1>2. Injection!Crossed(w, [tasks[w] EXCEPT !.at = "get", !.port = p],
                        {b \in Injection!Others(w) : conns[b].port = p}, Injection!OthersWith(w, p))
  BY DEF Injection!UrlRead
<1>3. ports \in Seq(1..MaxPort) /\ ports # <<>>
  BY <1>1 DEF Injection!TypeOK
<1> HIDE DEF ports
<1>4. p \in 1..MaxPort
  <2>1. Head(ports) \in 1..MaxPort
    BY <1>3, ServicesAssumption DEF Injection!InjectionAssumption
  <2> QED
    BY <2>1
<1> HIDE DEF p
<1>5. [tasks[w] EXCEPT !.at = "get", !.port = p] \in Injection!Detection
  <2>1. p \in 0..MaxPort
    BY <1>4
  <2> QED
    BY <1>1, <2>1 DEF Injection!Detection
<1> QED
  BY <1>1, <1>2, <1>4, <1>5 DEF p, ports

\* The first client is read.
LEMMA UrlReadKept ==
  ASSUME InjectionInv, NEW w \in Workers, Injection!UrlRead(w)
  PROVE  InjectionInv'
<1>a. Injection!TypeOK /\ tasks[w] \in Injection!Detection /\ tasks[w].at = "url" /\ tasks[w].bot # Nobody
  BY DEF InjectionInv, Injection!TypeOK, Injection!UrlRead
<1>b. UNCHANGED <<logged, file, marker, conns, cleanups, reserved, mine, count>>
  BY DEF Injection!UrlRead
<1> DEFINE ports == file[tasks[w].bot].ports
           new == [tasks[w] EXCEPT !.at = "get", !.port = Head(ports)]
<1>1. /\ tasks' \in [Workers -> Injection!Detection] /\ good' \subseteq good
      /\ \A u \in Workers \ {w} : tasks'[u].at = tasks[u].at /\ tasks'[u].bot = tasks[u].bot /\ tasks'[u].port = tasks[u].port
      /\ \/ tasks'[w].at = "idle" /\ tasks'[w].bot = Nobody
         \/ tasks'[w].at = "get" /\ tasks'[w].bot = tasks[w].bot
  <2>1. CASE ports = <<>>
    <3>1. tasks' = [tasks EXCEPT ![w] = Injection!NoTask] /\ good' = good
      BY <2>1 DEF Injection!UrlRead
    <3>2. tasks' \in [Workers -> Injection!Detection] /\ tasks'[w] = Injection!NoTask /\ \A u \in Workers \ {w} : tasks'[u] = tasks[u]
      BY <1>a, <3>1, RecordsTyped DEF Injection!TypeOK
    <3> QED
      BY <3>1, <3>2 DEF Injection!NoTask
  <2>2. CASE ports # <<>>
    <3> DEFINE bots == {b \in Injection!Others(w) : conns[b].port = Head(ports)}
               others == Injection!OthersWith(w, Head(ports))
    <3>1. new.at = "get" /\ new.bot = tasks[w].bot
      BY <1>a DEF Injection!Detection
    <3>2. new \in Injection!Detection /\ Injection!Crossed(w, new, bots, others)
      BY <1>a, <2>2, UrlOfFile
    <3> HIDE DEF new, bots, others
    <3> QED
      BY <1>a, <3>1, <3>2, CrossedTasks
  <2> QED
    BY <2>1, <2>2
<1> HIDE DEF ports, new
<1>2. Injection!TypeOK'
  BY <1>a, <1>b, <1>1 DEF Injection!TypeOK
<1>3. \A t \in Workers : Injection!Holding(t)' <=> Injection!Holding(t)
  BY <1>a, <1>1 DEF Injection!Holding
<1>4. \A t \in Workers : Injection!Holding(t) => tasks'[t].port = tasks[t].port
  BY <1>a, <1>1 DEF Injection!Holding
<1> QED
  BY <1>b, <1>2, <1>3, <1>4, HoldersSame

\* The file is read.
LEMMA FileReadKept ==
  ASSUME InjectionInv, NEW w \in Workers, Injection!FileRead(w)
  PROVE  InjectionInv'
<1> USE ServicesAssumption DEF Injection!InjectionAssumption, Injection!FileRead, Injection!Moved, Injection!Disturbed,
        Injection!Trouble
<1>a. Injection!TypeOK
  BY DEF InjectionInv
<1>1. Injection!TypeOK'
  <2>1. tasks' \in [Workers -> Injection!Detection]
    <3>1. tasks \in [Workers -> Injection!Detection] /\ tasks[w] \in Injection!Detection
      BY <1>a DEF Injection!TypeOK
    <3>2. tasks' = [tasks EXCEPT ![w] = [tasks[w] EXCEPT !.read = file[tasks[w].bot].ports, !.at = "write"]]
      BY <3>1
    <3>3. file[tasks[w].bot].ports \in Seq(1..MaxPort)
      BY <3>1, <1>a DEF Injection!TypeOK, Injection!Detection
    <3>4. [tasks[w] EXCEPT !.read = file[tasks[w].bot].ports, !.at = "write"] \in Injection!Detection
      BY <3>1, <3>3 DEF Injection!Detection
    <3> QED
      BY <3>1, <3>2, <3>4
  <2>2. /\ {logged', marker', cleanups', good', mine'} \subseteq SUBSET Names /\ reserved' \subseteq 1..MaxPort
        /\ count' \in [logins : 0..MaxLogins, troubles : 0..MaxTroubles]
    BY <1>a DEF Injection!TypeOK, Injection!Detection
  <2>3. /\ file' \in [Names -> [there : BOOLEAN, ports : Seq(1..MaxPort)]]
        /\ conns' \in [Names -> Injection!Conn]
    BY <1>a DEF Injection!TypeOK, Injection!Detection, Injection!NoFile, Injection!NoConn, Injection!Conn
  <2>4. \A t \in Workers : tasks'[t].at = "idle" <=> tasks'[t].bot = Nobody
    BY <1>a DEF Injection!TypeOK, Injection!Detection, Injection!NoTask
  <2> QED
    BY <2>1, <2>2, <2>3, <2>4 DEF Injection!TypeOK
<1>2. \A t \in Workers : Injection!Holding(t)' <=> Injection!Holding(t)
  BY <1>a DEF Injection!TypeOK, Injection!Detection, Injection!Holding, Injection!NoTask
<1>3. \A t \in Workers : Injection!Holding(t) => tasks'[t].port = tasks[t].port
  BY <1>a DEF Injection!TypeOK, Injection!Detection, Injection!Holding, Injection!NoTask
<1> QED
  BY <1>1, <1>2, <1>3, HoldersSame

LEMMA NoPorts == <<>> \in Seq(1..MaxPort)
  OBVIOUS

\* The file is written.
LEMMA FileWrittenKept ==
  ASSUME InjectionInv, NEW w \in Workers, Injection!FileWritten(w)
  PROVE  InjectionInv'
<1> USE ServicesAssumption DEF Injection!InjectionAssumption, Injection!FileWritten, Injection!Moved, Injection!Disturbed,
        Injection!Trouble
<1>a. Injection!TypeOK
  BY DEF InjectionInv
<1>1. Injection!TypeOK'
  <2>1. tasks' \in [Workers -> Injection!Detection]
    <3>1. \A t \in Workers : tasks[t] \in Injection!Detection
      BY <1>a DEF Injection!TypeOK
    <3>2. /\ \A d \in Injection!Detection, c \in BOOLEAN : [d EXCEPT !.ok = @ /\ c] \in Injection!Detection
          /\ \A d \in Injection!Detection : [d EXCEPT !.at = "mark", !.read = <<>>] \in Injection!Detection
      <4>1. \A d \in Injection!Detection, c \in BOOLEAN : [d EXCEPT !.ok = @ /\ c] \in Injection!Detection
        BY DEF Injection!Detection
      <4>2. <<>> \in Seq(1..MaxPort)
        BY NoPorts
      <4>3. \A d \in Injection!Detection : [d EXCEPT !.at = "mark", !.read = <<>>] \in Injection!Detection
        BY <4>2 DEF Injection!Detection
      <4> QED
        BY <4>1, <4>3
    <3>3. PICK crossed \in BOOLEAN : tasks' = [u \in Workers |->
            LET it == [tasks[u] EXCEPT !.ok = @ /\ ~(crossed /\ tasks[u].bot = tasks[w].bot)]
            IN  IF u = w THEN [it EXCEPT !.at = "mark", !.read = <<>>] ELSE it]
      OBVIOUS
    <3> DEFINE it(u) == [tasks[u] EXCEPT !.ok = @ /\ ~(crossed /\ tasks[u].bot = tasks[w].bot)]
    <3>4. tasks' = [u \in Workers |-> IF u = w THEN [it(u) EXCEPT !.at = "mark", !.read = <<>>] ELSE it(u)]
      BY <3>3
    <3>5. \A u \in Workers : it(u) \in Injection!Detection
      <4>1. \A u \in Workers : (~(crossed /\ tasks[u].bot = tasks[w].bot)) \in BOOLEAN
        OBVIOUS
      <4> QED
        BY <3>1, <3>2, <4>1
    <3> HIDE DEF it
    <3>6. \A u \in Workers : [it(u) EXCEPT !.at = "mark", !.read = <<>>] \in Injection!Detection
      BY <3>2, <3>5
    <3> QED
      BY <3>4, <3>5, <3>6
  <2>2. /\ {logged', marker', cleanups', good', mine'} \subseteq SUBSET Names /\ reserved' \subseteq 1..MaxPort
        /\ count' \in [logins : 0..MaxLogins, troubles : 0..MaxTroubles]
    BY <1>a DEF Injection!TypeOK, Injection!Detection
  <2>3. /\ file' \in [Names -> [there : BOOLEAN, ports : Seq(1..MaxPort)]]
        /\ conns' \in [Names -> Injection!Conn]
    <3>1. /\ tasks[w].bot \in Names /\ tasks[w].port \in 1..MaxPort /\ tasks[w].read \in Seq(1..MaxPort)
          /\ file \in [Names -> [there : BOOLEAN, ports : Seq(1..MaxPort)]]
      <4>1. tasks[w] \in Injection!Detection /\ tasks[w].bot # Nobody
        BY <1>a DEF Injection!TypeOK
      <4>2. tasks[w].port \in reserved
        BY ReservedCovers DEF InjectionInv, Injection!ReservedExact, ReservedCovered, Injection!Holding
      <4> QED
        BY <1>a, <4>1, <4>2 DEF Injection!TypeOK, Injection!Detection
    <3> DEFINE clients == Injection!Clients(tasks[w].read, tasks[w].port)
    <3>2. clients \in Seq(1..MaxPort)
      BY <3>1, ClientsTyped
    <3>3. file' \in {file, [file EXCEPT ![tasks[w].bot] = [there |-> TRUE, ports |-> clients]]}
      OBVIOUS
    <3> HIDE DEF clients
    <3>4. [there |-> TRUE, ports |-> clients] \in [there : BOOLEAN, ports : Seq(1..MaxPort)]
      BY <3>2
    <3>5. file' \in [Names -> [there : BOOLEAN, ports : Seq(1..MaxPort)]]
      BY <3>1, <3>3, <3>4
    <3> QED
      BY <1>a, <3>5 DEF Injection!TypeOK
  <2>4. \A t \in Workers : tasks'[t].at = "idle" <=> tasks'[t].bot = Nobody
    BY <1>a DEF Injection!TypeOK, Injection!Detection, Injection!NoTask
  <2> QED
    BY <2>1, <2>2, <2>3, <2>4 DEF Injection!TypeOK
<1>2. \A t \in Workers : Injection!Holding(t)' <=> Injection!Holding(t)
  BY <1>a DEF Injection!TypeOK, Injection!Detection, Injection!Holding, Injection!NoTask
<1>3. \A t \in Workers : Injection!Holding(t) => tasks'[t].port = tasks[t].port
  BY <1>a DEF Injection!TypeOK, Injection!Detection, Injection!Holding, Injection!NoTask
<1> QED
  BY <1>1, <1>2, <1>3, HoldersSame

\* The connection is read.
LEMMA GotKept ==
  ASSUME InjectionInv, NEW w \in Workers, Injection!Got(w)
  PROVE  InjectionInv'
<1> USE ServicesAssumption DEF Injection!InjectionAssumption, Injection!Got, Injection!Moved, Injection!Disturbed,
        Injection!Trouble
<1>a. Injection!TypeOK
  BY DEF InjectionInv
<1>1. Injection!TypeOK'
  <2>1. tasks' \in [Workers -> Injection!Detection]
    <3>1. tasks \in [Workers -> Injection!Detection] /\ tasks[w] \in Injection!Detection
      BY <1>a DEF Injection!TypeOK
    <3>2. tasks' = [tasks EXCEPT ![w] = [tasks[w] EXCEPT !.conn = conns[tasks[w].bot], !.at = "put"]]
      BY <3>1
    <3>3. conns[tasks[w].bot] \in Injection!Conn
      BY <3>1, <1>a DEF Injection!TypeOK, Injection!Detection
    <3>4. [tasks[w] EXCEPT !.conn = conns[tasks[w].bot], !.at = "put"] \in Injection!Detection
      BY <3>1, <3>3 DEF Injection!Detection
    <3> QED
      BY <3>1, <3>2, <3>4
  <2>2. /\ {logged', marker', cleanups', good', mine'} \subseteq SUBSET Names /\ reserved' \subseteq 1..MaxPort
        /\ count' \in [logins : 0..MaxLogins, troubles : 0..MaxTroubles]
    BY <1>a DEF Injection!TypeOK, Injection!Detection
  <2>3. /\ file' \in [Names -> [there : BOOLEAN, ports : Seq(1..MaxPort)]]
        /\ conns' \in [Names -> Injection!Conn]
    BY <1>a DEF Injection!TypeOK, Injection!Detection, Injection!NoFile, Injection!NoConn, Injection!Conn
  <2>4. \A t \in Workers : tasks'[t].at = "idle" <=> tasks'[t].bot = Nobody
    BY <1>a DEF Injection!TypeOK, Injection!Detection, Injection!NoTask
  <2> QED
    BY <2>1, <2>2, <2>3, <2>4 DEF Injection!TypeOK
<1>2. \A t \in Workers : Injection!Holding(t)' <=> Injection!Holding(t)
  BY <1>a DEF Injection!TypeOK, Injection!Detection, Injection!Holding, Injection!NoTask
<1>3. \A t \in Workers : Injection!Holding(t) => tasks'[t].port = tasks[t].port
  BY <1>a DEF Injection!TypeOK, Injection!Detection, Injection!Holding, Injection!NoTask
<1> QED
  BY <1>1, <1>2, <1>3, HoldersSame

\* The connection is written.
LEMMA PutKept ==
  ASSUME InjectionInv, NEW w \in Workers, Injection!Put(w)
  PROVE  InjectionInv'
<1> USE ServicesAssumption DEF Injection!InjectionAssumption, Injection!Put, Injection!Moved, Injection!Disturbed,
        Injection!Trouble
<1>a. Injection!TypeOK
  BY DEF InjectionInv
<1>1. Injection!TypeOK'
  <2>1. tasks' \in [Workers -> Injection!Detection]
    BY <1>a DEF Injection!TypeOK, Injection!Detection, Injection!NoTask, Injection!NoConn, Injection!Conn
  <2>2. /\ {logged', marker', cleanups', good', mine'} \subseteq SUBSET Names /\ reserved' \subseteq 1..MaxPort
        /\ count' \in [logins : 0..MaxLogins, troubles : 0..MaxTroubles]
    BY <1>a DEF Injection!TypeOK, Injection!Detection
  <2>3. /\ file' \in [Names -> [there : BOOLEAN, ports : Seq(1..MaxPort)]]
        /\ conns' \in [Names -> Injection!Conn]
    <3>1. tasks[w] \in Injection!Detection
      BY <1>a DEF Injection!TypeOK
    <3>2. Injection!Merged(tasks[w].conn, tasks[w].port) \in Injection!Conn
      BY <3>1 DEF Injection!Detection, Injection!Merged, Injection!Conn
    <3>3. conns' = [conns EXCEPT ![tasks[w].bot] = Injection!Merged(tasks[w].conn, tasks[w].port)] /\ file' = file
      OBVIOUS
    <3>4. conns \in [Names -> Injection!Conn] /\ file \in [Names -> [there : BOOLEAN, ports : Seq(1..MaxPort)]]
      BY <1>a DEF Injection!TypeOK
    <3> HIDE DEF Injection!Put
    <3>5. conns' \in [Names -> Injection!Conn]
      BY <3>2, <3>3, <3>4
    <3> QED
      BY <3>3, <3>4, <3>5
  <2>4. \A t \in Workers : tasks'[t].at = "idle" <=> tasks'[t].bot = Nobody
    BY <1>a DEF Injection!TypeOK, Injection!Detection, Injection!NoTask
  <2> QED
    BY <2>1, <2>2, <2>3, <2>4 DEF Injection!TypeOK
<1>2. \A t \in Workers : Injection!Holding(t)' <=> Injection!Holding(t)
  BY <1>a DEF Injection!TypeOK, Injection!Detection, Injection!Holding, Injection!NoTask
<1>3. \A t \in Workers : Injection!Holding(t) => tasks'[t].port = tasks[t].port
  BY <1>a DEF Injection!TypeOK, Injection!Detection, Injection!Holding, Injection!NoTask
<1> QED
  BY <1>1, <1>2, <1>3, HoldersSame

\* BotShepherd does not answer.
LEMMA SyncFailsKept ==
  ASSUME InjectionInv, NEW w \in Workers, Injection!SyncFails(w)
  PROVE  InjectionInv'
<1> USE ServicesAssumption DEF Injection!InjectionAssumption, Injection!SyncFails, Injection!Moved, Injection!Disturbed,
        Injection!Trouble
<1>a. Injection!TypeOK
  BY DEF InjectionInv
<1>1. Injection!TypeOK'
  <2>1. tasks' \in [Workers -> Injection!Detection]
    BY <1>a DEF Injection!TypeOK, Injection!Detection, Injection!NoTask, Injection!NoConn, Injection!Conn
  <2>2. /\ {logged', marker', cleanups', good', mine'} \subseteq SUBSET Names /\ reserved' \subseteq 1..MaxPort
        /\ count' \in [logins : 0..MaxLogins, troubles : 0..MaxTroubles]
    BY <1>a, TroubleTyped DEF Injection!TypeOK
  <2>3. /\ file' \in [Names -> [there : BOOLEAN, ports : Seq(1..MaxPort)]]
        /\ conns' \in [Names -> Injection!Conn]
    BY <1>a DEF Injection!TypeOK, Injection!Detection, Injection!NoFile, Injection!NoConn, Injection!Conn
  <2>4. \A t \in Workers : tasks'[t].at = "idle" <=> tasks'[t].bot = Nobody
    BY <1>a DEF Injection!TypeOK, Injection!Detection, Injection!NoTask
  <2> QED
    BY <2>1, <2>2, <2>3, <2>4 DEF Injection!TypeOK
<1>2. \A t \in Workers : Injection!Holding(t)' <=> Injection!Holding(t)
  BY <1>a DEF Injection!TypeOK, Injection!Detection, Injection!Holding, Injection!NoTask
<1>3. \A t \in Workers : Injection!Holding(t) => tasks'[t].port = tasks[t].port
  BY <1>a DEF Injection!TypeOK, Injection!Detection, Injection!Holding, Injection!NoTask
<1> QED
  BY <1>1, <1>2, <1>3, HoldersSame

\* The port that is handed out, to a detection that BotShepherd listens for the
\* bots of or not.
LEMMA PortOfAllocated ==
  ASSUME Injection!TypeOK, NEW w \in Workers, Injection!Allocated(w)
  PROVE  \E listens \in SUBSET Names, p \in 1..MaxPort :
           /\ p \notin reserved /\ (\A b \in listens : conns[b].port # p) /\ reserved' = reserved \cup {p}
           /\ tasks[w] \in Injection!Detection /\ tasks[w].at = "allocate" /\ tasks[w].bot \in Names
           /\ [tasks[w] EXCEPT !.port = p, !.at = "read"] \in Injection!Detection
           /\ Injection!Crossed(w, [tasks[w] EXCEPT !.port = p, !.at = "read"],
                                {b \in Injection!Others(w) \ listens : conns[b].port = p},
                                {u \in Injection!OthersWith(w, p) : tasks[u].at \in {"get", "put"}})
           /\ count' \in [logins : 0..MaxLogins, troubles : 0..MaxTroubles]
           /\ UNCHANGED <<logged, file, marker, conns, cleanups, mine>>
<1>1. PICK listens \in SUBSET Names :
        /\ IF listens = Names THEN UNCHANGED count ELSE Injection!Trouble
        /\ LET free == (1..MaxPort) \ Injection!Used(listens)
               p == Injection!Min(free)
           IN  /\ free # {}
               /\ reserved' = reserved \cup {p}
               /\ Injection!Crossed(w, [tasks[w] EXCEPT !.port = p, !.at = "read"],
                                    {b \in Injection!Others(w) \ listens : conns[b].port = p},
                                    {u \in Injection!OthersWith(w, p) : tasks[u].at \in {"get", "put"}})
  BY DEF Injection!Allocated
<1> DEFINE free == (1..MaxPort) \ Injection!Used(listens)
           p    == Injection!Min(free)
<1>2. p \in 1..MaxPort /\ p \notin Injection!Used(listens)
  <2>1. free \in SUBSET Nat
    OBVIOUS
  <2> QED
    BY <1>1, <2>1, InjectionMin
<1>3. p \notin reserved /\ \A b \in listens : conns[b].port # p
  BY <1>2 DEF Injection!Used
<1>4. count' \in [logins : 0..MaxLogins, troubles : 0..MaxTroubles]
  BY <1>1, TroubleTyped DEF Injection!TypeOK
<1>5. tasks[w] \in Injection!Detection /\ tasks[w].at = "allocate" /\ tasks[w].bot \in Names
  BY DEF Injection!TypeOK, Injection!Detection, Injection!Allocated
<1>6. UNCHANGED <<logged, file, marker, conns, cleanups, mine>>
  BY DEF Injection!Allocated
<1>7. /\ reserved' = reserved \cup {p}
      /\ Injection!Crossed(w, [tasks[w] EXCEPT !.port = p, !.at = "read"],
                           {b \in Injection!Others(w) \ listens : conns[b].port = p},
                           {u \in Injection!OthersWith(w, p) : tasks[u].at \in {"get", "put"}})
  BY <1>1
<1> HIDE DEF free, p
<1>8. [tasks[w] EXCEPT !.port = p, !.at = "read"] \in Injection!Detection
  <2>1. p \in 0..MaxPort
    BY <1>2
  <2>2. \A d \in Injection!Detection, q \in 0..MaxPort : [d EXCEPT !.port = q, !.at = "read"] \in Injection!Detection
    BY DEF Injection!Detection
  <2> QED
    BY <1>5, <2>1, <2>2
<1> QED
  BY <1>2, <1>3, <1>4, <1>5, <1>6, <1>7, <1>8

\* A port is reserved.
LEMMA AllocatedKept ==
  ASSUME InjectionInv, NEW w \in Workers, Injection!Allocated(w)
  PROVE  InjectionInv'
<1>1. PICK listens \in SUBSET Names, p \in 1..MaxPort :
        /\ p \notin reserved /\ reserved' = reserved \cup {p}
        /\ tasks[w] \in Injection!Detection /\ tasks[w].at = "allocate" /\ tasks[w].bot \in Names
        /\ [tasks[w] EXCEPT !.port = p, !.at = "read"] \in Injection!Detection
        /\ Injection!Crossed(w, [tasks[w] EXCEPT !.port = p, !.at = "read"],
                             {b \in Injection!Others(w) \ listens : conns[b].port = p},
                             {u \in Injection!OthersWith(w, p) : tasks[u].at \in {"get", "put"}})
        /\ count' \in [logins : 0..MaxLogins, troubles : 0..MaxTroubles]
        /\ UNCHANGED <<logged, file, marker, conns, cleanups, mine>>
  BY PortOfAllocated DEF InjectionInv
<1> DEFINE new == [tasks[w] EXCEPT !.port = p, !.at = "read"]
           bots == {b \in Injection!Others(w) \ listens : conns[b].port = p}
           others == {u \in Injection!OthersWith(w, p) : tasks[u].at \in {"get", "put"}}
<1>2. /\ new \in Injection!Detection /\ Injection!Crossed(w, new, bots, others)
      /\ new.at = "read" /\ new.port = p /\ new.bot = tasks[w].bot
  BY <1>1 DEF Injection!Detection
<1> HIDE DEF new, bots, others
<1>3. /\ tasks' \in [Workers -> Injection!Detection] /\ good' \subseteq good
      /\ tasks'[w].at = "read" /\ tasks'[w].port = p /\ tasks'[w].bot = tasks[w].bot
      /\ \A u \in Workers \ {w} : tasks'[u].at = tasks[u].at /\ tasks'[u].bot = tasks[u].bot /\ tasks'[u].port = tasks[u].port
  BY <1>2, CrossedTasks DEF InjectionInv
<1>4. tasks[w].bot # Nobody
  BY <1>1 DEF InjectionInv, Injection!TypeOK
<1>5. Injection!TypeOK'
  BY <1>1, <1>3, <1>4 DEF InjectionInv, Injection!TypeOK
<1>6. \A t \in Workers \ {w} :
        /\ Injection!Holding(t)' => Injection!Holding(t) /\ tasks'[t].port \in reserved
        /\ Injection!Holding(t) => Injection!Holding(t)' /\ tasks'[t].port = tasks[t].port
  BY <1>3, ReservedCovers DEF InjectionInv, Injection!ReservedExact, ReservedCovered, Injection!Holding
<1>7. ReservedCovered'
  <2>1. Injection!Holding(w)' /\ ~Injection!Holding(w)
    BY <1>1, <1>3 DEF Injection!Holding
  <2> QED
    BY <1>1, <1>3, <1>6, <2>1, ReservedCovers DEF InjectionInv, Injection!ReservedExact, ReservedCovered
<1>8. \A t, u \in Workers : Injection!Holding(t)' /\ Injection!Holding(u)' /\ t # u => tasks'[t].port # tasks'[u].port
  BY <1>1, <1>3, <1>6 DEF InjectionInv, Injection!ReservedExact
<1> QED
  BY <1>5, <1>7, <1>8, InjectionParts

\* A detection that holds a port lets go of it: no other holds that port.
LEMMA Released ==
  ASSUME InjectionInv, Injection!TypeOK', NEW w \in Workers, Injection!Holding(w), ~Injection!Holding(w)',
         reserved' = reserved \ {tasks[w].port}, \A t \in Workers \ {w} : tasks'[t] = tasks[t]
  PROVE  InjectionInv'
<1>1. \A t \in Workers : Injection!Holding(t)' => t # w /\ Injection!Holding(t) /\ tasks'[t].port = tasks[t].port
  BY DEF Injection!Holding
<1>2. \A t \in Workers \ {w} : Injection!Holding(t) => Injection!Holding(t)'
  BY DEF Injection!Holding
<1>3. ReservedCovered'
  BY <1>1, <1>2, ReservedCovers DEF InjectionInv, Injection!ReservedExact, ReservedCovered
<1>4. \A t, u \in Workers : Injection!Holding(t)' /\ Injection!Holding(u)' /\ t # u => tasks'[t].port # tasks'[u].port
  BY <1>1 DEF InjectionInv, Injection!ReservedExact
<1> QED
  BY <1>3, <1>4, InjectionParts

\* The injection is marked as done.
LEMMA MarkedKept ==
  ASSUME InjectionInv, NEW w \in Workers, Injection!Marked(w)
  PROVE  InjectionInv'
<1>1. /\ tasks[w].at = "mark" /\ marker' = marker \cup {tasks[w].bot} /\ reserved' = reserved \ {tasks[w].port}
      /\ tasks' = [tasks EXCEPT ![w] = [tasks[w] EXCEPT !.at = "get"]]
      /\ UNCHANGED <<logged, file, conns, cleanups, good, mine, count>>
  BY DEF Injection!Marked, Injection!Moved
<1>2. tasks \in [Workers -> Injection!Detection] /\ tasks[w] \in Injection!Detection /\ tasks[w].bot \in Names
  BY <1>1 DEF InjectionInv, Injection!TypeOK, Injection!Detection
<1>3. [tasks[w] EXCEPT !.at = "get"] \in Injection!Detection
  BY <1>2 DEF Injection!Detection
<1>4. /\ tasks' \in [Workers -> Injection!Detection] /\ tasks'[w].at = "get" /\ tasks'[w].bot = tasks[w].bot
      /\ \A t \in Workers \ {w} : tasks'[t] = tasks[t]
  BY <1>1, <1>2, <1>3 DEF Injection!Detection
<1>5. Injection!TypeOK'
  BY <1>1, <1>2, <1>4 DEF InjectionInv, Injection!TypeOK
<1>6. Injection!Holding(w) /\ ~Injection!Holding(w)'
  BY <1>1, <1>4 DEF Injection!Holding
<1> QED
  BY <1>1, <1>4, <1>5, <1>6, Released

\* An injection fails.
LEMMA FailsKept ==
  ASSUME InjectionInv, NEW w \in Workers, Injection!Fails(w)
  PROVE  InjectionInv'
<1>1. /\ tasks[w].at \in {"read", "write", "mark"} /\ reserved' = reserved \ {tasks[w].port}
      /\ Injection!Trouble /\ UNCHANGED <<logged, file, marker, conns, cleanups, mine>>
  BY DEF Injection!Fails
<1>2. good' \in {good, good \ {tasks[w].bot}}
  BY DEF Injection!Fails
<1>3. /\ tasks \in [Workers -> Injection!Detection] /\ tasks[w] \in Injection!Detection /\ tasks[w].bot \in Names
      /\ Injection!TypeOK
  BY <1>1 DEF InjectionInv, Injection!TypeOK, Injection!Detection
<1>4. /\ tasks' \in [Workers -> Injection!Detection] /\ tasks'[w].at = "get" /\ tasks'[w].bot = tasks[w].bot
      /\ \A t \in Workers \ {w} : tasks'[t] = tasks[t]
  <2>1. \A ok \in BOOLEAN, read \in Seq(1..MaxPort) :
          [tasks[w] EXCEPT !.at = "get", !.read = read, !.ok = ok] \in Injection!Detection
    BY <1>3 DEF Injection!Detection
  <2>2. PICK ok \in BOOLEAN, read \in Seq(1..MaxPort) :
          tasks' = [tasks EXCEPT ![w] = [tasks[w] EXCEPT !.at = "get", !.read = read, !.ok = ok]]
    <3>1. CASE tasks[w].at = "mark"
      <4>1. tasks' = [tasks EXCEPT ![w] = [tasks[w] EXCEPT !.at = "get"]]
        BY <3>1 DEF Injection!Fails, Injection!Moved
      <4>2. /\ tasks[w].ok \in BOOLEAN /\ tasks[w].read \in Seq(1..MaxPort)
            /\ [tasks[w] EXCEPT !.at = "get"] =
                 [tasks[w] EXCEPT !.at = "get", !.read = tasks[w].read, !.ok = tasks[w].ok]
        BY <1>3 DEF Injection!Detection
      <4> QED
        BY <4>1, <4>2
    <3>2. CASE tasks[w].at # "mark"
      <4>1. tasks' = [tasks EXCEPT ![w] = [tasks[w] EXCEPT !.at = "get", !.read = <<>>, !.ok = FALSE]]
        BY <3>2 DEF Injection!Fails
      <4>2. <<>> \in Seq(1..MaxPort)
        OBVIOUS
      <4> QED
        BY <4>1, <4>2
    <3> QED
      BY <3>1, <3>2
  <2>3. tasks'[w] = [tasks[w] EXCEPT !.at = "get", !.read = read, !.ok = ok] /\ \A t \in Workers \ {w} : tasks'[t] = tasks[t]
    BY <1>3, <2>2
  <2> QED
    BY <1>3, <2>1, <2>2, <2>3 DEF Injection!Detection
<1>5. Injection!TypeOK'
  BY <1>1, <1>2, <1>3, <1>4, TroubleTyped DEF InjectionInv, Injection!TypeOK
<1>6. Injection!Holding(w) /\ ~Injection!Holding(w)'
  BY <1>1, <1>4 DEF Injection!Holding
<1> QED
  BY <1>1, <1>4, <1>5, <1>6, Released

\* The manager restarts: no detection is left.
LEMMA ForgottenKept ==
  ASSUME InjectionInv, Injection!Restart
  PROVE  InjectionInv'
<1> USE ServicesAssumption DEF Injection!InjectionAssumption
<1>1. /\ \A t \in Workers : tasks'[t].at = "idle" /\ tasks'[t].bot = Nobody
      /\ tasks' \in [Workers -> Injection!Detection]
  <2>1. Injection!NoTask.at = "idle" /\ Injection!NoTask.bot = Nobody
    BY DEF Injection!NoTask
  <2>2. tasks' = [t \in Workers |-> Injection!NoTask]
    BY DEF Injection!Restart
  <2> QED
    BY <2>1, <2>2, RecordsTyped
<1>2. Injection!TypeOK'
  <2>1. Injection!TypeOK /\ Injection!Trouble
    BY DEF InjectionInv, Injection!Restart
  <2> QED
    BY <1>1, <2>1, TroubleTyped DEF Injection!Restart, Injection!TypeOK
<1>3. \A t \in Workers : ~Injection!Holding(t)'
  BY <1>1 DEF Injection!Holding
<1>4. ReservedCovered'
  BY <1>3 DEF ReservedCovered, Injection!Restart
<1> QED
  BY <1>2, <1>3, <1>4, InjectionParts

LEMMA InjectionNextKept == ASSUME InjectionInv, Injection!Next PROVE InjectionInv'
<1>1. CASE \E b \in Names : \/ Injection!Logout(b) \/ Injection!NapCatWrites(b) \/ Injection!BsCleanup(b)
                           \/ Injection!CleanupFails(b) \/ Injection!UserAdds(b)
  BY <1>1, LogoutKept, NapCatWritesKept, BsCleanupKept, CleanupFailsKept, UserAddsKept
<1>2. CASE \E b \in Names, w \in Workers : Injection!Login(b, w)
  BY <1>2, LoginKept
<1>3. CASE \E b \in Names, config, all \in BOOLEAN : Injection!ClearData(b, config, all)
  BY <1>3, ClearDataKept
<1>4. ASSUME NEW w \in Workers,
             \/ Injection!FileSeen(w) \/ Injection!MarkerSeen(w) \/ Injection!Unmarked(w) \/ Injection!UrlRead(w)
             \/ Injection!Allocated(w) \/ Injection!FileRead(w) \/ Injection!FileWritten(w) \/ Injection!Marked(w)
             \/ Injection!Fails(w) \/ Injection!Got(w) \/ Injection!Put(w) \/ Injection!SyncFails(w)
      PROVE  InjectionInv'
  BY <1>4, FileSeenKept, MarkerSeenKept, UnmarkedKept, UrlReadKept, AllocatedKept, FileReadKept,
     FileWrittenKept,
     MarkedKept, FailsKept, GotKept, PutKept, SyncFailsKept
<1>5. CASE Injection!Restart
  BY <1>5, ForgottenKept
<1> QED
  BY <1>1, <1>2, <1>3, <1>4, <1>5 DEF Injection!Next

LEMMA InjectionRestKept == ASSUME InjectionInv, UNCHANGED injectionVars PROVE InjectionInv'
BY DEF injectionVars, InjectionInv, Injection!TypeOK, Injection!ReservedExact, Injection!Holding

(* A port is reserved exactly while a detection that has not written its     *)
(* configuration holds it, and no two hold the same one, however detections  *)
(* overlap, fail and are cut off (_on_login_detected and allocate_port of    *)
(* docker_manager).                                                          *)
THEOREM ReservationsExact == ServicesSpec => [](Injection!TypeOK /\ Injection!ReservedExact)
<1>1. ServicesInit => InjectionInv
  BY InjectionInitial
<1>2. InjectionInv /\ [ServicesNext]_servicesVars => InjectionInv'
  BY InjectionNextKept, InjectionRestKept DEF ServicesNext, servicesVars
<1>3. InjectionInv => Injection!TypeOK /\ Injection!ReservedExact
  BY DEF InjectionInv
<1> QED
  BY <1>1, <1>2, <1>3, PTL DEF ServicesSpec

(* Ports are reserved as long as they are needed, for an injection as for a  *)
(* container, and by one only: the run's PortsHeld, in every behaviour.      *)
THEOREM PortsAlwaysHeld == ServicesSpec => []PortsHeld
<1>1. ServicesSpec => [](Lease!TypeOK /\ Lease!LeasesHeld /\ Lease!PortsApart)
  BY LeasesKept
<1>2. ServicesSpec => [](Injection!TypeOK /\ Injection!ReservedExact)
  BY ReservationsExact
<1>3. (Lease!LeasesHeld /\ Lease!PortsApart) /\ Injection!ReservedExact => PortsHeld
  BY DEF PortsHeld
<1> QED
  BY <1>1, <1>2, <1>3, PTL

-----------------------------------------------------------------------------
(* Bots and BotShepherd meet *)

\* A detection that nothing disturbed has written its port, or found it, and what
\* it read of the file is still there; what it read of the connection has the
\* endpoint of a user that is to be kept.
Undisturbed(t) ==
    LET me == tasks[t]
    IN  /\ me.ok /\ me.at \in {"mark", "get", "put"} => me.port \in Injection!Range(file[me.bot].ports)
        /\ me.ok /\ me.at = "write" => Injection!Range(me.read) \subseteq Injection!Range(file[me.bot].ports)
        /\ me.at = "put" /\ me.bot \in mine => me.conn.user

\* What every step of the injection keeps, besides the types.
Met == Injection!MeetsBot /\ Injection!EndpointsKept
BotInv == Met /\ \A t \in Workers : Undisturbed(t)

LEMMA HeadInRange == ASSUME NEW s \in Seq(1..MaxPort), s # <<>> PROVE Head(s) \in Injection!Range(s)
  BY DEF Injection!Range

LEMMA ClientsRange ==
  ASSUME NEW s \in Seq(1..MaxPort), NEW p
  PROVE  Injection!Range(Injection!Clients(s, p)) = Injection!Range(s) \cup {p}
<1>1. Injection!Clients(s, p) = Append(s, p)
  BY DEF Injection!Clients
<1>2. \A x \in Injection!Range(Append(s, p)) : x \in Injection!Range(s) \cup {p}
  BY DEF Injection!Range
<1>3. \A x \in Injection!Range(s) : x \in Injection!Range(Append(s, p))
  <2> SUFFICES ASSUME NEW i \in DOMAIN s PROVE s[i] \in Injection!Range(Append(s, p))
    BY DEF Injection!Range
  <2>1. i \in DOMAIN Append(s, p) /\ Append(s, p)[i] = s[i]
    OBVIOUS
  <2> QED
    BY <2>1 DEF Injection!Range
<1>4. p \in Injection!Range(Append(s, p))
  <2>1. Len(s) + 1 \in DOMAIN Append(s, p) /\ Append(s, p)[Len(s) + 1] = p
    OBVIOUS
  <2> QED
    BY <2>1 DEF Injection!Range
<1> QED
  BY <1>1, <1>2, <1>3, <1>4

LEMMA BotInitial == ServicesInit => BotInv
  BY ServicesAssumption DEF ServicesInit, Injection!Init, BotInv, Met, Injection!MeetsBot, Injection!EndpointsKept, Undisturbed, Injection!NoTask

\* What a step does to what is promised, part by part.
LEMMA BotParts ==
  ASSUME Injection!TypeOK, BotInv, UNCHANGED <<file, conns>>, good' \subseteq good, mine' \subseteq mine,
         \A t \in Workers : tasks'[t] = tasks[t] \/ Undisturbed(t)'
  PROVE  BotInv'
  BY DEF BotInv, Met, Injection!MeetsBot, Injection!EndpointsKept, Undisturbed

\* A login is detected.
LEMMA LoginReaches ==
  ASSUME Injection!TypeOK, BotInv, NEW b \in Names, NEW w \in Workers, Injection!Login(b, w)
  PROVE  BotInv'
<1> USE DEF Injection!Login
<1>1. UNCHANGED <<file, conns, good>> /\ mine' \subseteq mine
  OBVIOUS
<1>2. \A u \in Workers : tasks'[u] = tasks[u] \/ Undisturbed(u)'
  BY DEF Injection!TypeOK, Injection!Detection, BotInv, Undisturbed, Injection!NoTask
<1> QED
  BY <1>1, <1>2, BotParts

\* A bot logs out.
LEMMA LogoutReaches ==
  ASSUME Injection!TypeOK, BotInv, NEW b \in Names, Injection!Logout(b)
  PROVE  BotInv'
<1> USE DEF Injection!Logout
<1>1. UNCHANGED <<file, conns, good>> /\ mine' \subseteq mine
  OBVIOUS
<1>2. \A u \in Workers : tasks'[u] = tasks[u] \/ Undisturbed(u)'
  BY DEF Injection!TypeOK, Injection!Detection, BotInv, Undisturbed
<1> QED
  BY <1>1, <1>2, BotParts

\* A connection cannot be deleted.
LEMMA CleanupFailsReaches ==
  ASSUME Injection!TypeOK, BotInv, NEW b \in Names, Injection!CleanupFails(b)
  PROVE  BotInv'
<1> USE DEF Injection!CleanupFails
<1>1. UNCHANGED <<file, conns, good>> /\ mine' \subseteq mine
  OBVIOUS
<1>2. \A u \in Workers : tasks'[u] = tasks[u] \/ Undisturbed(u)'
  BY DEF Injection!TypeOK, Injection!Detection, BotInv, Undisturbed
<1> QED
  BY <1>1, <1>2, BotParts

\* Is there a file?
LEMMA FileSeenReaches ==
  ASSUME Injection!TypeOK, BotInv, NEW w \in Workers, Injection!FileSeen(w)
  PROVE  BotInv'
<1> USE DEF Injection!FileSeen
<1>1. UNCHANGED <<file, conns, good>> /\ mine' \subseteq mine
  OBVIOUS
<1>2. \A u \in Workers : tasks'[u] = tasks[u] \/ Undisturbed(u)'
  BY DEF Injection!TypeOK, Injection!Detection, BotInv, Undisturbed
<1> QED
  BY <1>1, <1>2, BotParts

\* Is there a mark?
LEMMA MarkerSeenReaches ==
  ASSUME Injection!TypeOK, BotInv, NEW w \in Workers, Injection!MarkerSeen(w)
  PROVE  BotInv'
<1> USE DEF Injection!MarkerSeen
<1>1. UNCHANGED <<file, conns, good>> /\ mine' \subseteq mine
  OBVIOUS
<1>2. \A u \in Workers : tasks'[u] = tasks[u] \/ Undisturbed(u)'
  BY DEF Injection!TypeOK, Injection!Detection, BotInv, Undisturbed
<1> QED
  BY <1>1, <1>2, BotParts

\* The mark is removed.
LEMMA UnmarkedReaches ==
  ASSUME Injection!TypeOK, BotInv, NEW w \in Workers, Injection!Unmarked(w)
  PROVE  BotInv'
<1> USE DEF Injection!Unmarked, Injection!Moved
<1>1. UNCHANGED <<file, conns, good>> /\ mine' \subseteq mine
  OBVIOUS
<1>2. \A u \in Workers : tasks'[u] = tasks[u] \/ Undisturbed(u)'
  BY DEF Injection!TypeOK, Injection!Detection, BotInv, Undisturbed
<1> QED
  BY <1>1, <1>2, BotParts

\* A port is allocated.
LEMMA AllocatedReaches ==
  ASSUME Injection!TypeOK, BotInv, NEW w \in Workers, Injection!Allocated(w)
  PROVE  BotInv'
<1>1. PICK listens \in SUBSET Names, p \in 1..MaxPort :
        /\ tasks[w] \in Injection!Detection
        /\ [tasks[w] EXCEPT !.port = p, !.at = "read"] \in Injection!Detection
        /\ Injection!Crossed(w, [tasks[w] EXCEPT !.port = p, !.at = "read"],
                             {b \in Injection!Others(w) \ listens : conns[b].port = p},
                             {u \in Injection!OthersWith(w, p) : tasks[u].at \in {"get", "put"}})
        /\ UNCHANGED <<file, conns, mine>>
  BY PortOfAllocated
<1> DEFINE new == [tasks[w] EXCEPT !.port = p, !.at = "read"]
           bots == {b \in Injection!Others(w) \ listens : conns[b].port = p}
           others == {u \in Injection!OthersWith(w, p) : tasks[u].at \in {"get", "put"}}
<1>2. new \in Injection!Detection /\ Injection!Crossed(w, new, bots, others) /\ new.at = "read"
  BY <1>1 DEF Injection!Detection
<1> HIDE DEF new, bots, others
<1>3. /\ good' \subseteq good /\ tasks'[w].at = "read"
      /\ \A u \in Workers \ {w} :
           /\ tasks'[u].ok => tasks[u].ok
           /\ tasks'[u].at = tasks[u].at /\ tasks'[u].bot = tasks[u].bot /\ tasks'[u].port = tasks[u].port
           /\ tasks'[u].read = tasks[u].read /\ tasks'[u].conn = tasks[u].conn
  BY <1>2, CrossedTasks
<1>4. \A u \in Workers : Undisturbed(u)'
  BY <1>1, <1>3 DEF BotInv, Undisturbed
<1> QED
  BY <1>1, <1>3, <1>4, BotParts

\* The file is read.
LEMMA FileReadReaches ==
  ASSUME Injection!TypeOK, BotInv, NEW w \in Workers, Injection!FileRead(w)
  PROVE  BotInv'
<1> USE DEF Injection!FileRead
<1>1. UNCHANGED <<file, conns, good>> /\ mine' \subseteq mine
  OBVIOUS
<1>2. \A u \in Workers : tasks'[u] = tasks[u] \/ Undisturbed(u)'
  BY DEF Injection!TypeOK, Injection!Detection, BotInv, Undisturbed
<1> QED
  BY <1>1, <1>2, BotParts

\* The mark is made.
LEMMA MarkedReaches ==
  ASSUME Injection!TypeOK, BotInv, NEW w \in Workers, Injection!Marked(w)
  PROVE  BotInv'
<1> USE DEF Injection!Marked, Injection!Moved
<1>1. UNCHANGED <<file, conns, good>> /\ mine' \subseteq mine
  OBVIOUS
<1>2. \A u \in Workers : tasks'[u] = tasks[u] \/ Undisturbed(u)'
  BY DEF Injection!TypeOK, Injection!Detection, BotInv, Undisturbed
<1> QED
  BY <1>1, <1>2, BotParts

\* The connection is read.
LEMMA GotReaches ==
  ASSUME Injection!TypeOK, BotInv, NEW w \in Workers, Injection!Got(w)
  PROVE  BotInv'
<1> USE DEF Injection!Got
<1>1. UNCHANGED <<file, conns, good>> /\ mine' \subseteq mine
  OBVIOUS
<1>2. \A u \in Workers : tasks'[u] = tasks[u] \/ Undisturbed(u)'
  BY DEF Injection!TypeOK, Injection!Detection, BotInv, Undisturbed, Met, Injection!MeetsBot, Injection!EndpointsKept
<1> QED
  BY <1>1, <1>2, BotParts

\* BotShepherd does not answer.
LEMMA SyncFailsReaches ==
  ASSUME Injection!TypeOK, BotInv, NEW w \in Workers, Injection!SyncFails(w)
  PROVE  BotInv'
<1> USE DEF Injection!SyncFails
<1>1. UNCHANGED <<file, conns, good>> /\ mine' \subseteq mine
  OBVIOUS
<1>2. \A u \in Workers : tasks'[u] = tasks[u] \/ Undisturbed(u)'
  BY DEF Injection!TypeOK, Injection!Detection, BotInv, Undisturbed, Injection!NoTask
<1> QED
  BY <1>1, <1>2, BotParts

\* The first client is read.
LEMMA UrlReadReaches ==
  ASSUME Injection!TypeOK, BotInv, NEW w \in Workers, Injection!UrlRead(w)
  PROVE  BotInv'
<1> DEFINE ports == file[tasks[w].bot].ports
<1>1. UNCHANGED <<file, conns, mine>>
  BY DEF Injection!UrlRead
<1>2. tasks \in [Workers -> Injection!Detection] /\ tasks[w].bot \in Names
  BY DEF Injection!UrlRead, Injection!TypeOK, Injection!Detection
<1>3. CASE ports = <<>>
  <2>1. tasks' = [tasks EXCEPT ![w] = Injection!NoTask] /\ good' = good
    BY <1>3 DEF Injection!UrlRead
  <2>2. Undisturbed(w)' /\ \A u \in Workers : u # w => tasks'[u] = tasks[u]
    BY <1>2, <2>1 DEF Undisturbed, Injection!NoTask
  <2> QED
    BY <1>1, <2>1, <2>2, BotParts
<1>4. CASE ports # <<>>
  <2> DEFINE new == [tasks[w] EXCEPT !.at = "get", !.port = Head(ports)]
  <2> DEFINE bots == {b \in Injection!Others(w) : conns[b].port = Head(ports)}
             others == Injection!OthersWith(w, Head(ports))
  <2>1. new.at = "get" /\ new.bot = tasks[w].bot /\ new.port = Head(ports)
    BY <1>2 DEF Injection!Detection
  <2>a. new \in Injection!Detection /\ Injection!Crossed(w, new, bots, others)
    BY <1>4, UrlOfFile
  <2> HIDE DEF new, bots, others
  <2>2. /\ good' \subseteq good /\ tasks'[w].at = "get" /\ tasks'[w].bot = tasks[w].bot /\ tasks'[w].port = Head(ports)
        /\ \A u \in Workers \ {w} :
             /\ tasks'[u].ok => tasks[u].ok
             /\ tasks'[u].at = tasks[u].at /\ tasks'[u].bot = tasks[u].bot /\ tasks'[u].port = tasks[u].port
             /\ tasks'[u].read = tasks[u].read /\ tasks'[u].conn = tasks[u].conn
    BY <2>a, <2>1, CrossedTasks
  <2>3. Head(ports) \in Injection!Range(file'[tasks[w].bot].ports)
    <3>1. ports \in Seq(1..MaxPort)
      BY <1>2 DEF Injection!TypeOK
    <3> QED
      BY <1>1, <1>4, <3>1, HeadInRange
  <2> HIDE DEF ports
  <2>4. \A u \in Workers : Undisturbed(u)'
    BY <1>1, <2>2, <2>3 DEF BotInv, Undisturbed
  <2> QED
    BY <1>1, <2>2, <2>4, BotParts
<1> QED
  BY <1>3, <1>4

\* NapCat writes its configuration, without clients.
LEMMA NapCatWritesReaches ==
  ASSUME Injection!TypeOK, BotInv, NEW b \in Names, Injection!NapCatWrites(b)
  PROVE  BotInv'
<1>1. \A c \in Names : file'[c].ports = file[c].ports
  BY DEF Injection!NapCatWrites, Injection!TypeOK
<1>2. UNCHANGED <<conns, good, mine, tasks>>
  BY DEF Injection!NapCatWrites
<1>3. Met'
  BY <1>1, <1>2 DEF BotInv, Met, Injection!MeetsBot, Injection!EndpointsKept, Injection!TypeOK
<1>4. ASSUME NEW t \in Workers PROVE Undisturbed(t)'
  <2>1. tasks[t].at \in {"mark", "get", "put", "write"} => tasks[t].bot \in Names
    BY DEF Injection!TypeOK, Injection!Detection
  <2> QED
    BY <1>1, <1>2, <2>1 DEF BotInv, Undisturbed
<1> QED
  BY <1>3, <1>4 DEF BotInv

\* Those that Disturbed spoils promise nothing, others are as they were.
LEMMA SpoiltPromisesNothing ==
  ASSUME Injection!TypeOK, BotInv, NEW b \in Names, Injection!Disturbed(b),
         \A c \in Names \ {b} : file'[c] = file[c] /\ conns'[c] = conns[c],
         mine' \in {mine, mine \ {b}}, b \in mine' => conns'[b] = conns[b]
  PROVE  BotInv'
<1>1. good' = good \ {b} /\ good \subseteq Names /\ mine \subseteq Names
  BY DEF Injection!Disturbed, Injection!TypeOK
<1>2. Met'
  BY <1>1 DEF BotInv, Met, Injection!MeetsBot, Injection!EndpointsKept
<1>3. ASSUME NEW t \in Workers PROVE Undisturbed(t)'
  <2>1. tasks[t] \in Injection!Detection
    BY DEF Injection!TypeOK
  <2>2. CASE tasks[t].bot = b
    <3>1. tasks'[t] = [tasks[t] EXCEPT !.ok = FALSE]
      BY <2>2 DEF Injection!Disturbed
    <3>2. /\ tasks'[t].ok = FALSE /\ tasks'[t].at = tasks[t].at /\ tasks'[t].bot = tasks[t].bot
          /\ tasks'[t].conn = tasks[t].conn
      BY <2>1, <3>1 DEF Injection!Detection
    <3> QED
      BY <3>2 DEF BotInv, Undisturbed
  <2>3. CASE tasks[t].bot # b
    <3>1. tasks'[t] = tasks[t]
      BY <2>3 DEF Injection!Disturbed
    <3>2. tasks[t].at # "idle" => tasks[t].bot \in Names \ {b}
      BY <2>1, <2>3 DEF Injection!TypeOK, Injection!Detection
    <3> QED
      BY <3>1, <3>2 DEF BotInv, Undisturbed
  <2> QED
    BY <2>2, <2>3
<1> QED
  BY <1>2, <1>3 DEF BotInv

\* Data of an instance is cleared.
LEMMA ClearDataReaches ==
  ASSUME Injection!TypeOK, BotInv, NEW b \in Names, NEW config \in BOOLEAN, NEW all \in BOOLEAN,
         Injection!ClearData(b, config, all)
  PROVE  BotInv'
<1>1. \A c \in Names \ {b} : file'[c] = file[c]
  BY DEF Injection!ClearData, Injection!TypeOK
<1>2. Injection!Disturbed(b) /\ UNCHANGED <<conns, mine>>
  BY DEF Injection!ClearData
<1> QED
  BY <1>1, <1>2, SpoiltPromisesNothing

\* The connection is deleted.
LEMMA BsCleanupReaches ==
  ASSUME Injection!TypeOK, BotInv, NEW b \in Names, Injection!BsCleanup(b)
  PROVE  BotInv'
<1>1. \A c \in Names \ {b} : conns'[c] = conns[c]
  BY DEF Injection!BsCleanup, Injection!TypeOK
<1>2. Injection!Disturbed(b) /\ UNCHANGED file /\ mine' = mine \ {b}
  BY DEF Injection!BsCleanup
<1> QED
  BY <1>1, <1>2, SpoiltPromisesNothing

\* A user adds an endpoint.
LEMMA UserAddsReaches ==
  ASSUME Injection!TypeOK, BotInv, NEW b \in Names, Injection!UserAdds(b)
  PROVE  BotInv'
<1>1. UNCHANGED <<file, tasks, good>>
  BY DEF Injection!UserAdds
<1>2. /\ \A c \in Names : conns'[c].port = conns[c].port /\ conns'[c].manager = conns[c].manager
      /\ \A c \in Names \ {b} : conns'[c].user = conns[c].user
      /\ conns'[b].user = TRUE
  BY DEF Injection!UserAdds, Injection!TypeOK, Injection!Conn
<1>3. mine' \subseteq mine \cup {b} /\ (b \in mine' \ mine => \A t \in Workers : tasks[t].at = "put" => tasks[t].bot # b)
  BY DEF Injection!UserAdds, Injection!Of
<1>4. Met'
  BY <1>1, <1>2, <1>3 DEF BotInv, Met, Injection!MeetsBot, Injection!EndpointsKept, Injection!TypeOK
<1>5. \A t \in Workers : Undisturbed(t)'
  BY <1>1, <1>3 DEF BotInv, Undisturbed
<1> QED
  BY <1>4, <1>5 DEF BotInv

\* The client is written.
LEMMA FileWrittenReaches ==
  ASSUME Injection!TypeOK, BotInv, NEW w \in Workers, Injection!FileWritten(w)
  PROVE  BotInv'
<1> DEFINE me == tasks[w]
           writes == me.port \notin Injection!Range(me.read)
           crossed == writes /\ file[me.bot].ports # me.read
<1>1. /\ me \in Injection!Detection /\ me.at = "write" /\ me.bot \in Names /\ me.read \in Seq(1..MaxPort)
      /\ \A t \in Workers : tasks[t] \in Injection!Detection
  BY DEF Injection!FileWritten, Injection!TypeOK, Injection!Detection
<1>2. /\ file' = IF writes
           THEN [file EXCEPT ![me.bot] = [there |-> TRUE, ports |-> Injection!Clients(me.read, me.port)]] ELSE file
      /\ good' = IF crossed THEN good \ {me.bot} ELSE good
      /\ UNCHANGED <<conns, mine>>
  BY DEF Injection!FileWritten
<1>3. \A t \in Workers :
        LET it == [tasks[t] EXCEPT !.ok = tasks[t].ok /\ ~(crossed /\ tasks[t].bot = me.bot)]
        IN  tasks'[t] = IF t = w THEN [it EXCEPT !.at = "mark", !.read = <<>>] ELSE it
  BY DEF Injection!FileWritten
<1>4. \A t \in Workers :
        /\ tasks'[t].ok <=> tasks[t].ok /\ ~(crossed /\ tasks[t].bot = me.bot)
        /\ tasks'[t].at = IF t = w THEN "mark" ELSE tasks[t].at
        /\ t # w => tasks'[t].read = tasks[t].read
        /\ tasks'[t].bot = tasks[t].bot /\ tasks'[t].port = tasks[t].port /\ tasks'[t].conn = tasks[t].conn
  <2> TAKE t \in Workers
  <2> DEFINE it == [tasks[t] EXCEPT !.ok = tasks[t].ok /\ ~(crossed /\ tasks[t].bot = me.bot)]
  <2>1. tasks[t] \in Injection!Detection /\ tasks'[t] = IF t = w THEN [it EXCEPT !.at = "mark", !.read = <<>>] ELSE it
    BY <1>1, <1>3
  <2>2. /\ it.ok <=> tasks[t].ok /\ ~(crossed /\ tasks[t].bot = me.bot)
        /\ it.at = tasks[t].at /\ it.read = tasks[t].read /\ it.bot = tasks[t].bot
        /\ it.port = tasks[t].port /\ it.conn = tasks[t].conn
        /\ DOMAIN it = DOMAIN tasks[t]
    <3> HIDE DEF me, writes, crossed
    <3> QED
      BY <2>1 DEF Injection!Detection
  <2>3. "at" \in DOMAIN it /\ "read" \in DOMAIN it
    BY <2>1, <2>2 DEF Injection!Detection
  <2> HIDE DEF it
  <2>4. t = w => /\ tasks'[t].ok = it.ok /\ tasks'[t].at = "mark"
                 /\ tasks'[t].bot = it.bot /\ tasks'[t].port = it.port /\ tasks'[t].conn = it.conn
    BY <2>1, <2>2, <2>3 DEF Injection!Detection
  <2> QED
    BY <2>1, <2>2, <2>4
<1>5. \A c \in Names \ {me.bot} : file'[c] = file[c]
  BY <1>2 DEF Injection!TypeOK
<1>6. ~crossed => Injection!Range(file[me.bot].ports) \subseteq Injection!Range(file'[me.bot].ports)
  <2>1. CASE writes /\ ~crossed
    <3>1. file'[me.bot].ports = Injection!Clients(me.read, me.port) /\ file[me.bot].ports = me.read
      BY <1>1, <1>2, <2>1 DEF Injection!TypeOK
    <3> QED
      BY <1>1, <3>1, ClientsRange
  <2>2. CASE ~writes
    BY <1>2, <2>2
  <2> QED
    BY <2>1, <2>2
<1>7. me.ok => me.port \in Injection!Range(file'[me.bot].ports)
  <2>1. CASE writes
    <3>1. file'[me.bot].ports = Injection!Clients(me.read, me.port)
      BY <1>1, <1>2, <2>1 DEF Injection!TypeOK
    <3> QED
      BY <1>1, <3>1, ClientsRange
  <2>2. CASE ~writes
    BY <1>1, <1>2, <2>2 DEF BotInv, Undisturbed
  <2> QED
    BY <2>1, <2>2
<1>8. \A c \in Names : (crossed => c # me.bot) => Injection!Range(file[c].ports) \subseteq Injection!Range(file'[c].ports)
  BY <1>5, <1>6
<1> HIDE DEF me, writes, crossed
<1>9. Met'
  BY <1>2, <1>8 DEF BotInv, Met, Injection!MeetsBot, Injection!EndpointsKept, Injection!TypeOK
<1>10. ASSUME NEW t \in Workers PROVE Undisturbed(t)'
  <2>1. tasks[t].at \in {"mark", "get", "put", "write"} => tasks[t].bot \in Names
    BY DEF Injection!TypeOK, Injection!Detection
  <2>2. CASE t = w
    BY <1>4, <1>7, <2>2 DEF me, Undisturbed
  <2>3. CASE t # w
    BY <1>2, <1>4, <1>8, <2>1, <2>3 DEF BotInv, Undisturbed
  <2> QED
    BY <2>2, <2>3
<1> QED
  BY <1>9, <1>10 DEF BotInv

\* The file cannot be written.
LEMMA FailsReaches ==
  ASSUME Injection!TypeOK, BotInv, NEW w \in Workers, Injection!Fails(w)
  PROVE  BotInv'
<1>1. UNCHANGED <<file, conns, mine>> /\ good' \subseteq good
  BY DEF Injection!Fails
<1>2. \A u \in Workers : u # w => tasks'[u] = tasks[u]
  BY DEF Injection!Fails, Injection!Moved, Injection!TypeOK
<1>3. /\ tasks'[w].at = "get" /\ tasks'[w].bot = tasks[w].bot /\ tasks'[w].port = tasks[w].port
      /\ tasks'[w].ok => tasks[w].ok /\ tasks[w].at = "mark"
  <2>1. tasks[w] \in Injection!Detection /\ tasks \in [Workers -> Injection!Detection]
    BY DEF Injection!TypeOK
  <2>2. CASE tasks[w].at = "mark"
    <3>1. tasks'[w] = [tasks[w] EXCEPT !.at = "get"]
      BY <2>1, <2>2 DEF Injection!Fails, Injection!Moved
    <3> QED
      BY <2>1, <2>2, <3>1 DEF Injection!Detection
  <2>3. CASE tasks[w].at # "mark"
    <3>1. tasks'[w] = [tasks[w] EXCEPT !.at = "get", !.read = <<>>, !.ok = FALSE]
      BY <2>1, <2>3 DEF Injection!Fails
    <3> QED
      BY <2>1, <3>1 DEF Injection!Detection
  <2> QED
    BY <2>2, <2>3
<1>4. Met'
  BY <1>1 DEF BotInv, Met, Injection!MeetsBot, Injection!EndpointsKept
<1>5. Undisturbed(w)'
  BY <1>1, <1>3 DEF BotInv, Undisturbed
<1> QED
  BY <1>1, <1>2, <1>4, <1>5 DEF BotInv, Undisturbed

\* BotShepherd is told.
LEMMA PutReaches ==
  ASSUME Injection!TypeOK, BotInv, NEW w \in Workers, Injection!Put(w)
  PROVE  BotInv'
<1> DEFINE me == tasks[w]
<1>1. me \in Injection!Detection /\ me.at = "put" /\ me.bot \in Names
  BY DEF Injection!Put, Injection!TypeOK, Injection!Detection
<1>2. /\ UNCHANGED <<file, mine>>
      /\ conns' = [conns EXCEPT ![me.bot] = [port |-> me.port, manager |-> TRUE, user |-> me.conn.user]]
      /\ good' = IF me.ok THEN good \cup {me.bot} ELSE good \ {me.bot}
      /\ tasks' = [tasks EXCEPT ![w] = Injection!NoTask]
  BY DEF Injection!Put, Injection!Merged
<1>3. /\ conns'[me.bot].port = me.port /\ conns'[me.bot].manager = TRUE /\ conns'[me.bot].user = me.conn.user
      /\ \A c \in Names \ {me.bot} : conns'[c] = conns[c]
  BY <1>1, <1>2 DEF Injection!TypeOK
<1>4. /\ me.ok => me.port \in Injection!Range(file[me.bot].ports)
      /\ me.bot \in mine => me.conn.user
  BY <1>1 DEF BotInv, Undisturbed
<1>5. Undisturbed(w)' /\ \A u \in Workers : u # w => tasks'[u] = tasks[u]
  BY <1>2 DEF Undisturbed, Injection!NoTask, Injection!TypeOK
<1>6. good \subseteq Names /\ mine \subseteq Names
  BY DEF Injection!TypeOK
<1> HIDE DEF me
<1>7. Met'
  BY <1>2, <1>3, <1>4, <1>6 DEF BotInv, Met, Injection!MeetsBot, Injection!EndpointsKept
<1> QED
  BY <1>2, <1>5, <1>7 DEF BotInv, Undisturbed

\* The manager restarts.
LEMMA RestartReaches == ASSUME Injection!TypeOK, BotInv, Injection!Restart PROVE BotInv'
  BY DEF Injection!Restart, Injection!NoTask, BotInv, Met, Injection!MeetsBot, Injection!EndpointsKept, Undisturbed

LEMMA BotNextKept == ASSUME Injection!TypeOK, BotInv, Injection!Next PROVE BotInv'
<1>1. CASE \E b \in Names : \/ Injection!Logout(b) \/ Injection!NapCatWrites(b) \/ Injection!BsCleanup(b)
                            \/ Injection!CleanupFails(b) \/ Injection!UserAdds(b)
  BY <1>1, LogoutReaches, NapCatWritesReaches, BsCleanupReaches, CleanupFailsReaches, UserAddsReaches
<1>2. CASE \E b \in Names, t \in Workers : Injection!Login(b, t)
  BY <1>2, LoginReaches
<1>3. CASE \E b \in Names, config, all \in BOOLEAN : Injection!ClearData(b, config, all)
  BY <1>3, ClearDataReaches
<1>4. CASE \E t \in Workers :
        \/ Injection!FileSeen(t) \/ Injection!MarkerSeen(t) \/ Injection!Unmarked(t) \/ Injection!UrlRead(t)
        \/ Injection!Allocated(t) \/ Injection!FileRead(t) \/ Injection!FileWritten(t) \/ Injection!Marked(t)
        \/ Injection!Fails(t) \/ Injection!Got(t) \/ Injection!Put(t) \/ Injection!SyncFails(t)
  BY <1>4, FileSeenReaches, MarkerSeenReaches, UnmarkedReaches, UrlReadReaches, AllocatedReaches, FileReadReaches,
     FileWrittenReaches, MarkedReaches, FailsReaches, GotReaches, PutReaches, SyncFailsReaches
<1>5. CASE Injection!Restart
  BY <1>5, RestartReaches
<1> QED
  BY <1>1, <1>2, <1>3, <1>4, <1>5 DEF Injection!Next

LEMMA BotRestKept == ASSUME BotInv, UNCHANGED injectionVars PROVE BotInv'
  BY DEF injectionVars, BotInv, Met, Injection!MeetsBot, Injection!EndpointsKept, Undisturbed

\* Of connections cs and detections ts, none is of another bot than b and has p.
NoOtherHas(cs, ts, b, p) ==
    /\ \A c \in Names \ {b} : cs[c].port # p
    /\ \A t \in Workers : ts[t].bot \in Names \ {b} => ts[t].port # p

Late == {"read", "write", "mark", "get", "put"}

\* Where no port was handed out from under BotShepherd, it is one bot's; a
\* detection has no port before it was given one.
ApartInv ==
    /\ \A b \in good : conns[b].port > 0 => NoOtherHas(conns, tasks, b, conns[b].port)
    /\ \A t \in Workers : tasks[t].ok /\ tasks[t].bot \in Names /\ tasks[t].port > 0 => NoOtherHas(conns, tasks, tasks[t].bot, tasks[t].port)
    /\ \A t \in Workers : tasks[t].at \notin Late => tasks[t].port = 0

LEMMA ApartInitial == ServicesInit => ApartInv
  BY ServicesAssumption DEF ServicesInit, Injection!Init, ApartInv, Injection!NoTask, Injection!NoConn

\* A step after which no detection and no connection has another port.
LEMMA PortsSame ==
  ASSUME Injection!TypeOK, ApartInv, good' \subseteq good,
         \A b \in Names : conns'[b].port \in {conns[b].port, 0},
         \A t \in Workers :
           \/ tasks'[t].port = 0
           \/ /\ tasks'[t].port = tasks[t].port /\ tasks'[t].bot = tasks[t].bot /\ (tasks'[t].ok => tasks[t].ok)
              /\ tasks'[t].at \in Late \/ tasks[t].at \notin Late
  PROVE  ApartInv'
<1>a. good \subseteq Names
  BY DEF Injection!TypeOK
<1>b. /\ \A b \in Names : conns[b].port \in Nat
      /\ \A t \in Workers : tasks[t].port \in Nat
  BY ServicesAssumption DEF Injection!TypeOK, Injection!Conn, Injection!Detection, Injection!InjectionAssumption
<1>2. ASSUME NEW b \in good', conns'[b].port > 0 PROVE NoOtherHas(conns', tasks', b, conns'[b].port)
  <2>1. b \in Names /\ conns'[b].port = conns[b].port /\ conns[b].port \in Nat \ {0}
    BY <1>2, <1>a, <1>b
  <2>2. NoOtherHas(conns, tasks, b, conns[b].port)
    BY <1>2, <2>1 DEF ApartInv
  <2>3. NoOtherHas(conns', tasks', b, conns[b].port)
    BY <2>1, <2>2 DEF NoOtherHas
  <2> QED
    BY <2>1, <2>3 DEF NoOtherHas
<1>3. ASSUME NEW t \in Workers, tasks'[t].ok, tasks'[t].bot \in Names, tasks'[t].port > 0
      PROVE  NoOtherHas(conns', tasks', tasks'[t].bot, tasks'[t].port)
  <2>1. tasks'[t].port = tasks[t].port /\ tasks'[t].bot = tasks[t].bot /\ tasks[t].ok /\ tasks[t].port \in Nat \ {0}
    BY <1>3, <1>b
  <2>2. NoOtherHas(conns, tasks, tasks[t].bot, tasks[t].port)
    BY <1>3, <2>1 DEF ApartInv
  <2> QED
    BY <1>3, <2>1, <2>2 DEF NoOtherHas
<1>4. ASSUME NEW t \in Workers, tasks'[t].at \notin Late PROVE tasks'[t].port = 0
  BY <1>4 DEF ApartInv
<1> QED
  BY <1>2, <1>3, <1>4 DEF ApartInv

\* A detection goes on with a port that others may have: they are disturbed, and
\* it with them.
LEMMA CrossedApart ==
  ASSUME Injection!TypeOK, ApartInv, NEW w \in Workers, NEW new \in Injection!Detection, NEW bots, NEW others,
         Injection!Crossed(w, new, bots, others), UNCHANGED conns,
         tasks[w].bot \in Names, new.bot = tasks[w].bot, new.port > 0, new.at \in Late,
         \A b \in Names : b # new.bot /\ conns[b].port = new.port => b \in bots,
         \A u \in Workers : tasks[u].bot \in Names \ {new.bot} /\ tasks[u].port = new.port => u \in others
  PROVE  ApartInv'
<1> DEFINE b0 == tasks[w].bot
           p == new.port
<1>1. /\ good' = good \ bots
      /\ tasks'[w].ok => bots = {} /\ others = {}
      /\ tasks'[w].at \in Late /\ tasks'[w].bot = b0 /\ tasks'[w].port = p
      /\ \A u \in Workers \ {w} :
           /\ tasks'[u].ok => tasks[u].ok /\ u \notin others
           /\ tasks'[u].at = tasks[u].at /\ tasks'[u].bot = tasks[u].bot /\ tasks'[u].port = tasks[u].port
  BY CrossedTasks
<1>2. /\ \A b \in Names : b # b0 /\ conns[b].port = p => b \in bots
      /\ \A u \in Workers : tasks[u].bot \in Names \ {b0} /\ tasks[u].port = p => u \in others
      /\ p > 0 /\ b0 \in Names /\ conns' = conns
  OBVIOUS
<1>3. good \subseteq Names
  BY DEF Injection!TypeOK
<1> HIDE DEF b0, p
<1>4. ASSUME NEW b \in good', conns'[b].port > 0 PROVE NoOtherHas(conns', tasks', b, conns'[b].port)
  <2>1. NoOtherHas(conns, tasks, b, conns[b].port) /\ b \in Names /\ b \notin bots
    BY <1>1, <1>2, <1>3, <1>4 DEF ApartInv
  <2>2. b # b0 => conns[b].port # p
    BY <1>2, <2>1
  <2> QED
    BY <1>1, <1>2, <2>1, <2>2 DEF NoOtherHas
<1>5. ASSUME NEW t \in Workers, tasks'[t].ok, tasks'[t].bot \in Names, tasks'[t].port > 0
      PROVE  NoOtherHas(conns', tasks', tasks'[t].bot, tasks'[t].port)
  <2>1. CASE t = w
    <3>1. bots = {} /\ others = {}
      BY <1>1, <1>5, <2>1
    <3>2. NoOtherHas(conns, tasks, b0, p)
      BY <1>2, <3>1 DEF NoOtherHas
    <3> QED
      BY <1>1, <1>2, <2>1, <3>2 DEF NoOtherHas
  <2>2. CASE t # w
    <3>1. tasks[t].ok /\ t \notin others /\ tasks'[t].bot = tasks[t].bot /\ tasks'[t].port = tasks[t].port
      BY <1>1, <1>5, <2>2
    <3>2. NoOtherHas(conns, tasks, tasks[t].bot, tasks[t].port)
      BY <1>5, <3>1 DEF ApartInv
    <3>3. tasks[t].bot # b0 => tasks[t].port # p
      BY <1>2, <1>5, <3>1
    <3> QED
      BY <1>1, <1>2, <3>1, <3>2, <3>3 DEF NoOtherHas
  <2> QED
    BY <2>1, <2>2
<1>6. ASSUME NEW t \in Workers, tasks'[t].at \notin Late PROVE tasks'[t].port = 0
  BY <1>1, <1>6 DEF ApartInv
<1> QED
  BY <1>4, <1>5, <1>6 DEF ApartInv

\* Everything but the two that give a port, and the one that passes it on.
LEMMA QuietApart ==
  ASSUME Injection!TypeOK, ApartInv, NEW w \in Workers,
         \/ Injection!FileSeen(w) \/ Injection!MarkerSeen(w) \/ Injection!Unmarked(w) \/ Injection!FileRead(w)
         \/ Injection!Marked(w) \/ Injection!Got(w) \/ Injection!SyncFails(w)
  PROVE  ApartInv'
<1>a. tasks \in [Workers -> Injection!Detection] /\ tasks[w] \in Injection!Detection
  BY DEF Injection!TypeOK
<1>1. UNCHANGED <<conns, good>>
  BY DEF Injection!FileSeen, Injection!MarkerSeen, Injection!Unmarked, Injection!FileRead, Injection!Marked,
         Injection!Got, Injection!SyncFails
<1>2. \A u \in Workers : u # w => tasks'[u] = tasks[u]
  BY <1>a DEF Injection!FileSeen, Injection!MarkerSeen, Injection!Unmarked, Injection!FileRead, Injection!Marked,
         Injection!Got, Injection!SyncFails, Injection!Moved
<1>3. \/ tasks'[w].port = 0
      \/ /\ tasks'[w].port = tasks[w].port /\ tasks'[w].bot = tasks[w].bot /\ tasks'[w].ok = tasks[w].ok
         /\ tasks'[w].at \in Late \/ tasks[w].at \notin Late
  <2>1. CASE Injection!FileSeen(w) \/ Injection!MarkerSeen(w) \/ Injection!Unmarked(w)
    <3>1. tasks[w].at \notin Late
      BY <2>1 DEF Injection!FileSeen, Injection!MarkerSeen, Injection!Unmarked, Late
    <3>2. tasks'[w].port = tasks[w].port
      BY <1>a, <2>1 DEF Injection!FileSeen, Injection!MarkerSeen, Injection!Unmarked, Injection!Moved, Injection!Detection
    <3> QED
      BY <3>1, <3>2 DEF ApartInv
  <2>2. CASE Injection!FileRead(w) \/ Injection!Marked(w) \/ Injection!Got(w)
    BY <1>a, <2>2 DEF Injection!FileRead, Injection!Marked, Injection!Got, Injection!Moved, Injection!Detection, Late
  <2>3. CASE Injection!SyncFails(w)
    BY <1>a, <2>3 DEF Injection!SyncFails, Injection!NoTask
  <2> QED
    BY <2>1, <2>2, <2>3
<1> QED
  BY <1>1, <1>2, <1>3, PortsSame

\* A detection begins.
LEMMA LoginApart ==
  ASSUME Injection!TypeOK, ApartInv, NEW b \in Names, NEW w \in Workers, Injection!Login(b, w)
  PROVE  ApartInv'
<1>1. UNCHANGED <<conns, good>> /\ tasks' = [tasks EXCEPT ![w] = [Injection!NoTask EXCEPT !.at = "file", !.bot = b, !.ok = TRUE]]
  BY DEF Injection!Login
<1>2. tasks'[w].port = 0 /\ \A u \in Workers : u # w => tasks'[u] = tasks[u]
  BY <1>1 DEF Injection!TypeOK, Injection!NoTask
<1> QED
  BY <1>1, <1>2, PortsSame

\* Nothing happens to detections.
LEMMA EventsApart ==
  ASSUME Injection!TypeOK, ApartInv, NEW b \in Names,
         Injection!Logout(b) \/ Injection!NapCatWrites(b) \/ Injection!CleanupFails(b) \/ Injection!UserAdds(b)
  PROVE  ApartInv'
<1>1. UNCHANGED <<tasks, good>>
  BY DEF Injection!Logout, Injection!NapCatWrites, Injection!CleanupFails, Injection!UserAdds
<1>2. \A c \in Names : conns'[c].port = conns[c].port
  <2>1. CASE UNCHANGED conns
    BY <2>1
  <2>2. CASE conns' = [conns EXCEPT ![b].user = TRUE]
    <3>1. conns \in [Names -> Injection!Conn]
      BY DEF Injection!TypeOK
    <3> QED
      BY <2>2, <3>1 DEF Injection!Conn
  <2>3. UNCHANGED conns \/ conns' = [conns EXCEPT ![b].user = TRUE]
    BY DEF Injection!Logout, Injection!NapCatWrites, Injection!CleanupFails, Injection!UserAdds
  <2> QED
    BY <2>1, <2>2, <2>3
<1> QED
  BY <1>1, <1>2, PortsSame

\* Data is cleared, or a connection deleted.
LEMMA SpoiltApart ==
  ASSUME Injection!TypeOK, ApartInv, NEW b \in Names, Injection!Disturbed(b),
         \A c \in Names : conns'[c].port \in {conns[c].port, 0}
  PROVE  ApartInv'
<1>1. good' \subseteq good
  BY DEF Injection!Disturbed
<1>2. ASSUME NEW t \in Workers
      PROVE  /\ tasks'[t].port = tasks[t].port /\ tasks'[t].bot = tasks[t].bot /\ (tasks'[t].ok => tasks[t].ok)
             /\ tasks'[t].at = tasks[t].at
  <2>1. tasks[t] \in Injection!Detection
    BY DEF Injection!TypeOK
  <2>2. tasks'[t] = IF tasks[t].bot = b THEN [tasks[t] EXCEPT !.ok = FALSE] ELSE tasks[t]
    BY DEF Injection!Disturbed
  <2> QED
    BY <2>1, <2>2 DEF Injection!Detection
<1> QED
  BY <1>1, <1>2, PortsSame

LEMMA ClearedApart ==
  ASSUME Injection!TypeOK, ApartInv, NEW b \in Names,
         Injection!BsCleanup(b) \/ \E config, all \in BOOLEAN : Injection!ClearData(b, config, all)
  PROVE  ApartInv'
<1>1. Injection!Disturbed(b)
  BY DEF Injection!BsCleanup, Injection!ClearData
<1>2. \A c \in Names : conns'[c].port \in {conns[c].port, 0}
  <2>1. CASE Injection!BsCleanup(b)
    <3>1. conns' = [conns EXCEPT ![b] = Injection!NoConn] /\ Injection!NoConn.port = 0
      BY <2>1 DEF Injection!BsCleanup, Injection!NoConn
    <3> QED
      BY <3>1 DEF Injection!TypeOK
  <2>2. CASE \E config, all \in BOOLEAN : Injection!ClearData(b, config, all)
    BY <2>2 DEF Injection!ClearData
  <2> QED
    BY <2>1, <2>2
<1> QED
  BY <1>1, <1>2, SpoiltApart

\* The client is written, or cannot be.
LEMMA WrittenApart ==
  ASSUME Injection!TypeOK, ApartInv, NEW w \in Workers, Injection!FileWritten(w) \/ Injection!Fails(w)
  PROVE  ApartInv'
<1>a. \A u \in Workers : tasks[u] \in Injection!Detection
  BY DEF Injection!TypeOK
<1>1. good' \subseteq good /\ UNCHANGED conns
  BY DEF Injection!FileWritten, Injection!Fails
<1>2. ASSUME NEW t \in Workers
      PROVE  /\ tasks'[t].port = tasks[t].port /\ tasks'[t].bot = tasks[t].bot /\ (tasks'[t].ok => tasks[t].ok)
             /\ tasks'[t].at \in Late \/ tasks'[t].at = tasks[t].at
  <2>1. CASE Injection!FileWritten(w)
    <3> DEFINE crossed == tasks[w].port \notin Injection!Range(tasks[w].read) /\ file[tasks[w].bot].ports # tasks[w].read
               it == [tasks[t] EXCEPT !.ok = tasks[t].ok /\ ~(crossed /\ tasks[t].bot = tasks[w].bot)]
    <3>1. tasks'[t] = IF t = w THEN [it EXCEPT !.at = "mark", !.read = <<>>] ELSE it
      BY <2>1 DEF Injection!FileWritten
    <3>2. /\ it.ok => tasks[t].ok
          /\ it.port = tasks[t].port /\ it.bot = tasks[t].bot /\ it.at = tasks[t].at
          /\ DOMAIN it = DOMAIN tasks[t]
      <4> HIDE DEF crossed
      <4> QED
        BY <1>a DEF Injection!Detection
    <3>3. "at" \in DOMAIN it
      BY <1>a, <3>2 DEF Injection!Detection
    <3> HIDE DEF it
    <3> QED
      BY <3>1, <3>2, <3>3 DEF Late
  <2>2. CASE Injection!Fails(w)
    <3>1. /\ \A u \in Workers : u # w => tasks'[u] = tasks[u]
          /\ \/ tasks'[w] = [tasks[w] EXCEPT !.at = "get"]
             \/ tasks'[w] = [tasks[w] EXCEPT !.at = "get", !.read = <<>>, !.ok = FALSE]
      BY <2>2 DEF Injection!Fails, Injection!Moved, Injection!TypeOK
    <3>2. CASE t = w /\ tasks'[w] = [tasks[w] EXCEPT !.at = "get"]
      BY <1>a, <3>2 DEF Injection!Detection, Late
    <3>3. CASE t = w /\ tasks'[w] = [tasks[w] EXCEPT !.at = "get", !.read = <<>>, !.ok = FALSE]
      BY <1>a, <3>3 DEF Injection!Detection, Late
    <3>4. CASE t # w
      BY <3>1, <3>4
    <3> QED
      BY <3>1, <3>2, <3>3, <3>4
  <2> QED
    BY <2>1, <2>2
<1>3. \A t \in Workers : tasks'[t].at \in Late \/ tasks[t].at \notin Late
  BY <1>2
<1> QED
  BY <1>1, <1>2, <1>3, PortsSame

\* The first client is read.
LEMMA UrlReadApart ==
  ASSUME Injection!TypeOK, ApartInv, NEW w \in Workers, Injection!UrlRead(w)
  PROVE  ApartInv'
<1> DEFINE ports == file[tasks[w].bot].ports
           p == Head(ports)
           new == [tasks[w] EXCEPT !.at = "get", !.port = p]
<1>a. UNCHANGED conns /\ tasks[w] \in Injection!Detection
  BY DEF Injection!UrlRead, Injection!TypeOK
<1>1. CASE ports = <<>>
  <2>1. tasks' = [tasks EXCEPT ![w] = Injection!NoTask] /\ good' = good
    BY <1>1 DEF Injection!UrlRead
  <2>2. tasks'[w].port = 0 /\ \A u \in Workers : u # w => tasks'[u] = tasks[u]
    BY <2>1 DEF Injection!TypeOK, Injection!NoTask
  <2> QED
    BY <1>a, <2>1, <2>2, PortsSame
<1>2. CASE ports # <<>>
  <2>1. /\ p \in 1..MaxPort /\ tasks[w].bot \in Names /\ new \in Injection!Detection
        /\ Injection!Crossed(w, new, {b \in Injection!Others(w) : conns[b].port = p}, Injection!OthersWith(w, p))
    BY <1>2, UrlOfFile
  <2>2. new.at \in Late /\ new.bot = tasks[w].bot /\ new.port = p
    BY <1>a DEF Injection!Detection, Late
  <2> HIDE DEF ports, p, new
  <2>3. /\ \A b \in Names : b # new.bot /\ conns[b].port = new.port => b \in {c \in Injection!Others(w) : conns[c].port = p}
        /\ \A u \in Workers : tasks[u].bot \in Names \ {new.bot} /\ tasks[u].port = new.port => u \in Injection!OthersWith(w, p)
    BY <2>2 DEF Injection!Others, Injection!OthersWith
  <2>4. new.port > 0
    BY <2>1, <2>2
  <2> QED
    BY <1>a, <2>1, <2>2, <2>3, <2>4, CrossedApart
<1> QED
  BY <1>1, <1>2

\* A port is allocated: those that the search shows, and those that are reserved,
\* are not.
LEMMA AllocatedApart ==
  ASSUME InjectionInv, ApartInv, NEW w \in Workers, Injection!Allocated(w)
  PROVE  ApartInv'
<1>a. Injection!TypeOK
  BY DEF InjectionInv
<1>1. PICK listens \in SUBSET Names, p \in 1..MaxPort :
        /\ p \notin reserved /\ \A b \in listens : conns[b].port # p
        /\ tasks[w] \in Injection!Detection /\ tasks[w].bot \in Names
        /\ [tasks[w] EXCEPT !.port = p, !.at = "read"] \in Injection!Detection
        /\ Injection!Crossed(w, [tasks[w] EXCEPT !.port = p, !.at = "read"],
                             {b \in Injection!Others(w) \ listens : conns[b].port = p},
                             {u \in Injection!OthersWith(w, p) : tasks[u].at \in {"get", "put"}})
        /\ UNCHANGED conns
  BY <1>a, PortOfAllocated
<1> DEFINE new == [tasks[w] EXCEPT !.port = p, !.at = "read"]
           bots == {b \in Injection!Others(w) \ listens : conns[b].port = p}
           others == {u \in Injection!OthersWith(w, p) : tasks[u].at \in {"get", "put"}}
<1>2. new.at \in Late /\ new.bot = tasks[w].bot /\ new.port = p
  BY <1>1 DEF Injection!Detection, Late
<1>3. \A b \in Names : b # tasks[w].bot /\ conns[b].port = p => b \in bots
  BY <1>1 DEF Injection!Others
<1>4. \A u \in Workers : tasks[u].bot \in Names \ {tasks[w].bot} /\ tasks[u].port = p => u \in others
  <2> TAKE u \in Workers
  <2>1. tasks[u].port = p => tasks[u].at \in Late
    BY <1>1 DEF ApartInv
  <2>2. tasks[u].port = p => ~Injection!Holding(u)
    BY <1>1, ReservedCovers DEF InjectionInv, Injection!ReservedExact, ReservedCovered
  <2>3. tasks[u].port = p => tasks[u].at \in {"get", "put"}
    BY <2>1, <2>2 DEF Late, Injection!Holding
  <2> QED
    BY <2>3 DEF Injection!Others, Injection!OthersWith
<1>5. new \in Injection!Detection /\ Injection!Crossed(w, new, bots, others) /\ p > 0
  BY <1>1
<1> HIDE DEF new, bots, others
<1> QED
  BY <1>a, <1>1, <1>2, <1>3, <1>4, <1>5, CrossedApart

\* BotShepherd is told.
LEMMA PutApart ==
  ASSUME Injection!TypeOK, ApartInv, NEW w \in Workers, Injection!Put(w)
  PROVE  ApartInv'
<1> DEFINE me == tasks[w]
<1>1. me \in Injection!Detection /\ me.bot \in Names /\ me.port \in Nat
  BY ServicesAssumption DEF Injection!Put, Injection!TypeOK, Injection!Detection, Injection!InjectionAssumption
<1>2. /\ conns' = [conns EXCEPT ![me.bot] = [port |-> me.port, manager |-> TRUE, user |-> me.conn.user]]
      /\ good' = IF me.ok THEN good \cup {me.bot} ELSE good \ {me.bot}
      /\ tasks' = [tasks EXCEPT ![w] = Injection!NoTask]
  BY DEF Injection!Put, Injection!Merged
<1>3. /\ conns'[me.bot].port = me.port /\ \A c \in Names \ {me.bot} : conns'[c] = conns[c]
      /\ tasks'[w].port = 0 /\ \A u \in Workers \ {w} : tasks'[u] = tasks[u]
  BY <1>1, <1>2 DEF Injection!TypeOK, Injection!NoTask
<1>4. good \subseteq Names
  BY DEF Injection!TypeOK
<1>m. me.ok /\ me.port > 0 => NoOtherHas(conns, tasks, me.bot, me.port)
  BY <1>1 DEF ApartInv
<1>n. w \in Workers /\ me = tasks[w]
  OBVIOUS
<1> HIDE DEF me
<1>5. ASSUME NEW b \in Names, NEW p \in Int, p > 0, NoOtherHas(conns, tasks, b, p)
      PROVE  /\ \A c \in Names \ {b} : conns'[c].port # p
             /\ \A t \in Workers : tasks'[t].bot \in Names \ {b} => tasks'[t].port # p
  <2>1. \A c \in Names \ {b} : conns'[c].port # p
    <3> TAKE c \in Names \ {b}
    <3>1. CASE c = me.bot
      BY <1>1, <1>3, <1>5, <1>n, <3>1 DEF NoOtherHas
    <3>2. CASE c # me.bot
      BY <1>3, <1>5, <3>2 DEF NoOtherHas
    <3> QED
      BY <3>1, <3>2
  <2>2. \A t \in Workers : tasks'[t].bot \in Names \ {b} => tasks'[t].port # p
    BY <1>3, <1>5, <1>n DEF NoOtherHas
  <2> QED
    BY <2>1, <2>2
<1>6. ASSUME NEW b \in good', conns'[b].port > 0 PROVE NoOtherHas(conns', tasks', b, conns'[b].port)
  <2>1. b \in Names
    BY <1>1, <1>2, <1>4, <1>6
  <2>2. CASE b = me.bot
    <3>1. me.ok
      BY <1>2, <1>6, <2>2
    <3>2. conns'[b].port = me.port
      BY <1>3, <2>2
    <3>3. NoOtherHas(conns, tasks, b, me.port) /\ me.port \in Int /\ me.port > 0
      BY <1>1, <1>6, <1>m, <2>2, <3>1, <3>2
    <3> QED
      BY <1>5, <2>1, <3>2, <3>3 DEF NoOtherHas
  <2>3. CASE b # me.bot
    <3>1. b \in good /\ conns'[b].port = conns[b].port
      BY <1>2, <1>3, <1>6, <2>1, <2>3
    <3>2. NoOtherHas(conns, tasks, b, conns[b].port) /\ conns[b].port \in Int
      BY <1>6, <2>1, <3>1 DEF ApartInv, Injection!TypeOK, Injection!Conn
    <3> QED
      BY <1>5, <1>6, <2>1, <3>1, <3>2 DEF NoOtherHas
  <2> QED
    BY <2>2, <2>3
<1>7. ASSUME NEW t \in Workers, tasks'[t].ok, tasks'[t].bot \in Names, tasks'[t].port > 0
      PROVE  NoOtherHas(conns', tasks', tasks'[t].bot, tasks'[t].port)
  <2>1. t # w /\ tasks'[t] = tasks[t]
    BY <1>3, <1>7
  <2>2. NoOtherHas(conns, tasks, tasks[t].bot, tasks[t].port) /\ tasks[t].port \in Int
    BY <1>7, <2>1 DEF ApartInv, Injection!TypeOK, Injection!Detection
  <2> QED
    BY <1>5, <1>7, <2>1, <2>2 DEF NoOtherHas
<1>8. ASSUME NEW t \in Workers, tasks'[t].at \notin Late PROVE tasks'[t].port = 0
  BY <1>3, <1>8 DEF ApartInv
<1> QED
  BY <1>6, <1>7, <1>8 DEF ApartInv

LEMMA ApartNextKept == ASSUME InjectionInv, ApartInv, Injection!Next PROVE ApartInv'
<1>a. Injection!TypeOK
  BY DEF InjectionInv
<1>1. CASE \E b \in Names : \/ Injection!Logout(b) \/ Injection!NapCatWrites(b) \/ Injection!BsCleanup(b)
                            \/ Injection!CleanupFails(b) \/ Injection!UserAdds(b)
  BY <1>a, <1>1, EventsApart, ClearedApart
<1>2. CASE \E b \in Names, t \in Workers : Injection!Login(b, t)
  BY <1>a, <1>2, LoginApart
<1>3. CASE \E b \in Names, config, all \in BOOLEAN : Injection!ClearData(b, config, all)
  BY <1>a, <1>3, ClearedApart
<1>4. CASE \E t \in Workers :
        \/ Injection!FileSeen(t) \/ Injection!MarkerSeen(t) \/ Injection!Unmarked(t) \/ Injection!UrlRead(t)
        \/ Injection!Allocated(t) \/ Injection!FileRead(t) \/ Injection!FileWritten(t) \/ Injection!Marked(t)
        \/ Injection!Fails(t) \/ Injection!Got(t) \/ Injection!Put(t) \/ Injection!SyncFails(t)
  BY <1>a, <1>4, QuietApart, UrlReadApart, AllocatedApart, WrittenApart, PutApart
<1>5. CASE Injection!Restart
  <2>1. UNCHANGED <<conns, good>> /\ \A t \in Workers : tasks'[t].port = 0
    BY <1>5 DEF Injection!Restart, Injection!NoTask
  <2> QED
    BY <1>a, <2>1, PortsSame
<1> QED
  BY <1>1, <1>2, <1>3, <1>4, <1>5 DEF Injection!Next

LEMMA ApartRestKept == ASSUME ApartInv, UNCHANGED injectionVars PROVE ApartInv'
  BY DEF injectionVars, ApartInv, NoOtherHas

\* A bot that BotShepherd meets has a port.
LEMMA MetApart == ASSUME Injection!TypeOK, BotInv, ApartInv PROVE ReachesBot
<1>1. \A b \in good : conns[b].port > 0
  <2> TAKE b \in good
  <2>1. b \in Names /\ conns[b].port \in Injection!Range(file[b].ports)
    BY DEF BotInv, Met, Injection!MeetsBot, Injection!TypeOK
  <2>2. file[b].ports \in Seq(1..MaxPort)
    BY <2>1 DEF Injection!TypeOK
  <2>3. PICK i \in DOMAIN file[b].ports : conns[b].port = file[b].ports[i]
    BY <2>1 DEF Injection!Range
  <2>4. file[b].ports[i] \in 1..MaxPort
    <3> DEFINE ports == file[b].ports
    <3>1. ports \in Seq(1..MaxPort) /\ i \in DOMAIN ports
      BY <2>2, <2>3
    <3> HIDE DEF ports
    <3>2. ports[i] \in 1..MaxPort
      BY <3>1, ServicesAssumption DEF Injection!InjectionAssumption
    <3> QED
      BY <3>2 DEF ports
  <2> QED
    BY <2>3, <2>4
<1>2. Injection!PortOfItsOwn
  BY <1>1 DEF ApartInv, NoOtherHas, Injection!PortOfItsOwn
<1> QED
  BY <1>2 DEF BotInv, Met, ReachesBot, Injection!ReachesBot

(* After a login that nothing disturbed, BotShepherd has, for the bot alone,  *)
(* a port that the bot connects to, and passes on to the manager, and         *)
(* endpoints of users are kept, for any number of bots, of detections that    *)
(* overlap, of failures and of restarts (_on_login_detected, allocate_port,   *)
(* _async_sync_bs_connection).                                                *)
THEOREM BotsReached == ServicesSpec => []ReachesBot
<1>1. ServicesInit => BotInv /\ ApartInv
  BY BotInitial, ApartInitial
<1>2. InjectionInv /\ BotInv /\ ApartInv /\ [ServicesNext]_servicesVars => BotInv' /\ ApartInv'
  BY BotNextKept, BotRestKept, ApartNextKept, ApartRestKept DEF ServicesNext, servicesVars, InjectionInv
<1>3. InjectionInv /\ BotInv /\ ApartInv => ReachesBot
  BY MetApart DEF InjectionInv
<1>4. ServicesSpec => [](Injection!TypeOK /\ Injection!ReservedExact)
  BY ReservationsExact
<1>5. Injection!TypeOK /\ Injection!ReservedExact => InjectionInv
  BY DEF InjectionInv
<1> QED
  BY <1>1, <1>2, <1>3, <1>4, <1>5, PTL DEF ServicesSpec

-----------------------------------------------------------------------------
(* The watchdog of BotShepherd *)

Starters == Workers \cup Loops

\* Nothing that runs starts BotShepherd, and nothing will unless it is asked to.
Settled == ~flag /\ ~Dog!StartUnderWay

\* A stop that nothing came between finds it so, and leaves it so.
StopsSettled == calm \/ (\E r \in Workers : asks[r].alone) => Settled

\* Who killed all that the search found, and nobody started one since, leaves no
\* other than those that it cannot find.
AloneFindsNone == \A a \in Starters : threads[a].alone => alive \subseteq hidden

\* What every step of the watchdog keeps.
DogInv ==
    /\ Dog!TypeOK /\ StopsSettled /\ AloneFindsNone
    /\ Dog!StaysStopped /\ Dog!OneProcess /\ Dog!FlagIsTask

\* The records of the threads.
Thread == [at : {"none", "check", "kill", "spawn", "done"}, ok : BOOLEAN, alone : BOOLEAN]

LEMMA DogRecords ==
  /\ Dog!NoStart \in Thread /\ Dog!NoStart.at = "none" /\ Dog!NoStart.alone = FALSE
  /\ Dog!NewStart \in Thread /\ Dog!NewStart.at = "check" /\ Dog!NewStart.alone = FALSE
  /\ Dog!Idle \in Dog!Request /\ Dog!Idle.at = "idle" /\ Dog!Idle.alone = FALSE
  BY DEF Dog!NoStart, Dog!NewStart, Dog!Idle, Dog!Request, Thread

LEMMA RequestMoved ==
  ASSUME NEW q \in Dog!Request, NEW x \in {"idle", "blocking", "ensuring", "waiting", "killing", "killed"}
  PROVE  [q EXCEPT !.at = x] \in Dog!Request /\ [q EXCEPT !.at = x].at = x /\ [q EXCEPT !.at = x].alone = q.alone
  BY DEF Dog!Request

LEMMA NotAloneTyped ==
  ASSUME Dog!TypeOK
  PROVE  /\ Dog!NotAlone \in [Workers -> Dog!Request]
         /\ \A r \in Workers : Dog!NotAlone[r].at = asks[r].at /\ Dog!NotAlone[r].alone = FALSE
<1>1. \A q \in Dog!Request : /\ [q EXCEPT !.alone = FALSE] \in Dog!Request
                              /\ [q EXCEPT !.alone = FALSE].at = q.at /\ [q EXCEPT !.alone = FALSE].alone = FALSE
  BY DEF Dog!Request
<1> QED
  BY <1>1 DEF Dog!TypeOK, Dog!NotAlone

LEMMA UnderWayOrNot == (~Dog!StartUnderWay) \in BOOLEAN
  OBVIOUS

LEMMA EntersTyped ==
  ASSUME Dog!TypeOK, NEW r \in Workers, NEW others \in [Workers -> Dog!Request], Dog!Enters(r, others)
  PROVE  /\ asks' = [others EXCEPT ![r] = asks'[r]] /\ asks' \in [Workers -> Dog!Request]
         /\ asks'[r].at \in {"idle", "ensuring"} /\ (asks'[r].alone => others[r].alone)
         /\ threads' = [threads EXCEPT ![r] = threads'[r]] /\ threads'[r] \in {Dog!NoStart, Dog!NewStart}
<1>1. [others[r] EXCEPT !.at = "ensuring"] \in Dog!Request
  BY RequestMoved
<1>2. asks' = [others EXCEPT ![r] = Dog!Idle] \/ asks' = [others EXCEPT ![r] = [others[r] EXCEPT !.at = "ensuring"]]
  BY DEF Dog!Enters
<1>3. asks' = [others EXCEPT ![r] = asks'[r]] /\ asks' \in [Workers -> Dog!Request]
  BY <1>1, <1>2, DogRecords
<1>4. asks'[r].at \in {"idle", "ensuring"} /\ (asks'[r].alone => others[r].alone)
  <2>1. CASE asks' = [others EXCEPT ![r] = Dog!Idle]
    BY <2>1, DogRecords
  <2>2. CASE asks' = [others EXCEPT ![r] = [others[r] EXCEPT !.at = "ensuring"]]
    <3>1. asks'[r] = [others[r] EXCEPT !.at = "ensuring"]
      BY <2>2
    <3>2. [others[r] EXCEPT !.at = "ensuring"].at = "ensuring"
          /\ [others[r] EXCEPT !.at = "ensuring"].alone = others[r].alone
      BY RequestMoved
    <3> QED
      BY <3>1, <3>2
  <2> QED
    BY <1>2, <2>1, <2>2
<1>5. threads' = [threads EXCEPT ![r] = threads'[r]] /\ threads'[r] \in {Dog!NoStart, Dog!NewStart}
  BY DEF Dog!Enters, Dog!TypeOK
<1> QED
  BY <1>3, <1>4, <1>5

LEMMA StopsTyped ==
  ASSUME Dog!TypeOK, NEW r \in Workers, NEW alone \in BOOLEAN, busy = Nobody, Dog!StopsService(r, alone)
  PROVE  /\ asks' = [asks EXCEPT ![r] = asks'[r]] /\ asks'[r] \in Dog!Request /\ calm' \in {calm, alone}
         /\ busy' \in {Nobody, r} /\ (asks'[r].at \in {"blocking", "killing", "killed"} <=> busy' = r)
         /\ (asks'[r].alone => alone) /\ (calm' # calm => ~Dog!Up)
<1>1. [at |-> "killing", service |-> TRUE, pid |-> current, alone |-> alone] \in Dog!Request
  BY DEF Dog!Request, Dog!TypeOK
<1>2. Nobody # r
  BY ServicesAssumption DEF Dog!WatchdogAssumption
<1>3. CASE Dog!Up
  <2>1. asks' = [asks EXCEPT ![r] = [at |-> "killing", service |-> TRUE, pid |-> current, alone |-> alone]]
        /\ busy' = r /\ UNCHANGED calm
    BY <1>3 DEF Dog!StopsService
  <2>2. asks'[r] = [at |-> "killing", service |-> TRUE, pid |-> current, alone |-> alone]
    BY <2>1 DEF Dog!TypeOK
  <2>3. asks'[r].at = "killing" /\ asks'[r].alone = alone
    BY <2>2
  <2>4. asks'[r] \in Dog!Request
    BY <1>1, <2>2
  <2> QED
    BY <1>2, <2>1, <2>3, <2>4
<1>4. CASE ~Dog!Up
  <2>1. asks' = [asks EXCEPT ![r] = Dog!Idle] /\ calm' = alone /\ UNCHANGED busy
    BY <1>4 DEF Dog!StopsService
  <2> QED
    BY <1>2, <1>4, <2>1, DogRecords DEF Dog!TypeOK
<1> QED
  BY <1>3, <1>4

LEMMA DogInitial == ServicesInit => DogInv
<1> SUFFICES ASSUME ServicesInit PROVE DogInv
  OBVIOUS
<1> USE DogRecords, ServicesAssumption DEF ServicesInit, Dog!Init, Dog!WatchdogAssumption
<1>1. Dog!TypeOK
  BY DEF Dog!TypeOK, Thread
<1>2. StopsSettled
  BY DEF StopsSettled, Settled, Dog!StartUnderWay
<1>3. AloneFindsNone
  BY DEF AloneFindsNone, Starters
<1> QED
  BY <1>1, <1>2, <1>3 DEF DogInv, Dog!StaysStopped, Dog!OneProcess, Dog!FlagIsTask, Dog!Up

\* The process was there, or BotShepherd is not, or there is more to do.
LEMMA CheckedKept ==
  ASSUME DogInv, NEW a \in Starters, NEW installed \in BOOLEAN, Dog!Checked(a, installed)
  PROVE  DogInv'
<1> USE ServicesAssumption DEF Dog!WatchdogAssumption, Dog!Checked, DogInv, Starters
<1>1. Dog!TypeOK'
  BY DEF Dog!TypeOK, Dog!Up
<1>2. StopsSettled'
  BY DEF Dog!TypeOK, StopsSettled, Settled, Dog!StartUnderWay
<1>3. AloneFindsNone'
  BY DEF Dog!TypeOK, AloneFindsNone
<1> QED
  BY <1>1, <1>2, <1>3 DEF Dog!StaysStopped, Dog!OneProcess, Dog!FlagIsTask, Dog!Up

LEMMA KillsKept ==
  ASSUME DogInv, NEW a \in Starters, NEW fails \in BOOLEAN, Dog!Kills(a, fails)
  PROVE  DogInv'
<1> USE ServicesAssumption DEF Dog!WatchdogAssumption, DogInv, Starters
<1>a. /\ threads[a].at = "kill" /\ threads' = [threads EXCEPT ![a].at = "spawn", ![a].alone = ~fails]
      /\ current' = IF current \in alive' THEN current ELSE Nobody
      /\ UNCHANGED <<hidden, flag, task, loops, asks, busy, calm, sole>>
  BY DEF Dog!Kills
<1>b. alive' \subseteq alive /\ hidden \subseteq alive' /\ (~fails => alive' = hidden)
  BY DEF Dog!Kills, Dog!Killed, Dog!TypeOK
<1>1. Dog!TypeOK'
  BY <1>a, <1>b DEF Dog!TypeOK
<1>2. StopsSettled'
  BY <1>a DEF Dog!TypeOK, StopsSettled, Settled, Dog!StartUnderWay
<1>3. AloneFindsNone'
  BY <1>a, <1>b DEF Dog!TypeOK, AloneFindsNone
<1>4. Dog!OneProcess'
  BY <1>a, <1>b DEF Dog!OneProcess
<1> QED
  BY <1>a, <1>1, <1>2, <1>3, <1>4 DEF Dog!StaysStopped, Dog!FlagIsTask, Dog!Up

LEMMA SpawnsKept ==
  ASSUME DogInv, NEW a \in Starters, NEW own \in BOOLEAN, Dog!Spawns(a, own)
  PROVE  DogInv'
<1> USE ServicesAssumption DEF Dog!WatchdogAssumption, Dog!Spawns, DogInv, Starters
<1>a. current' \in Pids /\ hidden' \in {hidden, hidden \cup {current'}}
  BY DEF Dog!FreePids
<1>b. \A b \in Starters :
        /\ threads'[b].at = IF b = a THEN "done" ELSE threads[b].at
        /\ threads'[b].alone = FALSE /\ threads'[b] \in Thread
  BY DEF Dog!TypeOK, Thread
<1>c. threads' \in [Starters -> Thread]
  BY <1>b DEF Dog!TypeOK
<1>1. Dog!TypeOK'
  BY <1>a, <1>c DEF Dog!TypeOK, Thread
<1>d. Dog!StartUnderWay
  BY DEF Dog!StartUnderWay
<1>2. StopsSettled'
  BY <1>d DEF StopsSettled, Settled
<1>3. AloneFindsNone'
  BY <1>b DEF AloneFindsNone
<1>4. Dog!StaysStopped'
  BY <1>d DEF StopsSettled, Settled, Dog!StaysStopped
<1>5. Dog!OneProcess'
  BY <1>a DEF AloneFindsNone, Dog!OneProcess
<1> QED
  BY <1>1, <1>2, <1>3, <1>4, <1>5 DEF Dog!FlagIsTask

LEMMA SpawnFailsKept ==
  ASSUME DogInv, NEW a \in Starters, Dog!SpawnFails(a)
  PROVE  DogInv'
<1> USE ServicesAssumption DEF Dog!WatchdogAssumption, Dog!SpawnFails, DogInv, Starters
<1>1. Dog!TypeOK'
  BY DEF Dog!TypeOK
<1>2. StopsSettled'
  BY DEF Dog!TypeOK, StopsSettled, Settled, Dog!StartUnderWay
<1>3. AloneFindsNone'
  BY DEF Dog!TypeOK, AloneFindsNone
<1> QED
  BY <1>1, <1>2, <1>3 DEF Dog!StaysStopped, Dog!OneProcess, Dog!FlagIsTask, Dog!Up

\* A start is asked for.
LEMMA StartServiceKept ==
  ASSUME DogInv, NEW r \in Workers, Dog!StartService(r)
  PROVE  DogInv'
<1> USE ServicesAssumption, DogRecords DEF Dog!WatchdogAssumption, Dog!StartService, Dog!Asked, Dog!NotAlone, DogInv, Starters
<1>a. /\ asks' \in [Workers -> Dog!Request] /\ \A s \in Workers : asks'[s].alone = FALSE
      /\ \A s \in Workers : asks'[s].at = IF s = r THEN "blocking" ELSE asks[s].at
  <2> HIDE DEF Dog!NotAlone
  <2>1. /\ Dog!NotAlone \in [Workers -> Dog!Request] /\ Dog!NotAlone[r].alone = FALSE
        /\ \A s \in Workers : Dog!NotAlone[s].at = asks[s].at /\ Dog!NotAlone[s].alone = FALSE
    BY NotAloneTyped
  <2>2. asks' = [Dog!NotAlone EXCEPT ![r] = [Dog!NotAlone[r] EXCEPT !.at = "blocking"]]
    BY <2>1
  <2>3. /\ [Dog!NotAlone[r] EXCEPT !.at = "blocking"] \in Dog!Request
        /\ [Dog!NotAlone[r] EXCEPT !.at = "blocking"].at = "blocking"
        /\ [Dog!NotAlone[r] EXCEPT !.at = "blocking"].alone = FALSE
    <3>1. Dog!NotAlone[r] \in Dog!Request
      BY <2>1
    <3> QED
      BY <2>1, <3>1, RequestMoved
  <2> QED
    BY <2>1, <2>2, <2>3
<1>1. Dog!TypeOK'
  <2>1. threads' \in [Starters -> Thread]
    BY DEF Dog!TypeOK, Thread
  <2>2. \A s \in Workers : asks'[s].at \in {"blocking", "killing", "killed"} <=> busy' = s
    BY <1>a DEF Dog!TypeOK
  <2> QED
    BY <1>a, <2>1, <2>2 DEF Dog!TypeOK, Thread
<1>2. StopsSettled'
  BY <1>a DEF StopsSettled
<1>3. AloneFindsNone'
  BY DEF Dog!TypeOK, AloneFindsNone
<1>4. Dog!StaysStopped'
  BY DEF Dog!TypeOK, StopsSettled, Settled, Dog!StartUnderWay, Dog!StaysStopped, Dog!Up
<1>5. Dog!OneProcess'
  BY DEF Dog!TypeOK, Dog!OneProcess
<1>6. Dog!FlagIsTask'
  BY DEF Dog!TypeOK, Dog!FlagIsTask
<1> QED
  BY <1>1, <1>2, <1>3, <1>4, <1>5, <1>6

\* The process runs, or not: the monitor is started.
LEMMA ServiceStartedKept ==
  ASSUME DogInv, NEW r \in Workers, Dog!ServiceStarted(r)
  PROVE  DogInv'
<1> USE ServicesAssumption, DogRecords DEF Dog!WatchdogAssumption, Dog!ServiceStarted, Dog!Enters, DogInv, Starters
<1>b. asks \in [Workers -> Dog!Request] /\ threads[r].at # "none" /\ Dog!StartUnderWay
  BY DEF Dog!TypeOK, Dog!StartUnderWay
<1>a. /\ asks' = [asks EXCEPT ![r] = asks'[r]] /\ asks' \in [Workers -> Dog!Request]
      /\ asks'[r].at \in {"idle", "ensuring"} /\ (asks'[r].alone => asks[r].alone)
      /\ threads' \in [Starters -> Thread]
  <2> HIDE DEF Dog!Enters
  <2>1. CASE Dog!Enters(r, asks)
    <3>1. /\ asks' = [asks EXCEPT ![r] = asks'[r]] /\ asks' \in [Workers -> Dog!Request]
          /\ asks'[r].at \in {"idle", "ensuring"} /\ (asks'[r].alone => asks[r].alone)
          /\ threads' = [threads EXCEPT ![r] = threads'[r]] /\ threads'[r] \in {Dog!NoStart, Dog!NewStart}
      BY <2>1, <1>b, EntersTyped
    <3>2. threads' \in [Starters -> Thread]
      BY <3>1 DEF Dog!TypeOK, Thread
    <3> QED
      BY <3>1, <3>2
  <2>2. CASE asks' = [asks EXCEPT ![r] = Dog!Idle] /\ threads' = [threads EXCEPT ![r] = Dog!NoStart]
    BY <2>2, <1>b DEF Dog!TypeOK, Thread
  <2> QED
    BY <2>1, <2>2
<1>1. Dog!TypeOK'
  <2>2. \A s \in Workers : asks'[s].at \in {"blocking", "killing", "killed"} <=> busy' = s
    BY <1>a, <1>b DEF Dog!TypeOK
  <2> QED
    BY <1>a, <2>2 DEF Dog!TypeOK, Thread
<1>2. StopsSettled'
  BY <1>a, <1>b DEF StopsSettled, Settled
<1>3. AloneFindsNone'
  BY DEF Dog!TypeOK, AloneFindsNone
<1>4. Dog!StaysStopped'
  BY DEF Dog!TypeOK, StopsSettled, Settled, Dog!StartUnderWay, Dog!StaysStopped, Dog!Up
<1>5. Dog!OneProcess'
  BY DEF Dog!TypeOK, Dog!OneProcess
<1>6. Dog!FlagIsTask'
  BY DEF Dog!TypeOK, Dog!FlagIsTask
<1> QED
  BY <1>1, <1>2, <1>3, <1>4, <1>5, <1>6

\* A start of the monitor is asked for.
LEMMA StartMonitorKept ==
  ASSUME DogInv, NEW r \in Workers, Dog!StartMonitor(r)
  PROVE  DogInv'
<1> USE ServicesAssumption, DogRecords DEF Dog!WatchdogAssumption, Dog!StartMonitor, Dog!Enters, Dog!Asked, Dog!NotAlone, DogInv, Starters
<1>a. /\ asks' \in [Workers -> Dog!Request] /\ \A s \in Workers : asks'[s].alone = FALSE
      /\ \A s \in Workers : s # r => asks'[s].at = asks[s].at
      /\ asks'[r].at \in {"idle", "ensuring"} /\ threads' \in [Starters -> Thread]
  <2>1. Dog!NotAlone \in [Workers -> Dog!Request] /\ Dog!Enters(r, Dog!NotAlone)
    BY NotAloneTyped
  <2> HIDE DEF Dog!Enters, Dog!NotAlone
  <2>2. \A s \in Workers : Dog!NotAlone[s].at = asks[s].at /\ Dog!NotAlone[s].alone = FALSE
    BY NotAloneTyped
  <2>3. /\ asks' = [Dog!NotAlone EXCEPT ![r] = asks'[r]] /\ asks' \in [Workers -> Dog!Request]
        /\ asks'[r].at \in {"idle", "ensuring"} /\ (asks'[r].alone => Dog!NotAlone[r].alone)
        /\ threads' = [threads EXCEPT ![r] = threads'[r]] /\ threads'[r] \in {Dog!NoStart, Dog!NewStart}
    BY <2>1, EntersTyped
  <2>4. \A s \in Workers : s # r => asks'[s] = Dog!NotAlone[s]
    BY <2>1, <2>3
  <2>5. asks'[r].alone \in BOOLEAN
    BY <2>3 DEF Dog!Request
  <2>6. \A s \in Workers : asks'[s].alone = FALSE
    BY <2>2, <2>3, <2>4, <2>5
  <2>7. threads' \in [Starters -> Thread]
    BY <2>3 DEF Dog!TypeOK, Thread
  <2> QED
    BY <2>2, <2>3, <2>4, <2>6, <2>7
<1>1. Dog!TypeOK'
  <2>2. \A s \in Workers : asks'[s].at \in {"blocking", "killing", "killed"} <=> busy' = s
    BY <1>a DEF Dog!TypeOK
  <2> QED
    BY <1>a, <2>2 DEF Dog!TypeOK, Thread
<1>2. StopsSettled'
  BY <1>a DEF StopsSettled
<1>3. AloneFindsNone'
  BY DEF Dog!TypeOK, AloneFindsNone
<1>4. Dog!StaysStopped'
  BY DEF Dog!TypeOK, StopsSettled, Settled, Dog!StartUnderWay, Dog!StaysStopped, Dog!Up
<1>5. Dog!OneProcess'
  BY DEF Dog!TypeOK, Dog!OneProcess
<1>6. Dog!FlagIsTask'
  BY DEF Dog!TypeOK, Dog!FlagIsTask
<1> QED
  BY <1>1, <1>2, <1>3, <1>4, <1>5, <1>6

\* Its loop begins.
LEMMA MonitorStartedKept ==
  ASSUME DogInv, NEW r \in Workers, Dog!MonitorStarted(r)
  PROVE  DogInv'
<1> USE ServicesAssumption, DogRecords DEF Dog!WatchdogAssumption, Dog!MonitorStarted, Dog!FreeLoops, DogInv, Starters
<1>1. Dog!TypeOK'
  BY DEF Dog!TypeOK, Dog!Request, Thread
<1>2. StopsSettled'
  BY DEF Dog!TypeOK, StopsSettled, Settled, Dog!StartUnderWay
<1>3. AloneFindsNone'
  BY DEF Dog!TypeOK, AloneFindsNone
<1>4. Dog!StaysStopped'
  BY DEF Dog!TypeOK, StopsSettled, Settled, Dog!StartUnderWay, Dog!StaysStopped, Dog!Up
<1>5. Dog!OneProcess'
  BY DEF Dog!TypeOK, Dog!OneProcess
<1>6. Dog!FlagIsTask'
  BY DEF Dog!TypeOK, Dog!FlagIsTask
<1> QED
  BY <1>1, <1>2, <1>3, <1>4, <1>5, <1>6

\* The loop looks at the process.
LEMMA WakesKept ==
  ASSUME DogInv, NEW l \in Loops, Dog!Wakes(l)
  PROVE  DogInv'
<1> USE ServicesAssumption, DogRecords DEF Dog!WatchdogAssumption, Dog!Wakes, Dog!Head, Dog!Up, DogInv, Starters
<1>1. Dog!TypeOK'
  BY DEF Dog!TypeOK, Dog!Request, Thread
<1>2. StopsSettled'
  BY DEF Dog!TypeOK, StopsSettled, Settled, Dog!StartUnderWay
<1>3. AloneFindsNone'
  BY DEF Dog!TypeOK, AloneFindsNone
<1>4. Dog!StaysStopped'
  BY DEF Dog!TypeOK, StopsSettled, Settled, Dog!StartUnderWay, Dog!StaysStopped, Dog!Up
<1>5. Dog!OneProcess'
  BY DEF Dog!TypeOK, Dog!OneProcess
<1>6. Dog!FlagIsTask'
  BY DEF Dog!TypeOK, Dog!FlagIsTask
<1> QED
  BY <1>1, <1>2, <1>3, <1>4, <1>5, <1>6

\* It starts it again.
LEMMA RetriesKept ==
  ASSUME DogInv, NEW l \in Loops, Dog!Retries(l)
  PROVE  DogInv'
<1> USE ServicesAssumption, DogRecords DEF Dog!WatchdogAssumption, Dog!Retries, Dog!Wanted, DogInv, Starters
<1>1. Dog!TypeOK'
  <2>1. threads' \in [Starters -> Thread]
    BY DEF Dog!TypeOK, Thread
  <2>2. loops' \in [Loops -> {"none", "sleep", "backoff", "starting"}]
    BY DEF Dog!TypeOK
  <2> QED
    BY <2>1, <2>2 DEF Dog!TypeOK, Thread
<1>2. StopsSettled'
  BY DEF Dog!TypeOK, StopsSettled, Settled, Dog!StartUnderWay
<1>3. AloneFindsNone'
  BY DEF Dog!TypeOK, AloneFindsNone
<1>4. Dog!StaysStopped'
  BY DEF Dog!TypeOK, StopsSettled, Settled, Dog!StartUnderWay, Dog!StaysStopped, Dog!Up
<1>5. Dog!OneProcess'
  BY DEF Dog!TypeOK, Dog!OneProcess
<1>6. Dog!FlagIsTask'
  BY DEF Dog!TypeOK, Dog!FlagIsTask
<1> QED
  BY <1>1, <1>2, <1>3, <1>4, <1>5, <1>6

\* The thread that it waited for is back.
LEMMA RestartedKept ==
  ASSUME DogInv, NEW l \in Loops, Dog!Restarted(l)
  PROVE  DogInv'
<1> USE ServicesAssumption, DogRecords DEF Dog!WatchdogAssumption, Dog!Restarted, Dog!Head, Dog!Up, DogInv, Starters
<1>1. Dog!TypeOK'
  BY DEF Dog!TypeOK, Dog!Request, Thread
<1>2. StopsSettled'
  BY DEF Dog!TypeOK, StopsSettled, Settled, Dog!StartUnderWay
<1>3. AloneFindsNone'
  BY DEF Dog!TypeOK, AloneFindsNone
<1>4. Dog!StaysStopped'
  BY DEF Dog!TypeOK, StopsSettled, Settled, Dog!StartUnderWay, Dog!StaysStopped, Dog!Up
<1>5. Dog!OneProcess'
  BY DEF Dog!TypeOK, Dog!OneProcess
<1>6. Dog!FlagIsTask'
  BY DEF Dog!TypeOK, Dog!FlagIsTask
<1> QED
  BY <1>1, <1>2, <1>3, <1>4, <1>5, <1>6

\* A thread ends that nobody waits for.
LEMMA AbandonedKept ==
  ASSUME DogInv, NEW l \in Loops, Dog!Abandoned(l)
  PROVE  DogInv'
<1> USE ServicesAssumption, DogRecords DEF Dog!WatchdogAssumption, Dog!Abandoned, DogInv, Starters
<1>1. Dog!TypeOK'
  BY DEF Dog!TypeOK, Dog!Request, Thread
<1>2. StopsSettled'
  BY DEF Dog!TypeOK, StopsSettled, Settled, Dog!StartUnderWay
<1>3. AloneFindsNone'
  BY DEF Dog!TypeOK, AloneFindsNone
<1>4. Dog!StaysStopped'
  BY DEF Dog!TypeOK, StopsSettled, Settled, Dog!StartUnderWay, Dog!StaysStopped, Dog!Up
<1>5. Dog!OneProcess'
  BY DEF Dog!TypeOK, Dog!OneProcess
<1>6. Dog!FlagIsTask'
  BY DEF Dog!TypeOK, Dog!FlagIsTask
<1> QED
  BY <1>1, <1>2, <1>3, <1>4, <1>5, <1>6

\* A stop is asked for.
LEMMA StopKept ==
  ASSUME DogInv, NEW r \in Workers, NEW service \in BOOLEAN, Dog!Stop(r, service)
  PROVE  DogInv'
<1> USE ServicesAssumption, DogRecords DEF Dog!WatchdogAssumption, Dog!Stop, Dog!StopsService, Dog!Up, DogInv, Starters
<1>a. Nobody # r /\ busy = Nobody
  OBVIOUS
<1>b. [Dog!Idle EXCEPT !.at = "waiting", !.service = service, !.alone = ~Dog!StartUnderWay] \in Dog!Request
  <2>1. \A x, y \in BOOLEAN : [Dog!Idle EXCEPT !.at = "waiting", !.service = x, !.alone = y] \in Dog!Request
    BY DEF Dog!Idle, Dog!Request
  <2>2. (~Dog!StartUnderWay) \in BOOLEAN
    BY UnderWayOrNot
  <2> QED
    BY <2>1, <2>2
<1>c. /\ [Dog!Idle EXCEPT !.at = "waiting", !.service = service, !.alone = ~Dog!StartUnderWay].at = "waiting"
      /\ [Dog!Idle EXCEPT !.at = "waiting", !.service = service, !.alone = ~Dog!StartUnderWay].alone = ~Dog!StartUnderWay
  BY DEF Dog!Idle
<1>1. Dog!TypeOK'
  <2> HIDE DEF Dog!StopsService
  <2>1. CASE service /\ ~flag
    <3>1. Dog!StopsService(r, ~Dog!StartUnderWay)
      BY <2>1
    <3>2. /\ asks' = [asks EXCEPT ![r] = asks'[r]] /\ asks'[r] \in Dog!Request /\ calm' \in {calm, ~Dog!StartUnderWay}
          /\ busy' \in {Nobody, r} /\ (asks'[r].at \in {"blocking", "killing", "killed"} <=> busy' = r)
      BY <3>1, <1>a, UnderWayOrNot, StopsTyped
    <3>3. calm' \in BOOLEAN
      BY <3>2, UnderWayOrNot DEF Dog!TypeOK
    <3> QED
      BY <2>1, <1>a, <3>2, <3>3 DEF Dog!TypeOK
  <2>2. CASE ~(service /\ ~flag)
    <3>1. asks' \in [Workers -> Dog!Request] /\ asks' = [asks EXCEPT ![r] = asks'[r]] /\ asks'[r].at \in {"idle", "waiting"}
      <4> DEFINE q == [Dog!Idle EXCEPT !.at = "waiting", !.service = service, !.alone = ~Dog!StartUnderWay]
      <4>1. asks' = [asks EXCEPT ![r] = IF task = Nobody THEN Dog!Idle ELSE q]
        BY <2>2
      <4>2. q \in Dog!Request /\ q.at = "waiting"
        BY <1>b, <1>c
      <4> HIDE DEF q
      <4> QED
        BY <4>1, <4>2 DEF Dog!TypeOK
    <3>2. loops' \in [Loops -> {"none", "sleep", "backoff", "starting"}]
      BY <2>2 DEF Dog!TypeOK
    <3> QED
      BY <2>2, <1>a, <3>1, <3>2 DEF Dog!TypeOK
  <2> QED
    BY <2>1, <2>2
<1>2. StopsSettled'
  <2> HIDE DEF Dog!StopsService
  <2>1. CASE service /\ ~flag
    <3>1. /\ \A s \in Workers : s # r => asks'[s].alone = asks[s].alone
          /\ asks'[r].alone => ~Dog!StartUnderWay
          /\ calm' => calm \/ ~Dog!StartUnderWay
      BY <2>1, <1>a, StopsTyped DEF Dog!TypeOK
    <3>2. Settled' <=> ~Dog!StartUnderWay
      BY <2>1 DEF Settled, Dog!StartUnderWay
    <3> QED
      BY <3>1, <3>2 DEF StopsSettled, Settled
  <2>2. CASE ~(service /\ ~flag)
    <3>1. /\ \A s \in Workers : s # r => asks'[s].alone = asks[s].alone
          /\ asks'[r].alone => ~Dog!StartUnderWay
          /\ calm' = calm
      BY <2>2, <1>c DEF Dog!TypeOK
    <3>2. Settled' <=> ~Dog!StartUnderWay
      BY <2>2 DEF Settled, Dog!StartUnderWay
    <3> QED
      BY <3>1, <3>2 DEF StopsSettled, Settled
  <2> QED
    BY <2>1, <2>2
<1>3. AloneFindsNone'
  BY DEF Dog!TypeOK, AloneFindsNone
<1>4. Dog!StaysStopped'
  BY DEF Dog!TypeOK, StopsSettled, Settled, Dog!StartUnderWay, Dog!StaysStopped, Dog!Up
<1>5. Dog!OneProcess'
  BY DEF Dog!TypeOK, Dog!OneProcess
<1>6. Dog!FlagIsTask'
  BY DEF Dog!TypeOK, Dog!FlagIsTask
<1> QED
  BY <1>1, <1>2, <1>3, <1>4, <1>5, <1>6

\* The loop has ended.
LEMMA MonitorStoppedKept ==
  ASSUME DogInv, NEW r \in Workers, Dog!MonitorStopped(r)
  PROVE  DogInv'
<1> USE ServicesAssumption, DogRecords DEF Dog!WatchdogAssumption, Dog!MonitorStopped, Dog!StopsService, Dog!Up, DogInv, Starters
<1>a. asks[r].service \in BOOLEAN /\ asks[r].alone \in BOOLEAN /\ Nobody # r
  BY DEF Dog!TypeOK, Dog!Request
<1>1. Dog!TypeOK'
  <2> HIDE DEF Dog!StopsService
  <2>1. CASE asks[r].service /\ Dog!StopsService(r, asks[r].alone)
    <3>1. /\ asks' = [asks EXCEPT ![r] = asks'[r]] /\ asks'[r] \in Dog!Request /\ calm' \in {calm, asks[r].alone}
          /\ busy' \in {Nobody, r} /\ (asks'[r].at \in {"blocking", "killing", "killed"} <=> busy' = r)
      BY <2>1, <1>a, StopsTyped
    <3>2. UNCHANGED <<alive, hidden, current, flag, task, loops, threads, sole>> /\ busy = Nobody
      OBVIOUS
    <3> HIDE DEF Dog!MonitorStopped
    <3>3. asks' \in [Workers -> Dog!Request] /\ calm' \in BOOLEAN /\ busy' \in Workers \cup {Nobody}
      BY <3>1, <1>a DEF Dog!TypeOK
    <3>4. \A w \in Workers : asks'[w].at \in {"blocking", "killing", "killed"} <=> busy' = w
      BY <3>1, <3>2, <1>a DEF Dog!TypeOK
    <3> QED
      BY <3>2, <3>3, <3>4 DEF Dog!TypeOK
  <2>2. CASE asks' = [asks EXCEPT ![r] = Dog!Idle] /\ UNCHANGED <<busy, calm>>
    BY <2>2, <1>a DEF Dog!TypeOK
  <2> QED
    BY <2>1, <2>2
<1>2. StopsSettled'
  BY DEF Dog!TypeOK, StopsSettled, Settled, Dog!StartUnderWay
<1>3. AloneFindsNone'
  BY DEF Dog!TypeOK, AloneFindsNone
<1>4. Dog!StaysStopped'
  BY DEF Dog!TypeOK, StopsSettled, Settled, Dog!StartUnderWay, Dog!StaysStopped, Dog!Up
<1>5. Dog!OneProcess'
  BY DEF Dog!TypeOK, Dog!OneProcess
<1>6. Dog!FlagIsTask'
  BY DEF Dog!TypeOK, Dog!FlagIsTask
<1> QED
  BY <1>1, <1>2, <1>3, <1>4, <1>5, <1>6

\* The process has ended.
LEMMA TerminatedKept ==
  ASSUME DogInv, NEW r \in Workers, Dog!Terminated(r)
  PROVE  DogInv'
<1> USE ServicesAssumption, DogRecords DEF Dog!WatchdogAssumption, Dog!Terminated, Dog!Ends, DogInv, Starters
<1>a. [asks[r] EXCEPT !.at = "killed"] \in Dog!Request /\ [asks[r] EXCEPT !.at = "killed"].at = "killed"
  BY RequestMoved DEF Dog!TypeOK
<1>1. Dog!TypeOK'
  BY <1>a DEF Dog!TypeOK
<1>2. StopsSettled'
  BY DEF Dog!TypeOK, StopsSettled, Settled, Dog!StartUnderWay
<1>3. AloneFindsNone'
  BY DEF Dog!TypeOK, AloneFindsNone
<1>4. Dog!StaysStopped'
  BY DEF Dog!TypeOK, StopsSettled, Settled, Dog!StartUnderWay, Dog!StaysStopped, Dog!Up
<1>5. Dog!OneProcess'
  BY DEF Dog!TypeOK, Dog!OneProcess
<1>6. Dog!FlagIsTask'
  BY DEF Dog!TypeOK, Dog!FlagIsTask
<1> QED
  BY <1>1, <1>2, <1>3, <1>4, <1>5, <1>6

\* The stop is done.
LEMMA ServiceStoppedKept ==
  ASSUME DogInv, NEW r \in Workers, Dog!ServiceStopped(r)
  PROVE  DogInv'
<1> USE ServicesAssumption, DogRecords DEF Dog!WatchdogAssumption, Dog!ServiceStopped, DogInv, Starters
<1>1. Dog!TypeOK'
  BY DEF Dog!TypeOK, Dog!Request, Thread
<1>2. StopsSettled'
  BY DEF Dog!TypeOK, StopsSettled, Settled, Dog!StartUnderWay
<1>3. AloneFindsNone'
  BY DEF Dog!TypeOK, AloneFindsNone
<1>4. Dog!StaysStopped'
  BY DEF Dog!TypeOK, StopsSettled, Settled, Dog!StartUnderWay, Dog!StaysStopped, Dog!Up
<1>5. Dog!OneProcess'
  BY DEF Dog!TypeOK, Dog!OneProcess
<1>6. Dog!FlagIsTask'
  BY DEF Dog!TypeOK, Dog!FlagIsTask
<1> QED
  BY <1>1, <1>2, <1>3, <1>4, <1>5, <1>6

\* A process dies.
LEMMA DiesKept ==
  ASSUME DogInv, NEW p \in Pids, Dog!Dies(p)
  PROVE  DogInv'
<1> USE ServicesAssumption, DogRecords DEF Dog!WatchdogAssumption, Dog!Dies, Dog!Ends, DogInv, Starters
<1>1. Dog!TypeOK'
  BY DEF Dog!TypeOK, Dog!Request, Thread
<1>2. StopsSettled'
  BY DEF Dog!TypeOK, StopsSettled, Settled, Dog!StartUnderWay
<1>3. AloneFindsNone'
  BY DEF Dog!TypeOK, AloneFindsNone
<1>4. Dog!StaysStopped'
  BY DEF Dog!TypeOK, StopsSettled, Settled, Dog!StartUnderWay, Dog!StaysStopped, Dog!Up
<1>5. Dog!OneProcess'
  BY DEF Dog!TypeOK, Dog!OneProcess
<1>6. Dog!FlagIsTask'
  BY DEF Dog!TypeOK, Dog!FlagIsTask
<1> QED
  BY <1>1, <1>2, <1>3, <1>4, <1>5, <1>6

\* The manager restarts.
LEMMA DogRestartKept ==
  ASSUME DogInv, NEW inOrder \in BOOLEAN, Dog!Restart(inOrder)
  PROVE  DogInv'
<1> USE ServicesAssumption, DogRecords DEF Dog!WatchdogAssumption, Dog!Restart, DogInv, Starters
<1>1. Dog!TypeOK'
  BY DEF Dog!TypeOK, Dog!Request, Thread
<1>2. StopsSettled'
  BY DEF Dog!TypeOK, StopsSettled, Settled, Dog!StartUnderWay
<1>3. AloneFindsNone'
  BY DEF Dog!TypeOK, AloneFindsNone
<1>4. Dog!StaysStopped'
  BY DEF Dog!TypeOK, StopsSettled, Settled, Dog!StartUnderWay, Dog!StaysStopped, Dog!Up
<1>5. Dog!OneProcess'
  BY DEF Dog!TypeOK, Dog!OneProcess
<1>6. Dog!FlagIsTask'
  BY DEF Dog!TypeOK, Dog!FlagIsTask
<1> QED
  BY <1>1, <1>2, <1>3, <1>4, <1>5, <1>6

LEMMA DogNextKept == ASSUME DogInv, Dog!Next PROVE DogInv'
<1>1. CASE \E a \in Starters : Dog!Threads(a)
  BY <1>1, CheckedKept, KillsKept, SpawnsKept, SpawnFailsKept DEF Dog!Threads
<1>2. CASE \E r \in Workers :
        \/ Dog!StartService(r) \/ Dog!ServiceStarted(r) \/ Dog!StartMonitor(r) \/ Dog!MonitorStarted(r)
        \/ Dog!MonitorStopped(r) \/ Dog!Terminated(r) \/ Dog!ServiceStopped(r)
  BY <1>2, StartServiceKept, ServiceStartedKept, StartMonitorKept, MonitorStartedKept, MonitorStoppedKept,
     TerminatedKept, ServiceStoppedKept
<1>3. CASE \E r \in Workers, service \in BOOLEAN : Dog!Stop(r, service)
  BY <1>3, StopKept
<1>4. CASE \E l \in Loops : Dog!Tick(l) \/ Dog!Abandoned(l)
  BY <1>4, WakesKept, RetriesKept, RestartedKept, AbandonedKept DEF Dog!Tick
<1>5. CASE \E p \in Pids : Dog!Dies(p)
  BY <1>5, DiesKept
<1>6. CASE \E inOrder \in BOOLEAN : Dog!Restart(inOrder)
  BY <1>6, DogRestartKept
<1> QED
  BY <1>1, <1>2, <1>3, <1>4, <1>5, <1>6 DEF Dog!Next, Starters

LEMMA DogRestKept == ASSUME DogInv, UNCHANGED dogVars PROVE DogInv'
  BY DEF dogVars, DogInv, Dog!TypeOK, StopsSettled, Settled, Dog!StartUnderWay, AloneFindsNone,
     Dog!StaysStopped, Dog!OneProcess, Dog!FlagIsTask, Dog!Up

(* BotShepherd stays down once it was stopped, has one process of those that *)
(* a search of command lines finds after a start whose search did not fail   *)
(* and that no other got in the way of, and is monitored exactly when the    *)
(* monitor says so, for any number of requests, loops and processes: start   *)
(* and stop of botshepherd.py and of bs_activation_service.py, whose threads *)
(* go on when their tasks do not.                                            *)
THEOREM ShepherdAlwaysKept == ServicesSpec => [](Dog!TypeOK /\ ShepherdKept)
<1>1. ServicesInit => DogInv
  BY DogInitial
<1>2. DogInv /\ [ServicesNext]_servicesVars => DogInv'
  BY DogNextKept, DogRestKept DEF ServicesNext, servicesVars
<1>3. DogInv => Dog!TypeOK /\ ShepherdKept
  BY DEF DogInv, ShepherdKept
<1> QED
  BY <1>1, <1>2, <1>3, PTL DEF ServicesSpec

-----------------------------------------------------------------------------
(* The feed: types *)

\* Snapshots, and what is sent of them.
Values   == {"running", "exited"} \cup QrStates
Maps     == UNION {[D -> Values] : D \in SUBSET Names}
Shown    == [containers : Maps, qr : Maps]
Diffs    == [changed : Maps, removed : SUBSET Names]
Messages == [type : {"full"}, data : Shown] \cup [type : {"patch"}, containers : Diffs, qr : Diffs]

\* What a session sends is what has changed since it sent last, or all of it.
SendsCurr ==
    pc = "sending" =>
        out = <<IF first THEN [type |-> "full", data |-> curr]
                ELSE [type |-> "patch", containers |-> Diff(prev.containers, curr.containers),
                      qr |-> Diff(prev.qr, curr.qr)]>>

FeedTyped ==
    /\ table \in Seq(Instance)
    /\ \A i, j \in DOMAIN table : table[i].name = table[j].name => i = j
    /\ pc \in {"build", "sending", "waiting", "beating", "closed"}
    /\ page \in Pages /\ first \in BOOLEAN
    /\ {prev, curr, view} \subseteq Shown
    /\ out \in Seq(Messages) /\ Len(out) <= 1
    /\ chan \in Seq(Messages) /\ Len(chan) <= MaxChan
    /\ SendsCurr

LEMMA MapIs == ASSUME NEW f \in Maps PROVE DOMAIN f \in SUBSET Names /\ f \in [DOMAIN f -> Values]
  BY DEF Maps

LEMMA IsMap == ASSUME NEW D \in SUBSET Names, NEW f \in [D -> Values] PROVE f \in Maps
  BY DEF Maps

LEMMA MapsEqual ==
  ASSUME NEW f \in Maps, NEW g \in Maps, DOMAIN f = DOMAIN g, \A n \in DOMAIN f : f[n] = g[n]
  PROVE  f = g
<1>1. f \in [DOMAIN f -> Values] /\ g \in [DOMAIN f -> Values]
  BY MapIs
<1> QED
  BY <1>1

LEMMA BlankTyped == Blank \in Shown
<1>1. Empty \in [{} -> Values]
  BY DEF Empty
<1>2. Empty \in Maps
  BY <1>1, IsMap
<1> QED
  BY <1>2 DEF Blank, Shown

LEMMA DiffTyped == ASSUME NEW p \in Maps, NEW c \in Maps PROVE Diff(p, c) \in Diffs
<1> DEFINE D == {m \in DOMAIN c : m \notin DOMAIN p \/ p[m] # c[m]}
<1>1. DOMAIN p \in SUBSET Names /\ DOMAIN c \in SUBSET Names /\ \A n \in DOMAIN c : c[n] \in Values
  BY MapIs
<1>2. D \in SUBSET Names /\ [n \in D |-> c[n]] \in [D -> Values]
  BY <1>1
<1>3. [n \in D |-> c[n]] \in Maps
  BY <1>2, IsMap
<1> QED
  BY <1>1, <1>3 DEF Diff, Diffs

LEMMA PatchedTyped == ASSUME NEW f \in Maps, NEW d \in Diffs PROVE Patched(f, d) \in Maps
<1> DEFINE D == (DOMAIN f \ d.removed) \cup DOMAIN d.changed
<1>1. /\ DOMAIN f \in SUBSET Names /\ \A n \in DOMAIN f : f[n] \in Values
      /\ DOMAIN d.changed \in SUBSET Names /\ \A n \in DOMAIN d.changed : d.changed[n] \in Values
  BY MapIs DEF Diffs
<1>2. D \in SUBSET Names /\ Patched(f, d) \in [D -> Values]
  BY <1>1 DEF Patched
<1> QED
  BY <1>2, IsMap

\* A patch of what a client shows gives what it is to show.
LEMMA PatchedByDiff == ASSUME NEW p \in Maps, NEW c \in Maps PROVE Patched(p, Diff(p, c)) = c
<1> DEFINE d == Diff(p, c)
<1>1. d.removed = DOMAIN p \ DOMAIN c
  BY DEF Diff
<1>2. DOMAIN d.changed = {m \in DOMAIN c : m \notin DOMAIN p \/ p[m] # c[m]}
      /\ \A n \in DOMAIN d.changed : d.changed[n] = c[n]
  BY DEF Diff
<1> HIDE DEF d
<1>3. DOMAIN Patched(p, d) = DOMAIN c
  BY <1>1, <1>2 DEF Patched
<1>4. \A n \in DOMAIN c : Patched(p, d)[n] = c[n]
  BY <1>1, <1>2 DEF Patched
<1>5. Patched(p, d) \in Maps
  BY DiffTyped, PatchedTyped DEF d
<1> QED
  BY <1>3, <1>4, <1>5, MapsEqual DEF d

\* Without a difference there is none.
LEMMA TrivialIsEqual == ASSUME NEW p \in Maps, NEW c \in Maps, Trivial(Diff(p, c)) PROVE p = c
<1>1. DOMAIN p \subseteq DOMAIN c /\ \A m \in DOMAIN c : m \in DOMAIN p /\ p[m] = c[m]
  BY DEF Trivial, Diff
<1> QED
  BY <1>1, MapsEqual

LEMMA ReceivedTyped == ASSUME NEW v \in Shown, NEW m \in Messages PROVE Received(v, m) \in Shown
<1>1. CASE m \in [type : {"full"}, data : Shown]
  BY <1>1 DEF Received
<1>2. CASE m \in [type : {"patch"}, containers : Diffs, qr : Diffs]
  BY <1>2, PatchedTyped DEF Received, Shown
<1> QED
  BY <1>1, <1>2 DEF Messages

LEMMA EntryIs ==
  ASSUME NEW S \in SUBSET Instance, NEW n \in NamesOf(S)
  PROVE  Entry(S, n) \in S
  BY DEF Entry, NamesOf

LEMMA SnapshotTyped == ASSUME NEW t \in Seq(Instance), NEW k \in Pages PROVE Snapshot(t, k) \in Shown
<1> DEFINE shown == IF k = 0 THEN Elems(t) ELSE PageOf(t, k)
           qrOf  == IF k = 0 THEN {x \in shown : x.status = "running"} ELSE shown
           cs    == [n \in NamesOf(shown) |-> Entry(shown, n).status]
           qs    == [n \in NamesOf(qrOf) |-> Entry(qrOf, n).qr]
<1>1. shown \in SUBSET Instance /\ qrOf \in SUBSET Instance
  BY DEF Elems, PageOf
<1>2. Snapshot(t, k) = [containers |-> cs, qr |-> qs]
  BY DEF Snapshot
<1> HIDE DEF shown, qrOf
<1>3. NamesOf(shown) \in SUBSET Names /\ NamesOf(qrOf) \in SUBSET Names
  BY <1>1 DEF NamesOf, Instance
<1>4. cs \in [NamesOf(shown) -> Values]
  BY <1>1, EntryIs DEF Instance, Values
<1>5. qs \in [NamesOf(qrOf) -> Values]
  BY <1>1, EntryIs DEF Instance, Values
<1>6. cs \in Maps /\ qs \in Maps
  BY <1>3, <1>4, <1>5, IsMap
<1> QED
  BY <1>2, <1>6 DEF Shown

-----------------------------------------------------------------------------
(* The feed: what a client shows once it has received what is in flight *)

\* f is what it shows that showed v, message by message.
Chain(f, v, ms, n) == f = [i \in 0..n |-> IF i = 0 THEN v ELSE Received(f[i - 1], ms[i])]

\* From v, ms lead to w.
Leads(v, ms, w) == \E f : Chain(f, v, ms, Len(ms)) /\ f[Len(ms)] = w

LEMMA ChainExists == ASSUME NEW v, NEW ms, NEW n \in Nat PROVE \E f : Chain(f, v, ms, n)
<1> DEFINE None == {k \in Nat : ~\E f : Chain(f, v, ms, k)}
<1> SUFFICES ASSUME None # {} PROVE FALSE
  OBVIOUS
<1>1. PICK k \in None : \A l \in None : k <= l
  <2>1. None \in SUBSET Nat
    OBVIOUS
  <2> QED
    BY <2>1, Lowest
<1>2. CASE k = 0
  <2>1. Chain([i \in 0..0 |-> v], v, ms, 0)
    BY DEF Chain
  <2> QED
    BY <1>1, <1>2, <2>1
<1>3. CASE k # 0
  <2>1. k - 1 \in Nat /\ k \in Nat /\ k - 1 \notin None
    BY <1>1, <1>3
  <2>2. PICK f : Chain(f, v, ms, k - 1)
    BY <2>1
  <2> DEFINE g == [i \in 0..k |-> IF i = k THEN Received(f[k - 1], ms[k]) ELSE f[i]]
  <2>3. \A i \in 0..(k - 1) : f[i] = IF i = 0 THEN v ELSE Received(f[i - 1], ms[i])
    BY <2>2 DEF Chain
  <2>4. \A i \in 0..k : g[i] = IF i = 0 THEN v ELSE Received(g[i - 1], ms[i])
    BY <1>3, <2>1, <2>3
  <2>5. g = [i \in 0..k |-> g[i]]
    OBVIOUS
  <2>6. Chain(g, v, ms, k)
    <3> HIDE DEF g
    <3> QED
      BY <2>4, <2>5 DEF Chain
  <2> QED
    BY <1>1, <2>6
<1> QED
  BY <1>2, <1>3

LEMMA ChainUnique ==
  ASSUME NEW v, NEW ms, NEW n \in Nat, NEW f, NEW g, Chain(f, v, ms, n), Chain(g, v, ms, n)
  PROVE  f = g
<1> DEFINE Differ == {k \in 0..n : f[k] # g[k]}
<1>1. /\ \A i \in 0..n : f[i] = IF i = 0 THEN v ELSE Received(f[i - 1], ms[i])
      /\ \A i \in 0..n : g[i] = IF i = 0 THEN v ELSE Received(g[i - 1], ms[i])
      /\ f = [i \in 0..n |-> f[i]] /\ g = [i \in 0..n |-> g[i]]
  BY DEF Chain
<1>2. Differ = {}
  <2> SUFFICES ASSUME Differ # {} PROVE FALSE
    OBVIOUS
  <2>1. Differ \in SUBSET Nat
    OBVIOUS
  <2>2. PICK k \in Differ : \A l \in Differ : k <= l
    BY <2>1, Lowest
  <2>3. k # 0
    BY <1>1, <2>2
  <2>4. k - 1 \in 0..n /\ k - 1 \notin Differ
    BY <2>2, <2>3
  <2> QED
    BY <1>1, <2>2, <2>3, <2>4
<1>3. \A i \in 0..n : f[i] = g[i]
  BY <1>2
<1> QED
  BY <1>1, <1>3

\* What InStep says, without a definition by recursion.
LEMMA InStepIs ==
  ASSUME NEW n \in Nat, Len(chan) = n
  PROVE  InStep <=> (Patches /\ ~first => Leads(view, chan, prev))
<1> DEFINE seen == CHOOSE f : f = [i \in 0..Len(chan) |-> IF i = 0 THEN view ELSE Received(f[i - 1], chan[i])]
<1>1. InStep <=> (Patches /\ ~first => seen[Len(chan)] = prev)
  BY DEF InStep
<1>2. \E f : f = [i \in 0..Len(chan) |-> IF i = 0 THEN view ELSE Received(f[i - 1], chan[i])]
  <2>1. PICK f : Chain(f, view, chan, n)
    BY ChainExists
  <2> QED
    BY <2>1 DEF Chain
<1>3. Chain(seen, view, chan, Len(chan))
  BY <1>2 DEF Chain
<1> HIDE DEF seen
<1>4. Leads(view, chan, prev) <=> seen[Len(chan)] = prev
  BY <1>3, ChainUnique DEF Leads
<1> QED
  BY <1>1, <1>4

LEMMA LeadsSomewhere == ASSUME NEW v, NEW ms, Len(ms) \in Nat PROVE \E w : Leads(v, ms, w)
  BY ChainExists DEF Leads

\* One more message is sent.
LEMMA LeadsOn ==
  ASSUME NEW v, NEW ms \in Seq(Messages), NEW m \in Messages, NEW w, Leads(v, ms, w)
  PROVE  Leads(v, Append(ms, m), Received(w, m))
<1> DEFINE n == Len(ms)
           on == Append(ms, m)
<1>1. PICK f : Chain(f, v, ms, n) /\ f[n] = w
  BY DEF Leads
<1> DEFINE g == [i \in 0..(n + 1) |-> IF i = n + 1 THEN Received(w, m) ELSE f[i]]
<1>2. n \in Nat /\ Len(on) = n + 1 /\ on[n + 1] = m /\ \A i \in 1..n : on[i] = ms[i]
  OBVIOUS
<1>3. \A i \in 0..n : f[i] = IF i = 0 THEN v ELSE Received(f[i - 1], ms[i])
  BY <1>1 DEF Chain
<1> HIDE DEF on, n
<1>4. \A i \in 0..(n + 1) : g[i] = IF i = 0 THEN v ELSE Received(g[i - 1], on[i])
  <2> TAKE i \in 0..(n + 1)
  <2>1. CASE i = n + 1
    BY <1>1, <1>2, <2>1
  <2>2. CASE i \in 1..n
    BY <1>2, <1>3, <2>2
  <2>3. CASE i = 0
    BY <1>2, <1>3, <2>3
  <2> QED
    BY <1>2, <2>1, <2>2, <2>3
<1>5. g = [i \in 0..(n + 1) |-> g[i]] /\ g[n + 1] = Received(w, m)
  BY <1>2
<1> HIDE DEF g
<1>6. Chain(g, v, on, n + 1)
  BY <1>4, <1>5 DEF Chain
<1> QED
  BY <1>2, <1>5, <1>6 DEF Leads, on

\* The first message is received.
LEMMA LeadsFromNext ==
  ASSUME NEW v, NEW ms \in Seq(Messages), ms # <<>>, NEW w, Leads(v, ms, w)
  PROVE  Leads(Received(v, Head(ms)), Tail(ms), w)
<1> DEFINE n == Len(ms) - 1
           rest == Tail(ms)
           next == Received(v, Head(ms))
<1>1. PICK f : Chain(f, v, ms, n + 1) /\ f[n + 1] = w
  BY DEF Leads
<1>2. n \in Nat /\ Len(rest) = n /\ ms[1] = Head(ms) /\ \A i \in 1..n : rest[i] = ms[i + 1]
  OBVIOUS
<1>3. \A i \in 0..(n + 1) : f[i] = IF i = 0 THEN v ELSE Received(f[i - 1], ms[i])
  BY <1>1 DEF Chain
<1> DEFINE g == [i \in 0..n |-> f[i + 1]]
<1> HIDE DEF rest, n
<1>4. f[1] = next
  BY <1>2, <1>3
<1>5. \A i \in 0..n : g[i] = IF i = 0 THEN next ELSE Received(g[i - 1], rest[i])
  <2> TAKE i \in 0..n
  <2>1. CASE i = 0
    BY <1>2, <1>4, <2>1
  <2>2. CASE i # 0
    <3>1. i \in 1..n /\ i + 1 \in 0..(n + 1) /\ i - 1 \in 0..n /\ i + 1 # 0 /\ (i + 1) - 1 = i /\ (i - 1) + 1 = i
      BY <1>2, <2>2
    <3>2. f[i + 1] = Received(f[i], ms[i + 1])
      BY <1>3, <3>1
    <3> QED
      BY <1>2, <2>2, <3>1, <3>2
  <2> QED
    BY <2>1, <2>2
<1>6. g = [i \in 0..n |-> g[i]] /\ g[n] = w
  BY <1>1, <1>2
<1> HIDE DEF g
<1>7. Chain(g, next, rest, n)
  BY <1>5, <1>6 DEF Chain
<1> QED
  BY <1>2, <1>6, <1>7 DEF Leads, rest

-----------------------------------------------------------------------------
(* The feed: its steps *)

\* What every step of the feed keeps.
FeedInv == FeedTyped /\ (Patches /\ ~first => Leads(view, chan, prev))

LEMMA FeedInitial == ServicesInit => FeedInv
<1> SUFFICES ASSUME ServicesInit PROVE FeedInv
  OBVIOUS
<1> USE ServicesAssumption DEF ServicesInit, Init, FeedAssumption
<1>1. <<>> \in Seq(Instance) /\ <<>> \in Seq(Messages)
  OBVIOUS
<1>2. FeedTyped
  BY <1>1, BlankTyped DEF FeedTyped, SendsCurr
<1> QED
  BY <1>2 DEF FeedInv

\* Steps that the client and its session do not notice.
LEMMA SessionRests ==
  ASSUME FeedInv, UNCHANGED <<session, chan, view>>, table' \in Seq(Instance),
         \A i, j \in DOMAIN table' : table'[i].name = table'[j].name => i = j
  PROVE  FeedInv'
  BY DEF FeedInv, FeedTyped, SendsCurr, session, Leads, Chain

LEMMA AddKept == ASSUME FeedInv, NEW x \in Instance, Add(x) PROVE FeedInv'
<1> DEFINE n == Len(table)
<1>1. /\ table \in Seq(Instance) /\ n \in Nat /\ table' = Append(table, x)
      /\ \A i, j \in DOMAIN table : table[i].name = table[j].name => i = j
  BY DEF Add, FeedInv, FeedTyped
<1>2. \A i \in 1..n : table[i].name # x.name
  BY <1>1 DEF Add, NamesOf, Elems
<1>3. DOMAIN table' = 1..(n + 1) /\ table'[n + 1] = x /\ (\A i \in 1..n : table'[i] = table[i]) /\ DOMAIN table = 1..n
  BY <1>1
<1>4. \A i, j \in DOMAIN table' : table'[i].name = table'[j].name => i = j
  <2> HIDE DEF n
  <2> TAKE i, j \in DOMAIN table'
  <2>1. i \in 1..n \cup {n + 1} /\ j \in 1..n \cup {n + 1}
    BY <1>1, <1>3
  <2> QED
    BY <1>1, <1>2, <1>3, <2>1
<1>5. table' \in Seq(Instance)
  BY <1>1
<1> QED
  BY <1>4, <1>5, SessionRests DEF Add

LEMMA ChangeKept == ASSUME FeedInv, NEW x \in Instance, NEW i \in DOMAIN table, Change(i, x) PROVE FeedInv'
<1>1. /\ table \in Seq(Instance) /\ table' = [table EXCEPT ![i] = x] /\ x.name = table[i].name
      /\ \A k, j \in DOMAIN table : table[k].name = table[j].name => k = j
  BY DEF Change, FeedInv, FeedTyped
<1>2. table' \in Seq(Instance) /\ DOMAIN table' = DOMAIN table
  BY <1>1
<1>3. \A k \in DOMAIN table : table'[k].name = table[k].name
  BY <1>1
<1> QED
  BY <1>1, <1>2, <1>3, SessionRests DEF Change

LEMMA RemoveKept == ASSUME FeedInv, NEW i \in DOMAIN table, Remove(i) PROVE FeedInv'
<1> DEFINE n == Len(table) - 1
<1>1. /\ table \in Seq(Instance) /\ table' = [j \in 1..n |-> IF j < i THEN table[j] ELSE table[j + 1]]
      /\ \A k, j \in DOMAIN table : table[k].name = table[j].name => k = j
  BY DEF Remove, FeedInv, FeedTyped
<1>2. i \in 1..(n + 1) /\ n \in Nat /\ DOMAIN table = 1..(n + 1)
  BY <1>1
<1> HIDE DEF n
<1>3. \A j \in 1..n : j \in DOMAIN table /\ j + 1 \in DOMAIN table
  BY <1>2
<1>4. \A j \in 1..n : table'[j] \in Instance
  BY <1>1, <1>3
<1>5. table' \in Seq(Instance)
  BY <1>1, <1>2, <1>4
<1>6. DOMAIN table' = 1..n
  BY <1>1
<1>7. \A k, j \in DOMAIN table' : table'[k].name = table'[j].name => k = j
  <2> TAKE k, j \in DOMAIN table'
  <2> DEFINE from(x) == IF x < i THEN x ELSE x + 1
  <2>1. table'[k] = table[from(k)] /\ table'[j] = table[from(j)] /\ from(k) \in DOMAIN table /\ from(j) \in DOMAIN table
    BY <1>1, <1>3, <1>6
  <2>2. from(k) = from(j) => k = j
    BY <1>2, <1>6
  <2> QED
    BY <1>1, <2>1, <2>2
<1> QED
  BY <1>5, <1>7, SessionRests DEF Remove

\* Steps that only move the session.
LEMMA SessionMoves ==
  ASSUME FeedInv, UNCHANGED <<table, first, prev, curr, out, chan, view>>, page' \in Pages,
         pc' \in {"build", "sending", "waiting", "beating", "closed"}, pc' = "sending" => pc = "sending"
  PROVE  FeedInv'
  BY DEF FeedInv, FeedTyped, SendsCurr, Leads, Chain

\* A snapshot is built.
LEMMA BuildKept == ASSUME FeedInv, Build PROVE FeedInv'
<1> DEFINE now == Snapshot(table, page)
           c   == Diff(prev.containers, now.containers)
           q   == Diff(prev.qr, now.qr)
<1>1. FeedTyped
  BY DEF FeedInv
<1>2. now \in Shown /\ prev \in Shown
  BY <1>1, SnapshotTyped DEF FeedTyped
<1>3. c \in Diffs /\ q \in Diffs
  BY <1>2, DiffTyped DEF Shown
<1>4. UNCHANGED <<table, page, first, chan, view>>
  BY DEF Build
<1>5. CASE first
  <2>1. pc' = "sending" /\ curr' = now /\ out' = <<[type |-> "full", data |-> now]>> /\ UNCHANGED prev
    BY <1>5 DEF Build
  <2>2. [type |-> "full", data |-> now] \in Messages
    BY <1>2 DEF Messages
  <2> HIDE DEF now
  <2>3. out' \in Seq(Messages) /\ Len(out') = 1
    BY <2>1, <2>2
  <2> QED
    BY <1>1, <1>2, <1>4, <1>5, <2>1, <2>3 DEF FeedInv, FeedTyped, SendsCurr
<1>6. CASE ~first /\ Trivial(c) /\ Trivial(q)
  <2>1. pc' = "waiting" /\ prev' = now /\ UNCHANGED <<curr, out>>
    BY <1>6 DEF Build
  <2>2. prev.containers = now.containers /\ prev.qr = now.qr
    BY <1>2, <1>6, TrivialIsEqual DEF Shown
  <2> HIDE DEF now
  <2>3. prev' = prev
    BY <1>2, <2>1, <2>2 DEF Shown
  <2> QED
    BY <1>1, <1>4, <2>1, <2>3 DEF FeedInv, FeedTyped, SendsCurr, Leads, Chain
<1>7. CASE ~first /\ ~(Trivial(c) /\ Trivial(q))
  <2> DEFINE m == [type |-> "patch", containers |-> c, qr |-> q]
  <2>1. pc' = "sending" /\ curr' = now /\ out' = <<m>> /\ UNCHANGED prev
    BY <1>7 DEF Build
  <2>2. m \in Messages
    BY <1>3 DEF Messages
  <2>3. SendsCurr'
    BY <1>4, <1>7, <2>1 DEF SendsCurr
  <2> HIDE DEF now, m
  <2>4. out' \in Seq(Messages) /\ Len(out') = 1
    BY <2>1, <2>2
  <2> QED
    BY <1>1, <1>2, <1>4, <2>1, <2>3, <2>4 DEF FeedInv, FeedTyped, Leads, Chain
<1> QED
  BY <1>5, <1>6, <1>7

\* It is sent.
LEMMA SentKept == ASSUME FeedInv, Sent PROVE FeedInv'
<1> DEFINE m == out[1]
<1>1. FeedTyped /\ SendsCurr
  BY DEF FeedInv, FeedTyped
<1>2. /\ pc = "sending" /\ Len(chan) < MaxChan /\ chan' = chan \o out /\ out' = <<>> /\ prev' = curr
      /\ curr' = Blank /\ first' = FALSE /\ pc' = "waiting" /\ UNCHANGED <<table, page, view>>
  BY DEF Sent
<1>3. /\ chan \in Seq(Messages) /\ out \in Seq(Messages) /\ {prev, curr, view} \subseteq Shown
      /\ first \in BOOLEAN /\ MaxChan \in Nat
  BY <1>1, ServicesAssumption DEF FeedTyped, FeedAssumption
<1>4. /\ out = <<m>>
      /\ m = IF first THEN [type |-> "full", data |-> curr]
             ELSE [type |-> "patch", containers |-> Diff(prev.containers, curr.containers), qr |-> Diff(prev.qr, curr.qr)]
  BY <1>1, <1>2 DEF SendsCurr
<1>5. m \in Messages
  <2>1. Len(out) = 1
    <3> HIDE DEF m
    <3> QED
      BY <1>4
  <2> QED
    BY <1>3, <2>1
<1>6. chan' = Append(chan, m) /\ chan' \in Seq(Messages) /\ Len(chan') <= MaxChan
  <2> HIDE DEF m
  <2>1. chan \o <<m>> = Append(chan, m)
    BY <1>3, <1>5
  <2> QED
    BY <1>2, <1>3, <1>4, <1>5, <2>1
<1>7. FeedTyped'
  <2> HIDE DEF m
  <2>2. SendsCurr'
    BY <1>2 DEF SendsCurr
  <2>3. {prev', curr', view'} \subseteq Shown
    BY <1>2, <1>3, BlankTyped
  <2>4. /\ table' \in Seq(Instance) /\ page' \in Pages
        /\ \A i, j \in DOMAIN table' : table'[i].name = table'[j].name => i = j
    BY <1>1, <1>2 DEF FeedTyped
  <2>5. pc' = "waiting" /\ first' \in BOOLEAN
    BY <1>2
  <2>6. out' = <<>>
    BY <1>2
  <2>7. out' \in Seq(Messages) /\ Len(out') <= 1
    BY <2>6
  <2> QED
    BY <1>6, <2>2, <2>3, <2>4, <2>5, <2>7 DEF FeedTyped
<1>8. Patches => Leads(view, chan', curr)
  <2>1. CASE first
    <3>1. PICK w : Leads(view, chan, w)
      <4>1. Len(chan) \in Nat
        BY <1>3
      <4> QED
        BY <4>1, LeadsSomewhere
    <3>2. Received(w, m) = curr
      BY <1>4, <2>1 DEF Received
    <3> QED
      BY <1>3, <1>5, <1>6, <3>1, <3>2, LeadsOn
  <2>2. CASE ~first /\ Patches
    <3>1. Leads(view, chan, prev)
      BY <2>2 DEF FeedInv
    <3>2. /\ Patched(prev.containers, Diff(prev.containers, curr.containers)) = curr.containers
          /\ Patched(prev.qr, Diff(prev.qr, curr.qr)) = curr.qr
      BY <1>3, PatchedByDiff DEF Shown
    <3>3. Received(prev, m) = [containers |-> curr.containers, qr |-> curr.qr]
      BY <1>4, <2>2, <3>2 DEF Received
    <3>4. Received(prev, m) = curr
      BY <1>3, <3>3 DEF Shown
    <3> QED
      BY <1>3, <1>5, <1>6, <3>1, <3>4, LeadsOn
  <2> QED
    BY <2>1, <2>2
<1>9. Patches => Leads(view', chan', prev')
  BY <1>2, <1>8
<1> QED
  BY <1>7, <1>9 DEF FeedInv

\* The session ends.
LEMMA FeedFailsKept == ASSUME FeedInv, Fails PROVE FeedInv'
  BY ServicesAssumption, BlankTyped DEF FeedAssumption, Fails, FeedInv, FeedTyped, SendsCurr

\* A message arrives.
LEMMA ReceiveKept == ASSUME FeedInv, Receive PROVE FeedInv'
<1>1. /\ chan # <<>> /\ chan' = Tail(chan) /\ view' = Received(view, Head(chan))
      /\ UNCHANGED <<table, pc, page, first, prev, curr, out>>
  BY DEF Receive, session
<1>2. chan \in Seq(Messages) /\ view \in Shown /\ Len(chan) <= MaxChan /\ MaxChan \in Nat
  BY ServicesAssumption DEF FeedInv, FeedTyped, FeedAssumption
<1>3. Head(chan) \in Messages /\ chan' \in Seq(Messages) /\ Len(chan') <= MaxChan
  BY <1>1, <1>2
<1>4. view' \in Shown
  BY <1>1, <1>2, <1>3, ReceivedTyped
<1>5. Patches /\ ~first => Leads(view', chan', prev)
  BY <1>1, <1>2, LeadsFromNext DEF FeedInv
<1>6. FeedTyped'
  BY <1>1, <1>3, <1>4 DEF FeedInv, FeedTyped, SendsCurr
<1>7. Patches /\ ~first' => Leads(view', chan', prev')
  BY <1>1, <1>5
<1> QED
  BY <1>6, <1>7 DEF FeedInv

LEMMA FeedNextKept == ASSUME FeedInv, Next PROVE FeedInv'
<1>1. CASE TableStep
  BY <1>1, AddKept, ChangeKept, RemoveKept DEF TableStep
<1>2. CASE \E k \in Pages : Subscribe(k)
  BY <1>2, SessionMoves DEF Subscribe, FeedInv, FeedTyped
<1>3. CASE Notified \/ Idle \/ Beaten \/ Reconnect
  BY <1>3, SessionMoves DEF Notified, Idle, Beaten, AfterBeat, Reconnect, FeedInv, FeedTyped
<1> QED
  BY <1>1, <1>2, <1>3, BuildKept, SentKept, FeedFailsKept, ReceiveKept DEF Next

LEMMA FeedRestKept == ASSUME FeedInv, UNCHANGED feedVars PROVE FeedInv'
  BY DEF feedVars, session, FeedInv, FeedTyped, SendsCurr, Leads, Chain

LEMMA FeedPromises == FeedInv => TypeOK /\ InStep
<1> SUFFICES ASSUME FeedInv PROVE TypeOK /\ InStep
  OBVIOUS
<1>1. FeedTyped
  BY DEF FeedInv
<1>2. Elems(table) \subseteq Instance
  BY <1>1 DEF FeedTyped, Elems
<1>3. \A s \in {prev, curr, view} : DOMAIN s.containers \subseteq Names /\ DOMAIN s.qr \subseteq Names
  BY <1>1, MapIs DEF FeedTyped, Shown
<1>4. Len(chan) \in Nat
  BY <1>1 DEF FeedTyped
<1> QED
  BY <1>1, <1>2, <1>3, <1>4, InStepIs DEF FeedInv, FeedTyped, TypeOK

(* What a session believes it has sent is what its client will show once the *)
(* messages in flight have arrived, for any instances, pages and number of   *)
(* messages in flight (ws_public, whose patches usePublicWebSocket.ts would  *)
(* have to apply).                                                           *)
THEOREM FeedInStep == ServicesSpec => [](TypeOK /\ InStep)
<1>1. ServicesInit => FeedInv
  BY FeedInitial
<1>2. FeedInv /\ [ServicesNext]_servicesVars => FeedInv'
  BY FeedNextKept, FeedRestKept DEF ServicesNext, servicesVars
<1>3. FeedInv => TypeOK /\ InStep
  BY FeedPromises
<1> QED
  BY <1>1, <1>2, <1>3, PTL DEF ServicesSpec

-----------------------------------------------------------------------------

(* The variables of all four services have their types.                       *)
THEOREM ServicesTyped == ServicesSpec => []ServicesTypeOK
<1>1. ServicesSpec => [](TypeOK /\ InStep)
  BY FeedInStep
<1>2. ServicesSpec => [](Injection!TypeOK /\ Injection!ReservedExact)
  BY ReservationsExact
<1>3. ServicesSpec => [](Lease!TypeOK /\ Lease!LeasesHeld /\ Lease!PortsApart)
  BY LeasesKept
<1>4. ServicesSpec => [](Dog!TypeOK /\ ShepherdKept)
  BY ShepherdAlwaysKept
<1>5. TypeOK /\ Injection!TypeOK /\ Lease!TypeOK /\ Dog!TypeOK => ServicesTypeOK
  BY DEF ServicesTypeOK
<1> QED
  BY <1>1, <1>2, <1>3, <1>4, <1>5, PTL
=============================================================================
