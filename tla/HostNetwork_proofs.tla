------------------------ MODULE HostNetwork_proofs ------------------------
(***************************************************************************)
(* Proofs about HostNetwork, for every list of interfaces, every width of  *)
(* an address and every configuration a link may be given: an announcement *)
(* goes to a network the host is on, and as long as the host does not move *)
(* it goes to the broadcast address of what the Network Ports report.      *)
(***************************************************************************)
EXTENDS HostNetwork, WellFoundedInduction, TLAPS

(***************************************************************************)
(* The invariant: what main() has kept and sent, by where it is.  Between  *)
(* the reading of the address and the loop the property claims nothing; it *)
(* holds in the loop because the address kept answers for the host's       *)
(* (Kept) and each message already sent was sent to it (Sent).             *)
(***************************************************************************)
TypeOK ==
  /\ config \in [Links -> Configs \cup {NoConfig}]
  /\ pc \in {"read", "iam", "router", "loop"}
  /\ moved \in BOOLEAN
  /\ \E t \in [Announcements -> {NotSent} \cup Addresses] : target = t

Kept ==
  /\ pc = "read" => cached = [ip |-> Zeros, mask |-> Zeros]
  /\ pc # "read" /\ ~moved => Broadcast(cached) = LocalBroadcast

Sent ==
  /\ pc \in {"router", "loop"} /\ ~moved => target["IAm"] = Broadcast(cached)
  /\ pc = "loop" /\ ~moved => target["Router"] = Broadcast(cached)

HostInv == TypeOK /\ Kept /\ Sent

---------------------------------------------------------------------------
(* The addresses. *)

\* A set of places that is not empty has a first one.
LEMMA FirstPlace ==
  ASSUME NEW S, S \subseteq DOMAIN Interfaces, S # {}
  PROVE  First(S) \in S /\ \A i \in S : First(S) <= i
<1>1. S \subseteq Nat
  BY HostAssumption
<1>2. IsWellFoundedOn(OpToRel(<, Nat), Nat)
  BY NatLessThanWellFounded
<1>3. PICK i \in S : \A j \in S : <<j, i>> \notin OpToRel(<, Nat)
  BY <1>1, <1>2, WFMin
<1>4. \A j \in S : ~ (j < i)
  BY <1>1, <1>3 DEF OpToRel
<1>5. \A j \in S : i <= j
  BY <1>1, <1>4
<1> QED
  BY <1>5 DEF First

\* What getifaddrs gives is the configuration of a usable link, the first one.
LEMMA PrimaryIsUsable ==
  \/ UsablePlaces = {} /\ GetPrimaryIPv4 = NoConfig
  \/ \E i \in UsablePlaces :
       /\ GetPrimaryIPv4 = config[Interfaces[i]]
       /\ \A j \in UsablePlaces : i <= j
<1>1. UsablePlaces \subseteq DOMAIN Interfaces
  BY DEF UsablePlaces
<1>2. CASE UsablePlaces = {}
  BY <1>2 DEF GetPrimaryIPv4
<1>3. CASE UsablePlaces # {}
  <2>1. /\ First(UsablePlaces) \in UsablePlaces
        /\ \A j \in UsablePlaces : First(UsablePlaces) <= j
    BY <1>1, <1>3, FirstPlace
  <2>2. GetPrimaryIPv4 = config[Interfaces[First(UsablePlaces)]]
    BY <1>3 DEF GetPrimaryIPv4
  <2> QED
    BY <2>1, <2>2
<1> QED
  BY <1>2, <1>3

\* No configuration a link can have is the absence of one.
LEMMA NoConfigIsNone == NoConfig \notin Configs
<1>1. ASSUME NEW c \in Configs, c = NoConfig PROVE FALSE
  <2>1. c.ip \in [1 .. Bits -> {0, 1}]
    BY HostAssumption DEF Addresses
  <2>2. c.ip = <<>>
    BY <1>1 DEF NoConfig
  <2>3. 1 \in DOMAIN c.ip
    BY <2>1, HostAssumption
  <2> QED
    BY <2>2, <2>3
<1> QED
  BY <1>1

LEMMA PrimaryType ==
  ASSUME TypeOK
  PROVE  GetPrimaryIPv4 \in Configs \cup {NoConfig}
<1>1. \A i \in DOMAIN Interfaces :
        config[Interfaces[i]] \in Configs \cup {NoConfig}
  BY DEF TypeOK, Links
<1> QED
  BY <1>1, PrimaryIsUsable DEF UsablePlaces

\* Both computations of the broadcast address agree, and give an address.
LEMMA BroadcastType ==
  ASSUME TypeOK
  PROVE  LocalBroadcast \in Addresses /\ IAmTarget = LocalBroadcast
<1>1. \A c \in Configs : Broadcast(c) \in Addresses
  BY HostAssumption DEF Broadcast, Addresses
<1>2. Limited \in Addresses
  BY DEF Limited, Addresses
<1> QED
  BY <1>1, <1>2, PrimaryType DEF LocalBroadcast, IAmTarget

\* Where no address was found, the zeros kept stand for the limited broadcast.
LEMMA ZerosBroadcast ==
  Broadcast([ip |-> Zeros, mask |-> Zeros]) = Limited
BY DEF Broadcast, Zeros, Limited

\* The computed address is one of a network some usable interface is on.
LEMMA BroadcastIsLocal ==
  ASSUME TypeOK
  PROVE  OnLocalSubnet(LocalBroadcast)
<1>1. CASE GetPrimaryIPv4 = NoConfig
  BY <1>1 DEF LocalBroadcast, OnLocalSubnet
<1>2. CASE GetPrimaryIPv4 # NoConfig
  <2>1. PICK i \in UsablePlaces : GetPrimaryIPv4 = config[Interfaces[i]]
    BY <1>2, PrimaryIsUsable
  <2> DEFINE l == Interfaces[i]
  <2>2. l \in Links \ {Loopback} /\ up[l] /\ config[l] # NoConfig
    BY <2>1 DEF UsablePlaces, Usable, Links
  <2>3. LocalBroadcast = Broadcast(config[l])
    BY <1>2, <2>1 DEF LocalBroadcast
  <2>4. \A b \in 1 .. Bits :
          LocalBroadcast[b] = IF config[l].mask[b] = 1 THEN config[l].ip[b] ELSE 1
    BY <2>3 DEF Broadcast
  <2> QED
    BY <2>2, <2>4 DEF OnLocalSubnet
<1> QED
  BY <1>1, <1>2

---------------------------------------------------------------------------
(* The invariant holds. *)

LEMMA HostInit == Init => HostInv
<1> SUFFICES ASSUME Init PROVE HostInv
  OBVIOUS
<1>1. [a \in Announcements |-> NotSent] \in [Announcements -> {NotSent} \cup Addresses]
  OBVIOUS
<1>2. TypeOK
  BY <1>1 DEF Init, TypeOK
<1> QED
  BY <1>2 DEF Init, HostInv, Kept, Sent

LEMMA HostNext == HostInv /\ [Next]_vars => HostInv'
<1> SUFFICES ASSUME HostInv, [Next]_vars PROVE HostInv'
  OBVIOUS
<1> USE DEF HostInv
<1>1. ASSUME NEW a \in Announcements, NEW x \in Addresses,
             target' = [target EXCEPT ![a] = x]
      PROVE  \E t \in [Announcements -> {NotSent} \cup Addresses] : target' = t
  BY <1>1 DEF TypeOK
<1>2. CASE ReadLocalAddress
  <2>1. TypeOK'
    BY <1>2 DEF ReadLocalAddress, TypeOK, hostVars
  <2>2. GetPrimaryIPv4' = GetPrimaryIPv4 /\ LocalBroadcast' = LocalBroadcast
    BY <1>2 DEF ReadLocalAddress, hostVars, GetPrimaryIPv4, LocalBroadcast,
                UsablePlaces, Usable
  <2>3. Broadcast(cached') = LocalBroadcast
    <3>1. CASE GetPrimaryIPv4 = NoConfig
      BY <1>2, <3>1, ZerosBroadcast
         DEF ReadLocalAddress, FilledBy, Kept, LocalBroadcast
    <3>2. CASE GetPrimaryIPv4 # NoConfig
      BY <1>2, <3>2 DEF ReadLocalAddress, FilledBy, LocalBroadcast
    <3> QED
      BY <3>1, <3>2
  <2>4. Kept'
    BY <1>2, <2>2, <2>3 DEF ReadLocalAddress, Kept, Broadcast
  <2>5. Sent'
    BY <1>2 DEF ReadLocalAddress, Sent
  <2> QED
    BY <2>1, <2>4, <2>5
<1>3. CASE SendIAm
  <2>1. IAmTarget \in Addresses /\ IAmTarget = LocalBroadcast
    BY BroadcastType
  <2>2. "IAm" \in Announcements
    BY DEF Announcements
  <2>3. TypeOK'
    BY <1>1, <1>3, <2>1, <2>2 DEF SendIAm, TypeOK, hostVars
  <2>4. LocalBroadcast' = LocalBroadcast
    BY <1>3 DEF SendIAm, hostVars, GetPrimaryIPv4, LocalBroadcast, UsablePlaces, Usable
  <2>5. Kept'
    BY <1>3, <2>4 DEF SendIAm, Kept, Broadcast
  <2>6. target'["IAm"] = LocalBroadcast
    BY <1>3, <2>1, <2>2 DEF SendIAm, TypeOK
  <2>7. Sent'
    BY <1>3, <2>6 DEF SendIAm, Sent, Kept, Broadcast
  <2> QED
    BY <2>3, <2>5, <2>7
<1>4. CASE AnnounceRouter
  <2>1. LocalBroadcast \in Addresses
    BY BroadcastType
  <2>2. "IAm" \in Announcements /\ "Router" \in Announcements
    BY DEF Announcements
  <2>3. TypeOK'
    BY <1>1, <1>4, <2>1, <2>2 DEF AnnounceRouter, TypeOK, hostVars
  <2>4. LocalBroadcast' = LocalBroadcast
    BY <1>4 DEF AnnounceRouter, hostVars, GetPrimaryIPv4, LocalBroadcast,
                UsablePlaces, Usable
  <2>5. Kept'
    BY <1>4, <2>4 DEF AnnounceRouter, Kept, Broadcast
  <2>6. target'["Router"] = LocalBroadcast /\ target'["IAm"] = target["IAm"]
    BY <1>4, <2>2 DEF AnnounceRouter, TypeOK
  <2>7. Sent'
    BY <1>4, <2>6 DEF AnnounceRouter, Sent, Kept, Broadcast
  <2> QED
    BY <2>3, <2>5, <2>7
<1>5. CASE HostChanges
  <2>1. config' \in [Links -> Configs \cup {NoConfig}]
    BY <1>5 DEF HostChanges, TypeOK
  <2>2. TypeOK'
    BY <1>5, <2>1 DEF HostChanges, TypeOK
  <2> QED
    BY <1>5, <2>2 DEF HostChanges, Kept, Sent
<1>6. CASE UNCHANGED vars
  <2>1. LocalBroadcast' = LocalBroadcast
    BY <1>6 DEF vars, hostVars, GetPrimaryIPv4, LocalBroadcast, UsablePlaces, Usable
  <2>2. Broadcast(cached') = Broadcast(cached)
    BY <1>6 DEF vars
  <2>3. TypeOK'
    BY <1>6 DEF vars, hostVars, TypeOK
  <2> QED
    BY <1>6, <2>1, <2>2, <2>3 DEF vars, Kept, Sent, Broadcast
<1> QED
  BY <1>2, <1>3, <1>4, <1>5, <1>6 DEF Next

LEMMA HostInductive == Spec => []HostInv
BY HostInit, HostNext, PTL DEF Spec

\* As long as the host is as it was when main() asked, both announcements go to
\* the broadcast address of the address the Network Ports report: the two
\* computations, of SendIAm and of main(), agree with each other and with it.
THEOREM ReportedIsTarget == Spec => []TargetIsReported
<1>1. HostInv => TargetIsReported
  BY DEF HostInv, Sent, TargetIsReported, Announcements
<1> QED
  BY <1>1, HostInductive, PTL

\* Whatever the links do and whenever, an announcement goes to a network a usable
\* interface is on at that moment, or to the limited broadcast.
THEOREM AnnouncesToNeighbours == Spec => AnnouncesAround
<1>1. ASSUME TypeOK, [Next]_vars, NEW a \in Announcements, target'[a] # target[a]
      PROVE  OnLocalSubnet(target'[a])
  <2>1. OnLocalSubnet(LocalBroadcast) /\ IAmTarget = LocalBroadcast
    BY <1>1, BroadcastIsLocal, BroadcastType
  <2>2. target'[a] = LocalBroadcast
    <3>1. CASE SendIAm
      BY <1>1, <2>1, <3>1 DEF SendIAm, TypeOK
    <3>2. CASE AnnounceRouter
      BY <1>1, <3>2 DEF AnnounceRouter, TypeOK
    <3>3. ~(ReadLocalAddress \/ HostChanges \/ UNCHANGED vars)
      BY <1>1 DEF ReadLocalAddress, HostChanges, vars
    <3> QED
      BY <1>1, <3>1, <3>2, <3>3 DEF Next
  <2> QED
    BY <2>1, <2>2
<1>2. HostInv /\ [Next]_vars =>
        \A a \in Announcements : target'[a] # target[a] => OnLocalSubnet(target'[a])
  BY <1>1 DEF HostInv
<1>3. []HostInv /\ [][Next]_vars => AnnouncesAround
  BY <1>2, PTL DEF AnnouncesAround
<1> QED
  BY <1>3, HostInductive, PTL DEF Spec

=============================================================================
