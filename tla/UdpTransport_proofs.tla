----------------------- MODULE UdpTransport_proofs ------------------------
(***************************************************************************)
(* Proofs about UdpTransport, for every number of instances, slots,        *)
(* sockets and queued datagrams, and whether or not instances are bound    *)
(* again.  IInv is inductive; BypassBound and TableKeyed follow from it.   *)
(***************************************************************************)
EXTENDS UdpTransport, TLAPS

\* Reduction by one subtraction stays inside the table.
LEMMA WrapInRange ==
  ASSUME NEW n \in Nat \ {0}, NEW i \in 0 .. 2 * n - 1
  PROVE  Wrap(i, n) \in 0 .. n - 1
BY DEF Wrap

\* Distances stay below the size of the table.
LEMMA DistanceInRange ==
  ASSUME NEW n \in Nat, NEW a \in 0 .. n - 1, NEW s \in 0 .. n - 1
  PROVE  Distance(a, s, n) \in 0 .. n - 1
BY DEF Distance

\* Starting over just behind the j-th slot q from a brings every slot beyond
\* it j + 1 closer, and sends the ones already passed to the end.
LEMMA DistanceAfterService ==
  ASSUME NEW n \in Nat, NEW a \in 0 .. n - 1, NEW s \in 0 .. n - 1,
         NEW j \in 0 .. n - 1, NEW q, q = Wrap(a + j, n), s # q
  PROVE  LET d == Distance(a, s, n)
         IN  Distance(Wrap(q + 1, n), s, n) =
               IF d > j THEN d - j - 1 ELSE d - j - 1 + n
BY DEF Distance, Wrap

\* Ports are numbers, and so is the 0 of a slot or handle without one.
LEMMA PortsAreNumbers == \A u \in Ports \cup {0} : u \in Nat
BY TransportAssumption

\* The slot a scan polls is inside the table.
LEMMA PolledInTable ==
  ASSUME TypeOK, RingInv, k \in 0 .. count - 1
  PROVE  Polled \in 0 .. count - 1 /\ Polled \in Slots
BY TransportAssumption DEF TypeOK, RingInv, Polled, Wrap, Slots, Idle

---------------------------------------------------------------------------

LEMMA InitTypeOK == Init => TypeOK
BY TransportAssumption DEF Init, TypeOK, Slots, Idle, NoSend, Closed

\* A SetupUDP call keeps the types.
LEMMA SetupTypeOK ==
  ASSUME TypeOK, NEW p \in Instances, NEW u \in Ports, SetupUDP(p, u)
  PROVE  TypeOK'
<1>1. PICK s \in Slots : \/ SetupNoSocket(p, s)
                         \/ SetupBindFails(p, s)
                         \/ SetupSucceeds(p, s, u)
  BY DEF SetupUDP
<1>2. count' \in 0 .. MaxUdpBindings /\ inst' \in [Slots -> Instances \cup {0}]
  <2>1. SetupSlot(p, s)
    BY <1>1 DEF SetupNoSocket, SetupBindFails, SetupSucceeds
  <2>2. QED
    BY <2>1, TransportAssumption DEF SetupSlot, TypeOK, Slots
<1>3. k = Idle /\ k' = k /\ next' = next /\ reported' = reported /\ gInst' = gInst
  BY <1>1 DEF SetupNoSocket, SetupBindFails, SetupSucceeds, SetupSlot, SetupUDP,
              pollVars
<1>4. bypass' \in [Slots -> 0 .. MaxUdpBindings]
  BY TransportAssumption DEF SetupUDP, StillWaiting, TypeOK
<1>5. sent' \in [by : Nat, from : Nat, to : Nat, broadcast : BOOLEAN]
  BY DEF SetupUDP, NoSend
<1>6. /\ port' \in [Slots -> Ports \cup {0}]
      /\ bound' \in [Slots -> BOOLEAN]
      /\ connected' \in [Slots -> BOOLEAN]
      /\ gPort' \in Nat
      /\ sock' \in [Slots -> Handles \cup {NoSocket}]
      /\ sockPort' \in [Handles -> Ports \cup {Closed}]
      /\ queue' \in [Handles -> Seq(Nat)]
  <2>1. CASE SetupNoSocket(p, s)
    BY <2>1 DEF SetupNoSocket, TypeOK, osVars
  <2>2. CASE SetupBindFails(p, s)
    BY <2>2 DEF SetupBindFails, TypeOK, osVars
  <2>3. CASE SetupSucceeds(p, s, u)
    <3>1. PICK h \in Handles :
            /\ sockPort' = [sockPort EXCEPT ![h] = u]
            /\ queue' = [queue EXCEPT ![h] = <<>>]
            /\ sock' = [sock EXCEPT ![s] = h]
      BY <2>3 DEF SetupSucceeds
    <3>2. gPort' \in Nat
      BY <2>3, TransportAssumption DEF SetupSucceeds, TypeOK
    <3> QED
      BY <2>3, <3>1, <3>2 DEF SetupSucceeds, TypeOK
  <2> QED
    BY <1>1, <2>1, <2>2, <2>3
<1>7. k' \in -1 .. count' /\ next' \in Slots
  BY <1>2, <1>3 DEF TypeOK, Idle
<1> QED
  BY <1>2, <1>3, <1>4, <1>5, <1>6, <1>7 DEF TypeOK

\* Every step keeps the types.
LEMMA NextTypeOK ==
  ASSUME TypeOK, RingInv, [Next]_vars
  PROVE  TypeOK'
<1>1. ASSUME NEW p \in Instances, NEW u \in Ports, SetupUDP(p, u)
      PROVE  TypeOK'
  BY <1>1, SetupTypeOK
<1>2. CASE ShutdownUDP
  BY <1>2, TransportAssumption
     DEF ShutdownUDP, CloseSockets, StillWaiting, TypeOK, NoSend, Closed, pollVars
<1>3. ASSUME NEW p \in Instances, SetNetworkPortInstance(p)
      PROVE  TypeOK'
  BY <1>3, TransportAssumption
     DEF SetNetworkPortInstance, TypeOK, NoSend, pollVars, osVars
<1>4. ASSUME NEW p \in Instances, NEW to \in Nat, NEW b \in BOOLEAN,
             HelperSendMessage(p, to, b),
             UNCHANGED <<tableVars, pollVars, sockPort, bypass>>
      PROVE  TypeOK'
  <2>1. PICK s \in Slots :
          /\ Usable(s)
          /\ sent' = [by |-> p, from |-> sockPort[sock[s]],
                      to |-> to, broadcast |-> b]
    BY <1>4 DEF HelperSendMessage
  <2>2. sent' \in [by : Nat, from : Nat, to : Nat, broadcast : BOOLEAN]
    <3>1. sockPort[sock[s]] \in Nat
      <4>1. sockPort[sock[s]] \in Ports \cup {0}
        BY <2>1 DEF Usable, TypeOK, Closed
      <4> QED
        BY <4>1, PortsAreNumbers
    <3>2. p \in Nat
      BY TransportAssumption
    <3> QED
      BY <2>1, <3>1, <3>2
  <2>3. queue' \in [Handles -> Seq(Nat)]
    <3>1. CASE Loopback(to)
      BY <3>1 DEF Loopback, TypeOK
    <3> QED
      BY <1>4, <3>1 DEF HelperSendMessage, TypeOK
  <2> QED
    BY <1>4, <2>2, <2>3 DEF TypeOK, tableVars, pollVars
<1>5. CASE BeginReceive
  BY <1>5, TransportAssumption
     DEF BeginReceive, TypeOK, NoSend, tableVars, osVars
<1>6. CASE PollNothing
  BY <1>6 DEF PollNothing, TypeOK, tableVars, osVars
<1>7. CASE PollBlank
  <2>1. Polled \in Slots /\ queue[sock[Polled]] # <<>> /\ sock[Polled] \in Handles
    BY <1>7, PolledInTable DEF PollBlank, Pending, Usable, TypeOK
  <2>2. queue' \in [Handles -> Seq(Nat)]
    BY <1>7, <2>1 DEF PollBlank, Consume, TypeOK
  <2>3. bypass' \in [Slots -> 0 .. MaxUdpBindings]
    <3>1. bypass' = [bypass EXCEPT ![Polled] = 0]
      BY <1>7 DEF PollBlank
    <3>2. 0 \in 0 .. MaxUdpBindings
      BY TransportAssumption
    <3> QED
      BY <3>1, <3>2 DEF TypeOK
  <2>4. k' \in -1 .. count'
    BY <1>7 DEF PollBlank, TypeOK, tableVars
  <2> QED
    BY <1>7, <2>2, <2>3, <2>4 DEF PollBlank, Consume, TypeOK, tableVars
<1>8. CASE PollDatagram
  <2>1. Polled \in 0 .. count - 1 /\ Polled \in Slots
    BY <1>8, PolledInTable DEF PollDatagram
  <2>2. queue' \in [Handles -> Seq(Nat)]
    BY <1>8, <2>1 DEF PollDatagram, Consume, Pending, Usable, TypeOK
  <2>3. next' \in Slots /\ reported' \in Instances \cup {0}
    BY <1>8, <2>1, TransportAssumption
       DEF PollDatagram, ServiceSlot, Wrap, TypeOK, Slots
  <2>4. bypass' \in [Slots -> 0 .. MaxUdpBindings]
    BY <1>8, TransportAssumption DEF PollDatagram, Bump, TypeOK
  <2> QED
    BY <1>8, <2>2, <2>3, <2>4 DEF PollDatagram, Consume, TypeOK, tableVars, Idle
<1>9. CASE EndIdle
  BY <1>9, TransportAssumption
     DEF EndIdle, Wrap, RingInv, TypeOK, Idle, Slots, tableVars, osVars
<1>10. ASSUME NEW h \in Handles, NEW d \in {sockPort[h], Blank}, Arrive(h, d)
       PROVE  TypeOK'
  <2>1. queue' \in [Handles -> Seq(Nat)]
    BY <1>10, TransportAssumption DEF Arrive, TypeOK, Blank, Closed
  <2> QED
    BY <1>10, <2>1 DEF Arrive, TypeOK, tableVars, pollVars
<1>11. CASE UNCHANGED vars
  BY <1>11 DEF vars, tableVars, pollVars, osVars, TypeOK
<1>12. ASSUME NEW p \in Instances, SendIAm(p)
       PROVE  TypeOK'
  <2>1. IAmPort(p) \in Nat
    <3>1. ASSUME NEW s \in Slots, Finds(p, s)
          PROVE  (CHOOSE t \in Slots : Finds(p, t)) \in Slots
      BY <3>1
    <3>2. \A s \in Slots : port[s] \in Nat
      BY PortsAreNumbers DEF TypeOK
    <3>3. gPort \in Nat
      BY DEF TypeOK
    <3> QED
      BY <3>1, <3>2, <3>3 DEF IAmPort
  <2> QED
    BY <1>12, <2>1, <1>4 DEF SendIAm
<1>13. ASSUME NEW p \in Instances, NEW to \in Ports, Reply(p, to)
       PROVE  TypeOK'
  BY <1>13, <1>4, TransportAssumption DEF Reply
<1> QED
  BY <1>1, <1>2, <1>3, <1>5, <1>6, <1>7, <1>8, <1>9, <1>10, <1>11, <1>12, <1>13
     DEF Next, Receive

---------------------------------------------------------------------------

LEMMA InitTableInv == Init => TableInv
BY DEF Init, TableInv

\* What every SetupUDP call does to the slots handed out and their keys.
LEMMA SetupSlotFacts ==
  ASSUME TypeOK, TableInv, NEW p \in Instances, NEW s \in Slots, SetupSlot(p, s)
  PROVE  /\ s < count'
         /\ count' = count \/ (count' = count + 1 /\ s = count)
         /\ \A a, b \in Slots : a < count' /\ b < count' /\ a # b
              => inst'[a] # inst'[b]
<1>1. CASE Finds(p, s)
  <2>1. inst' = inst /\ count' = count /\ s < count
    BY <1>1 DEF SetupSlot, Finds, TypeOK
  <2> QED
    BY <2>1 DEF TableInv
<1>2. CASE Unknown(p) /\ s = count
  <2>1. count' = count + 1 /\ inst' = [inst EXCEPT ![s] = p]
    BY <1>2 DEF SetupSlot
  <2>2. \A a \in Slots : a < count => inst'[a] = inst[a] /\ inst[a] # p
    BY <1>2, <2>1 DEF Unknown, TypeOK, Slots
  <2>3. inst'[s] = p
    BY <2>1 DEF TypeOK
  <2>4. \A a \in Slots : a < count' => a = s \/ a < count
    BY <1>2, <2>1 DEF TypeOK, Slots
  <2>5. s < count'
    BY <1>2, <2>1 DEF TypeOK, Slots
  <2> QED
    BY <1>2, <2>1, <2>2, <2>3, <2>4, <2>5 DEF TableInv
<1> QED
  BY <1>1, <1>2 DEF SetupSlot

LEMMA SetupTableInv ==
  ASSUME TypeOK, TableInv, NEW p \in Instances, NEW u \in Ports, SetupUDP(p, u)
  PROVE  TableInv'
<1>1. PICK s \in Slots : \/ SetupNoSocket(p, s)
                         \/ SetupBindFails(p, s)
                         \/ SetupSucceeds(p, s, u)
  BY DEF SetupUDP
<1>2. SetupSlot(p, s)
  BY <1>1 DEF SetupNoSocket, SetupBindFails, SetupSucceeds
<1>3. /\ s < count'
      /\ count' = count \/ (count' = count + 1 /\ s = count)
      /\ \A a, b \in Slots : a < count' /\ b < count' /\ a # b
           => inst'[a] # inst'[b]
  BY <1>2, SetupSlotFacts
<1>4. \A a \in Slots : a >= count' => a # s /\ a >= count
  BY <1>3 DEF TypeOK, Slots
<1>5. CASE SetupNoSocket(p, s)
  <2>1. /\ bound' = bound /\ connected' = connected /\ sockPort' = sockPort
        /\ sock' = [sock EXCEPT ![s] = NoSocket]
    BY <1>5 DEF SetupNoSocket, osVars
  <2>2. \A a \in Slots : sock'[a] # NoSocket => a # s /\ sock'[a] = sock[a]
    BY <2>1 DEF TypeOK
  <2>3. \A a, b \in Slots : a # b /\ sock'[a] # NoSocket => sock'[a] # sock'[b]
    BY <2>1, <2>2 DEF TableInv, TypeOK
  <2> QED
    BY <1>3, <1>4, <2>1, <2>2, <2>3 DEF TableInv
<1>6. CASE SetupBindFails(p, s)
  <2>1. /\ bound' = bound /\ sockPort' = sockPort
        /\ sock' = [sock EXCEPT ![s] = NoSocket]
        /\ connected' = [connected EXCEPT ![s] = FALSE]
    BY <1>6 DEF SetupBindFails, osVars
  <2>2. \A a \in Slots : sock'[a] # NoSocket => a # s /\ sock'[a] = sock[a]
    BY <2>1 DEF TypeOK
  <2>3. \A a, b \in Slots : a # b /\ sock'[a] # NoSocket => sock'[a] # sock'[b]
    BY <2>1, <2>2 DEF TableInv, TypeOK
  <2>4. \A a \in Slots : a # s => connected'[a] = connected[a]
    BY <2>1 DEF TypeOK
  <2> QED
    BY <1>3, <1>4, <2>1, <2>2, <2>3, <2>4 DEF TableInv
<1>7. CASE SetupSucceeds(p, s, u)
  <2>1. PICK h \in Handles :
          /\ sockPort[h] = Closed
          /\ sockPort' = [sockPort EXCEPT ![h] = u]
          /\ sock' = [sock EXCEPT ![s] = h]
    BY <1>7 DEF SetupSucceeds
  <2>2. /\ bound' = [bound EXCEPT ![s] = TRUE]
        /\ connected' = [connected EXCEPT ![s] = TRUE]
    BY <1>7 DEF SetupSucceeds
  <2>3. \A a \in Slots : a # s => /\ bound'[a] = bound[a]
                                  /\ connected'[a] = connected[a]
                                  /\ sock'[a] = sock[a]
    BY <2>1, <2>2 DEF TypeOK
  <2>4. bound'[s] /\ sock'[s] = h /\ sockPort'[h] # Closed
    BY <2>1, <2>2, TransportAssumption DEF TypeOK, Closed
  <2>5. \A a \in Slots : sock[a] # NoSocket =>
           sock[a] # h /\ sockPort'[sock[a]] = sockPort[sock[a]]
    BY <2>1 DEF TableInv, TypeOK
  <2>6. \A a, b \in Slots : a # b /\ sock'[a] # NoSocket => sock'[a] # sock'[b]
    <3>1. h # NoSocket
      BY TransportAssumption
    <3> QED
      BY <2>3, <2>4, <2>5, <3>1 DEF TableInv
  <2>7. \A a \in Slots : sock'[a] # NoSocket
          => bound'[a] /\ sockPort'[sock'[a]] # Closed
    BY <2>3, <2>4, <2>5 DEF TableInv
  <2> QED
    BY <1>3, <1>4, <2>3, <2>6, <2>7 DEF TableInv
<1> QED
  BY <1>1, <1>5, <1>6, <1>7

LEMMA ShutdownTableInv ==
  ASSUME TypeOK, TableInv, ShutdownUDP
  PROVE  TableInv'
<1>1. \A s \in Slots : ~bound'[s] /\ (~connected'[s] \/ s < count)
  BY DEF ShutdownUDP, TableInv, TypeOK, Slots
<1>2. \A s \in Slots : sock'[s] = NoSocket
  BY DEF ShutdownUDP, TableInv
<1>3. inst' = inst /\ count' = count
  BY DEF ShutdownUDP
<1> QED
  BY <1>1, <1>2, <1>3 DEF TableInv, TypeOK, Slots

LEMMA NextTableInv ==
  ASSUME TypeOK, TableInv, [Next]_vars
  PROVE  TableInv'
<1>1. ASSUME NEW p \in Instances, NEW u \in Ports, SetupUDP(p, u)
      PROVE  TableInv'
  BY <1>1, SetupTableInv
<1>2. CASE ShutdownUDP
  BY <1>2, ShutdownTableInv
<1>3. CASE UNCHANGED <<count, inst, bound, connected, sock, sockPort>>
  BY <1>3 DEF TableInv
<1>4. ASSUME NEW p \in Instances, SetNetworkPortInstance(p)
      PROVE  TableInv'
  BY <1>3, <1>4 DEF SetNetworkPortInstance, osVars
<1>5. ASSUME NEW p \in Instances, SendIAm(p)
      PROVE  TableInv'
  BY <1>3, <1>5 DEF SendIAm, tableVars
<1>6. ASSUME NEW p \in Instances, NEW to \in Ports, Reply(p, to)
      PROVE  TableInv'
  BY <1>3, <1>6 DEF Reply, tableVars
<1>7. CASE Receive
  BY <1>3, <1>7 DEF Receive, BeginReceive, PollNothing, PollBlank, PollDatagram,
                    EndIdle, Consume, tableVars, osVars
<1>8. ASSUME NEW h \in Handles, NEW d \in {sockPort[h], Blank}, Arrive(h, d)
      PROVE  TableInv'
  BY <1>3, <1>8 DEF Arrive, tableVars
<1>9. CASE UNCHANGED vars
  BY <1>3, <1>9 DEF vars, tableVars, osVars
<1> QED
  BY <1>1, <1>2, <1>4, <1>5, <1>6, <1>7, <1>8, <1>9 DEF Next

---------------------------------------------------------------------------

LEMMA InitRingInv == Init => RingInv
BY TransportAssumption DEF Init, RingInv, Offset, Distance, Pending, Slots

\* A slot whose table entry, socket and queue are untouched waits as before.
LEMMA PendingSame ==
  ASSUME NEW s \in Slots,
         bound'[s] = bound[s], connected'[s] = connected[s], sock'[s] = sock[s],
         queue'[sock[s]] = queue[sock[s]]
  PROVE  Pending(s)' <=> Pending(s)
BY DEF Pending, Usable

\* Outside a scan, an application call that restarts the waits it ends and
\* adds at most the next slot keeps the accounting.
LEMMA CallRingInv ==
  ASSUME TypeOK, TableInv, RingInv,
         k = Idle, k' = k, next' = next,
         bypass' = StillWaiting(bypass),
         \/ count' = count
         \/ count' = count + 1 /\ count < MaxUdpBindings /\ ~Pending(count)
  PROVE  RingInv'
<1>1. \A s \in Slots : bypass'[s] = IF Pending(s)' THEN bypass[s] ELSE 0
  BY DEF StillWaiting
<1>2. \A s \in Slots : ~Pending(s)' => bypass'[s] = 0
  BY <1>1
<1>3. \A s \in Slots : bypass'[s] \in Nat /\ bypass'[s] <= bypass[s]
  BY <1>1, TransportAssumption DEF TypeOK
<1>4. CASE count' = count
  <2>1. \A s \in Slots : Offset(s)' = Offset(s)
    BY <1>4 DEF Offset, Distance
  <2>2. \A s \in Slots : Offset(s) \in Int
    BY DEF Offset, Distance, TypeOK, Slots
  <2>3. \A s \in Slots : s < count' => bypass'[s] + Offset(s)' <= count' - 1
    BY <1>3, <1>4, <2>1, <2>2 DEF RingInv, TypeOK
  <2> QED
    BY <1>2, <1>4, <2>3 DEF RingInv, Idle
<1>5. CASE count' = count + 1 /\ count < MaxUdpBindings /\ ~Pending(count)
  <2>1. count \in Slots /\ bypass[count] = 0 /\ next <= count
    BY <1>5, TransportAssumption DEF RingInv, Slots, TypeOK
  <2>2. ASSUME NEW s \in Slots, s < count'
        PROVE  bypass'[s] + Offset(s)' <= count' - 1
    <3>1. CASE s = count
      <4>1. bypass'[s] = 0
        BY <1>3, <2>1, <3>1 DEF TypeOK
      <4>2. Offset(s)' = s - next
        BY <2>1, <3>1, <1>5 DEF Offset, Distance, TypeOK
      <4> QED
        BY <4>1, <4>2, <3>1, <1>5 DEF TypeOK, Slots
    <3>2. CASE s < count
      <4>1. bypass[s] + Offset(s) <= count - 1
        BY <3>2 DEF RingInv
      <4>2. Offset(s)' <= Offset(s) + 1 /\ Offset(s) \in Int /\ Offset(s)' \in Int
        BY <1>5 DEF Offset, Distance, TypeOK, Slots
      <4> QED
        BY <4>1, <4>2, <1>3, <1>5 DEF TypeOK
    <3> QED
      BY <3>1, <3>2, <2>2, <1>5 DEF TypeOK, Slots
  <2>3. count' > 0 /\ next' < count'
    BY <1>5, <2>1 DEF TypeOK, Slots
  <2> QED
    BY <1>2, <2>2, <2>3 DEF RingInv, Idle
<1> QED
  BY <1>4, <1>5

LEMMA SetupRingInv ==
  ASSUME TypeOK, TableInv, RingInv,
         NEW p \in Instances, NEW u \in Ports, SetupUDP(p, u)
  PROVE  RingInv'
<1>1. PICK s \in Slots : SetupSlot(p, s)
  BY DEF SetupUDP, SetupNoSocket, SetupBindFails, SetupSucceeds
<1>2. \/ count' = count
      \/ count' = count + 1 /\ s = count
  BY <1>1, SetupSlotFacts
<1>3. count \in Slots => ~Pending(count)
  BY DEF TableInv, Pending, TypeOK
<1>4. s = count => count < MaxUdpBindings /\ count \in Slots
  BY TransportAssumption DEF Slots, TypeOK
<1>5. k = Idle /\ k' = k /\ next' = next /\ bypass' = StillWaiting(bypass)
  BY <1>1 DEF SetupSlot, SetupUDP, pollVars
<1> QED
  BY <1>2, <1>3, <1>4, <1>5, CallRingInv

\* An arrival at one socket only ever starts a wait.
LEMMA ArrivalRingInv ==
  ASSUME TypeOK, RingInv,
         UNCHANGED <<count, bound, sock, connected, next, k, bypass>>,
         \A h \in Handles : queue[h] # <<>> => queue'[h] # <<>>
  PROVE  RingInv'
<1>1. \A s \in Slots : Pending(s) => Pending(s)'
  BY DEF Pending, Usable, TypeOK
<1>2. \A s \in Slots : Offset(s)' = Offset(s)
  BY DEF Offset, Distance
<1> QED
  BY <1>1, <1>2 DEF RingInv

\* Taking the head of one slot's queue leaves the other slots' waits alone.
LEMMA ConsumeOthers ==
  ASSUME TypeOK, TableInv, NEW i \in Slots, Pending(i), Consume(i),
         UNCHANGED tableVars,
         NEW s \in Slots, s # i
  PROVE  Pending(s)' <=> Pending(s)
<1>1. sock[i] \in Handles /\ sock[i] # NoSocket
  BY DEF Pending, Usable, TypeOK
<1>2. queue' = [queue EXCEPT ![sock[i]] = Tail(@)]
  BY DEF Consume
<1>3. CASE sock[s] = NoSocket
  BY <1>3 DEF Pending, Usable, tableVars
<1>4. CASE sock[s] # NoSocket
  <2>1. sock[s] # sock[i] /\ sock[s] \in Handles
    BY <1>4 DEF TableInv, TypeOK
  <2>2. queue'[sock[s]] = queue[sock[s]]
    BY <1>2, <2>1 DEF TypeOK
  <2> QED
    BY <2>2, PendingSame DEF tableVars
<1> QED
  BY <1>3, <1>4

\* The polled slot is the k-th from where the scan started.
LEMMA PolledOffset ==
  ASSUME TypeOK, RingInv, k \in 0 .. count - 1
  PROVE  /\ Offset(Polled) = k
         /\ \A s \in Slots : s < count /\ s # Polled => Offset(s) # k
         /\ \A s \in Slots : s < count => Offset(s) \in 0 .. count - 1
BY TransportAssumption DEF TypeOK, RingInv, Polled, Wrap, Offset, Distance, Slots, Idle

LEMMA PollNothingRingInv ==
  ASSUME TypeOK, RingInv, PollNothing
  PROVE  RingInv'
<1>1. k \in 0 .. count - 1 /\ ~Pending(Polled) /\ k' = k + 1
  BY DEF PollNothing
<1>2. Polled \in Slots
  BY <1>1, PolledInTable
<1>3. /\ count' = count /\ next' = next /\ bypass' = bypass
      /\ \A s \in Slots : Pending(s)' <=> Pending(s)
      /\ \A s \in Slots : Offset(s)' = Offset(s)
  BY DEF PollNothing, tableVars, osVars, Pending, Usable, Offset, Distance
<1>4. ASSUME NEW s \in Slots, s < count, Offset(s) < k + 1
      PROVE  bypass[s] = 0
  <2>1. CASE s = Polled
    BY <1>1, <1>2, <2>1 DEF RingInv
  <2>2. CASE s # Polled
    <3>1. Offset(s) # k /\ Offset(s) \in 0 .. count - 1
      BY <1>1, <1>4, <2>2, PolledOffset
    <3>2. Offset(s) < k /\ k # Idle
      BY <1>1, <1>4, <3>1 DEF Idle
    <3> QED
      BY <1>4, <3>2 DEF RingInv
  <2> QED
    BY <2>1, <2>2
<1>5. k' # Idle /\ count > 0
  BY <1>1 DEF Idle, TypeOK
<1> QED
  BY <1>1, <1>3, <1>4, <1>5 DEF RingInv

LEMMA PollBlankRingInv ==
  ASSUME TypeOK, TableInv, RingInv, PollBlank
  PROVE  RingInv'
<1>1. /\ k \in 0 .. count - 1 /\ Pending(Polled) /\ k' = k + 1
      /\ Consume(Polled)
      /\ bypass' = [bypass EXCEPT ![Polled] = 0]
  BY DEF PollBlank
<1>2. Polled \in Slots
  BY <1>1, PolledInTable
<1>3. /\ count' = count /\ next' = next
      /\ \A s \in Slots : Offset(s)' = Offset(s)
  BY DEF PollBlank, tableVars, Offset, Distance
<1>4. bypass'[Polled] = 0 /\ \A s \in Slots : s # Polled => bypass'[s] = bypass[s]
  BY <1>1, <1>2 DEF TypeOK
<1>5. \A s \in Slots : s # Polled => (Pending(s)' <=> Pending(s))
  BY <1>1, <1>2, ConsumeOthers DEF PollBlank
<1>6. \A s \in Slots : ~Pending(s)' => bypass'[s] = 0
  BY <1>4, <1>5 DEF RingInv
<1>7. ASSUME NEW s \in Slots, s < count, Offset(s) < k + 1
      PROVE  bypass'[s] = 0
  <2>1. CASE s # Polled
    <3>1. Offset(s) # k /\ Offset(s) \in 0 .. count - 1
      BY <1>1, <1>7, <2>1, PolledOffset
    <3>2. Offset(s) < k /\ k # Idle
      BY <1>1, <1>7, <3>1 DEF Idle
    <3> QED
      BY <1>4, <1>7, <2>1, <3>2 DEF RingInv
  <2> QED
    BY <1>4, <2>1
<1>8. ASSUME NEW s \in Slots, s < count
      PROVE  bypass'[s] + Offset(s) <= count - 1
  <2>1. Offset(s) \in 0 .. count - 1
    BY <1>1, <1>8, PolledOffset
  <2>2. CASE s = Polled
    BY <1>4, <2>1, <2>2 DEF TypeOK
  <2>3. CASE s # Polled
    BY <1>4, <1>8, <2>3 DEF RingInv
  <2> QED
    BY <2>2, <2>3
<1>9. k' # Idle /\ count > 0
  BY <1>1 DEF Idle, TypeOK
<1> QED
  BY <1>1, <1>3, <1>6, <1>7, <1>8, <1>9 DEF RingInv

LEMMA PollDatagramRingInv ==
  ASSUME TypeOK, TableInv, RingInv, PollDatagram
  PROVE  RingInv'
<1>1. /\ k \in 0 .. count - 1 /\ Pending(Polled) /\ k' = Idle
      /\ Consume(Polled) /\ next' = Wrap(Polled + 1, count)
      /\ bypass' = [s \in Slots |-> IF s # Polled /\ Pending(s)
                                    THEN Bump(bypass[s]) ELSE 0]
  BY DEF PollDatagram, ServiceSlot
<1>2. Polled \in Slots /\ Polled \in 0 .. count - 1
  BY <1>1, PolledInTable
<1>3. count' = count /\ count > 0 /\ count \in Nat
  BY <1>1 DEF PollDatagram, tableVars, TypeOK
<1>4. next' \in 0 .. count - 1
  BY <1>1, <1>2, <1>3, WrapInRange
<1>5. \A s \in Slots : s # Polled => (Pending(s)' <=> Pending(s))
  BY <1>1, <1>2, ConsumeOthers DEF PollDatagram
<1>6. \A s \in Slots : ~Pending(s)' => bypass'[s] = 0
  BY <1>1, <1>5
<1>7. ASSUME NEW s \in Slots, s < count
      PROVE  bypass'[s] + Offset(s)' <= count - 1
  <2> s \in 0 .. count - 1
    BY <1>3, <1>7, TransportAssumption DEF Slots
  <2>1. Offset(s)' \in 0 .. count - 1
    BY <1>3, <1>4, DistanceInRange DEF Offset
  <2>2. CASE s = Polled \/ ~Pending(s)
    BY <1>1, <1>3, <2>1, <2>2
  <2>3. CASE s # Polled /\ Pending(s)
    <3>1. bypass'[s] <= bypass[s] + 1 /\ bypass'[s] \in Nat /\ bypass[s] \in Nat
      BY <1>1, <2>3, TransportAssumption DEF Bump, TypeOK
    <3>2. Offset(s) # k /\ Offset(s) \in 0 .. count - 1
      BY <1>1, <1>7, <2>3, PolledOffset
    <3>3. bypass[s] + Offset(s) <= count - 1
      BY <1>7 DEF RingInv
    <3>4. Offset(s) < k => bypass[s] = 0
      BY <1>1, <1>7 DEF RingInv, Idle
    <3>5. Offset(s)' = IF Offset(s) > k THEN Offset(s) - k - 1
                                        ELSE Offset(s) - k - 1 + count
      <4>1. next \in 0 .. count - 1
        BY <1>3, TransportAssumption DEF RingInv, TypeOK, Slots
      <4> QED
        BY <1>1, <1>3, <2>3, <4>1, DistanceAfterService DEF Offset, Polled
    <3> QED
      BY <1>1, <1>3, <3>1, <3>2, <3>3, <3>4, <3>5
  <2> QED
    BY <2>2, <2>3
<1> QED
  BY <1>1, <1>3, <1>4, <1>6, <1>7 DEF RingInv

LEMMA EndIdleRingInv ==
  ASSUME TypeOK, RingInv, EndIdle
  PROVE  RingInv'
<1>1. /\ k = count /\ k' = Idle /\ next' = Wrap(next + 1, count)
      /\ count' = count /\ bypass' = bypass
      /\ \A s \in Slots : Pending(s)' <=> Pending(s)
  BY DEF EndIdle, tableVars, osVars, Pending, Usable
<1>2. count > 0 /\ next \in 0 .. count - 1
  BY <1>1 DEF RingInv, TypeOK, Idle, Slots
<1>3. next' \in 0 .. count - 1
  BY <1>1, <1>2, WrapInRange DEF TypeOK
<1>4. \A s \in Slots : s < count => Offset(s) < k /\ k # Idle
  BY <1>1, <1>2 DEF Offset, Distance, Slots, Idle, TypeOK
<1>5. \A s \in Slots : s < count => bypass[s] = 0
  BY <1>4 DEF RingInv
<1>6. \A s \in Slots : s < count => Offset(s)' <= count - 1 /\ Offset(s)' \in Int
  BY <1>1, <1>3 DEF Offset, Distance, Slots, TypeOK
<1>7. \A s \in Slots : s < count' => bypass'[s] + Offset(s)' <= count' - 1
  BY <1>1, <1>5, <1>6
<1> QED
  BY <1>1, <1>2, <1>3, <1>7 DEF RingInv, TypeOK, Idle

LEMMA NextRingInv ==
  ASSUME TypeOK, TableInv, RingInv, [Next]_vars
  PROVE  RingInv'
<1>1. ASSUME NEW p \in Instances, NEW u \in Ports, SetupUDP(p, u)
      PROVE  RingInv'
  BY <1>1, SetupRingInv
<1>2. CASE ShutdownUDP
  BY <1>2, CallRingInv DEF ShutdownUDP, pollVars
<1>3. CASE UNCHANGED <<count, bound, sock, connected, next, k, bypass, queue>>
  BY <1>3, ArrivalRingInv
<1>4. ASSUME NEW p \in Instances, SetNetworkPortInstance(p)
      PROVE  RingInv'
  BY <1>3, <1>4 DEF SetNetworkPortInstance, pollVars, osVars
<1>5. ASSUME NEW p \in Instances, NEW to, NEW b, HelperSendMessage(p, to, b),
             UNCHANGED <<tableVars, pollVars, bypass>>
      PROVE  RingInv'
  <2>1. CASE Loopback(to)
    <3>1. ASSUME NEW h \in Handles, queue[h] # <<>>
          PROVE  queue'[h] # <<>>
      <4>1. queue'[h] = queue[h] \/ queue'[h] = Append(queue[h], to)
        BY <2>1 DEF Loopback
      <4>2. queue[h] \in Seq(Nat)
        BY DEF TypeOK
      <4>3. Len(Append(queue[h], to)) = Len(queue[h]) + 1 /\ Len(queue[h]) \in Nat
        BY <4>2
      <4> QED
        BY <3>1, <4>1, <4>3
    <3> QED
      BY <1>5, <3>1, ArrivalRingInv DEF tableVars, pollVars
  <2> QED
    BY <1>3, <1>5, <2>1 DEF HelperSendMessage, tableVars, pollVars
<1>6. ASSUME NEW p \in Instances, SendIAm(p) PROVE RingInv'
  BY <1>5, <1>6 DEF SendIAm
<1>7. ASSUME NEW p \in Instances, NEW to \in Ports, Reply(p, to) PROVE RingInv'
  BY <1>5, <1>7 DEF Reply
<1>8. CASE BeginReceive
  <2>1. /\ count' = count /\ next' = next /\ bypass' = bypass /\ k' = 0 /\ count > 0
        /\ \A s \in Slots : Pending(s)' <=> Pending(s)
        /\ \A s \in Slots : Offset(s)' = Offset(s)
    BY <1>8 DEF BeginReceive, tableVars, osVars, Pending, Usable, Offset, Distance
  <2>2. \A s \in Slots : s < count => Offset(s) >= 0
    BY <2>1, TransportAssumption DEF Offset, Distance, TypeOK, Slots, RingInv
  <2>3. \A s \in Slots : Offset(s) \in Int
    BY DEF Offset, Distance, TypeOK, Slots
  <2> QED
    BY <2>1, <2>2, <2>3 DEF RingInv, TypeOK
<1>9. CASE PollNothing
  BY <1>9, PollNothingRingInv
<1>10. CASE PollBlank
  BY <1>10, PollBlankRingInv
<1>11. CASE PollDatagram
  BY <1>11, PollDatagramRingInv
<1>12. CASE EndIdle
  BY <1>12, EndIdleRingInv
<1>13. ASSUME NEW h \in Handles, NEW d \in {sockPort[h], Blank}, Arrive(h, d)
       PROVE  RingInv'
  <2>1. \A g \in Handles : queue[g] # <<>> => queue'[g] # <<>>
    BY <1>13 DEF Arrive, TypeOK
  <2> QED
    BY <1>13, <2>1, ArrivalRingInv DEF Arrive, tableVars, pollVars
<1>14. CASE UNCHANGED vars
  BY <1>3, <1>14 DEF vars, tableVars, pollVars, osVars
<1> QED
  BY <1>1, <1>2, <1>4, <1>6, <1>7, <1>8, <1>9, <1>10, <1>11, <1>12, <1>13, <1>14
     DEF Next, Receive

---------------------------------------------------------------------------

\* IInv is an inductive invariant of the transport.
THEOREM Inductive == Spec => []IInv
<1>1. Init => IInv
  BY InitTypeOK, InitTableInv, InitRingInv DEF IInv
<1>2. IInv /\ [Next]_vars => IInv'
  BY NextTypeOK, NextTableInv, NextRingInv DEF IInv
<1> QED
  BY <1>1, <1>2, PTL DEF Spec

\* Type correctness of the binding table, the poll position, the sockets and
\* the history of waits.
THEOREM TypeCorrect == Spec => []TypeOK
<1>1. IInv => TypeOK
  BY DEF IInv
<1> QED
  BY <1>1, Inductive, PTL

\* A bound socket with something queued is passed over at most count - 1
\* times: one busy port cannot starve another.
THEOREM NoSocketStarves == Spec => []BypassBound
<1>1. IInv => BypassBound
  <2> SUFFICES ASSUME IInv, NEW s \in Slots, Pending(s)
               PROVE  bypass[s] <= count - 1
    BY DEF BypassBound
  <2>1. s < count
    BY DEF IInv, TableInv, Pending, Slots, TypeOK
  <2>2. bypass[s] + Offset(s) <= count - 1
    BY <2>1 DEF IInv, RingInv
  <2>3. Offset(s) \in Nat /\ bypass[s] \in Nat
    BY <2>1, TransportAssumption DEF IInv, RingInv, TypeOK, Offset, Distance, Slots
  <2> QED
    BY <2>2, <2>3 DEF IInv, TypeOK
<1> QED
  BY <1>1, Inductive, PTL

\* Instances name slots uniquely and open sockets are never shared.
THEOREM TableIsKeyed == Spec => []TableKeyed
<1>1. IInv => TableKeyed
  <2>1. TypeOK => \A s \in 0 .. count - 1 : s \in Slots /\ s < count
    BY TransportAssumption DEF TypeOK, Slots
  <2> QED
    BY <2>1 DEF IInv, TableInv, TableKeyed
<1> QED
  BY <1>1, Inductive, PTL

---------------------------------------------------------------------------
(* What is in the sockets, and who they belong to. *)

\* An open socket is bound to its slot's port, and only datagrams sent to that
\* port wait in it.
SocketInv ==
  /\ \A s \in Slots : sock[s] # NoSocket =>
       connected[s] /\ sockPort[sock[s]] = port[s]
  /\ \A h \in Handles : sockPort[h] = Closed => queue[h] = <<>>
  /\ \A h \in Handles : \A i \in 1 .. Len(queue[h]) :
       queue[h][i] \in {Blank, sockPort[h]}

\* The tail of a queue.
LEMMA TailFacts ==
  ASSUME NEW q \in Seq(Nat), q # <<>>
  PROVE  /\ Len(q) \in Nat \ {0}
         /\ Len(Tail(q)) = Len(q) - 1
         /\ \A i \in 1 .. Len(Tail(q)) : Tail(q)[i] = q[i + 1]
<1>1. Len(q) \in Nat /\ Len(q) # 0
  OBVIOUS
<1>2. Len(Tail(q)) = Len(q) - 1
  BY <1>1
<1>3. \A i \in 1 .. Len(Tail(q)) : Tail(q)[i] = q[i + 1]
  BY <1>1, <1>2
<1> QED
  BY <1>1, <1>2, <1>3

LEMMA TailDiffers ==
  ASSUME NEW q \in Seq(Nat), q # <<>>
  PROVE  Tail(q) # q
<1>1. ASSUME Tail(q) = q PROVE FALSE
  <2>1. Len(Tail(q)) = Len(q)
    BY <1>1
  <2> QED
    BY <2>1, TailFacts
<1> QED
  BY <1>1

LEMMA InitSocketInv == Init => SocketInv
BY DEF Init, SocketInv

\* The lookup by instance is a function.
LEMMA FindsOnce ==
  ASSUME NEW p, NEW s \in Slots, NEW t \in Slots, Finds(p, s), Finds(p, t)
  PROVE  s = t
BY DEF Finds, Slots

\* A broadcast I-Am of an instance with a usable socket goes to the port that
\* socket is bound to.
LEMMA IAmPortIsOwn ==
  ASSUME TypeOK, TableInv, SocketInv, NEW p, NEW s \in Slots,
         Finds(p, s), bound[s], Usable(s)
  PROVE  /\ IAmPort(p) = port[s]
         /\ sockPort[sock[s]] = port[s]
         /\ port[s] # Closed
<1>1. (CHOOSE t \in Slots : Finds(p, t)) = s
  BY FindsOnce
<1>2. IAmPort(p) = port[s]
  BY <1>1 DEF IAmPort
<1> QED
  BY <1>2 DEF SocketInv, TableInv, Usable

\* Every datagram appended is one sent to the port of its socket.
LEMMA AppendSocketInv ==
  ASSUME TypeOK, SocketInv, NEW d \in Nat,
         UNCHANGED <<sock, connected, port, sockPort>>,
         \A h \in Handles :
           \/ queue'[h] = queue[h]
           \/ /\ sockPort[h] # Closed
              /\ d \in {Blank, sockPort[h]}
              /\ queue'[h] = Append(queue[h], d)
  PROVE  SocketInv'
<1>1. ASSUME NEW h \in Handles, NEW i \in 1 .. Len(queue'[h])
      PROVE  queue'[h][i] \in {Blank, sockPort[h]}
  <2>1. queue[h] \in Seq(Nat)
    BY DEF TypeOK
  <2>2. CASE queue'[h] = queue[h]
    BY <2>2 DEF SocketInv
  <2>3. CASE /\ sockPort[h] # Closed
             /\ d \in {Blank, sockPort[h]}
             /\ queue'[h] = Append(queue[h], d)
    <3>1. i \in 1 .. Len(queue[h]) + 1
      BY <2>1, <2>3
    <3>2. CASE i = Len(queue[h]) + 1
      BY <2>1, <2>3, <3>2
    <3>3. CASE i \in 1 .. Len(queue[h])
      <4>1. queue'[h][i] = queue[h][i]
        BY <2>1, <2>3, <3>3
      <4> QED
        BY <4>1, <3>3 DEF SocketInv
    <3> QED
      BY <2>1, <3>1, <3>2, <3>3
  <2> QED
    BY <2>2, <2>3
<1>2. \A h \in Handles : sockPort'[h] = Closed => queue'[h] = <<>>
  BY DEF SocketInv
<1> QED
  BY <1>1, <1>2 DEF SocketInv

\* Taking the head of a queue leaves the rest as it was.
LEMMA ConsumeSocketInv ==
  ASSUME TypeOK, SocketInv, NEW s \in Slots, Pending(s), Consume(s),
         UNCHANGED tableVars
  PROVE  SocketInv'
<1>1. /\ sock[s] \in Handles
      /\ queue[sock[s]] \in Seq(Nat) /\ queue[sock[s]] # <<>>
  BY DEF Pending, Usable, TypeOK
<1>2. /\ sockPort' = sockPort
      /\ queue'[sock[s]] = Tail(queue[sock[s]])
      /\ \A h \in Handles : h # sock[s] => queue'[h] = queue[h]
  BY <1>1 DEF Consume, TypeOK
<1>3. sockPort[sock[s]] # Closed
  BY <1>1 DEF SocketInv
<1>4. ASSUME NEW h \in Handles, NEW i \in 1 .. Len(queue'[h])
      PROVE  queue'[h][i] \in {Blank, sockPort[h]}
  <2>1. CASE h # sock[s]
    BY <1>2, <2>1 DEF SocketInv
  <2>2. CASE h = sock[s]
    <3>1. i + 1 \in 1 .. Len(queue[h]) /\ queue'[h][i] = queue[h][i + 1]
      <4> DEFINE q == queue[h]
      <4>1. q \in Seq(Nat) /\ q # <<>> /\ queue'[h] = Tail(q)
        BY <1>1, <1>2, <2>2
      <4>2. i \in 1 .. Len(Tail(q)) /\ Len(q) \in Nat /\ Len(Tail(q)) = Len(q) - 1
        BY <4>1, TailFacts
      <4>3. Tail(q)[i] = q[i + 1]
        BY <4>1, <4>2, TailFacts
      <4> QED
        BY <4>1, <4>2, <4>3
    <3> QED
      BY <3>1 DEF SocketInv
  <2> QED
    BY <2>1, <2>2
<1>5. \A h \in Handles : sockPort'[h] = Closed => queue'[h] = <<>>
  BY <1>2, <1>3 DEF SocketInv
<1> QED
  BY <1>2, <1>4, <1>5 DEF SocketInv, tableVars

LEMMA SetupSocketInv ==
  ASSUME TypeOK, TableInv, SocketInv, NEW p \in Instances, NEW u \in Ports,
         SetupUDP(p, u)
  PROVE  SocketInv'
<1>1. PICK s \in Slots : \/ SetupNoSocket(p, s)
                         \/ SetupBindFails(p, s)
                         \/ SetupSucceeds(p, s, u)
  BY DEF SetupUDP
<1>2. CASE SetupNoSocket(p, s) \/ SetupBindFails(p, s)
  <2>1. /\ UNCHANGED <<port, sockPort, queue>>
        /\ \A t \in Slots : sock'[t] # NoSocket =>
             sock'[t] = sock[t] /\ connected'[t] = connected[t]
    BY <1>2 DEF SetupNoSocket, SetupBindFails, osVars, TypeOK
  <2> QED
    BY <2>1 DEF SocketInv
<1>3. CASE SetupSucceeds(p, s, u)
  <2>1. PICK h \in Handles :
          /\ sockPort[h] = Closed
          /\ sockPort' = [sockPort EXCEPT ![h] = u]
          /\ queue' = [queue EXCEPT ![h] = <<>>]
          /\ sock' = [sock EXCEPT ![s] = h]
    BY <1>3 DEF SetupSucceeds
  <2>2. /\ connected' = [connected EXCEPT ![s] = TRUE]
        /\ port' = [port EXCEPT ![s] = u]
    BY <1>3 DEF SetupSucceeds
  <2>3. \A g \in Handles : g # h => sockPort'[g] = sockPort[g] /\ queue'[g] = queue[g]
    BY <2>1 DEF TypeOK
  <2>4. sockPort'[h] = u /\ queue'[h] = <<>>
    BY <2>1 DEF TypeOK
  <2>5. ASSUME NEW t \in Slots, sock'[t] # NoSocket
        PROVE  connected'[t] /\ sockPort'[sock'[t]] = port'[t]
    <3>1. CASE t = s
      BY <2>1, <2>2, <2>4, <3>1 DEF TypeOK
    <3>2. CASE t # s
      <4>1. sock'[t] = sock[t] /\ connected'[t] = connected[t] /\ port'[t] = port[t]
        BY <2>1, <2>2, <3>2 DEF TypeOK
      <4>2. sock[t] \in Handles /\ sock[t] # h
        BY <2>1, <2>5, <4>1 DEF TableInv, TypeOK
      <4> QED
        BY <2>3, <2>5, <4>1, <4>2 DEF SocketInv
    <3> QED
      BY <3>1, <3>2
  <2>6. u # Closed
    BY TransportAssumption DEF Closed
  <2> QED
    BY <2>3, <2>4, <2>5, <2>6 DEF SocketInv
<1> QED
  BY <1>1, <1>2, <1>3

LEMMA NextSocketInv ==
  ASSUME TypeOK, TableInv, RingInv, SocketInv, [Next]_vars
  PROVE  SocketInv'
<1>1. ASSUME NEW p \in Instances, NEW u \in Ports, SetupUDP(p, u)
      PROVE  SocketInv'
  BY <1>1, SetupSocketInv
<1>2. CASE ShutdownUDP
  <2>1. \A s \in Slots : sock'[s] = NoSocket
    BY <1>2 DEF ShutdownUDP, TableInv
  <2>2. \A h \in Handles :
          \/ sockPort'[h] = Closed /\ queue'[h] = <<>>
          \/ sockPort'[h] = sockPort[h] /\ queue'[h] = queue[h]
    BY <1>2 DEF ShutdownUDP, CloseSockets
  <2> QED
    BY <2>1, <2>2 DEF SocketInv
<1>3. CASE UNCHANGED <<sock, connected, port, sockPort, queue>>
  BY <1>3 DEF SocketInv
<1>4. ASSUME NEW p \in Instances, SetNetworkPortInstance(p)
      PROVE  SocketInv'
  BY <1>3, <1>4 DEF SetNetworkPortInstance, osVars
<1>5. ASSUME NEW p \in Instances, SendIAm(p)
      PROVE  SocketInv'
  <2>1. PICK s \in Slots : Finds(p, s) /\ bound[s] /\ Usable(s)
    BY <1>5 DEF SendIAm, HelperSendMessage
  <2>2. IAmPort(p) \in Nat /\ IAmPort(p) # Closed
    <3>1. port[s] \in Ports \cup {0}
      BY DEF TypeOK
    <3> QED
      BY <2>1, <3>1, IAmPortIsOwn, PortsAreNumbers
  <2>3. Loopback(IAmPort(p)) /\ UNCHANGED <<sock, connected, port, sockPort>>
    BY <1>5 DEF SendIAm, HelperSendMessage, tableVars
  <2> QED
    BY <2>2, <2>3, AppendSocketInv DEF Loopback
<1>6. ASSUME NEW p \in Instances, NEW to \in Ports, Reply(p, to)
      PROVE  SocketInv'
  BY <1>3, <1>6 DEF Reply, HelperSendMessage, tableVars
<1>7. CASE BeginReceive \/ PollNothing \/ EndIdle
  BY <1>3, <1>7 DEF BeginReceive, PollNothing, EndIdle, tableVars, osVars
<1>8. CASE PollBlank \/ PollDatagram
  <2>1. /\ Polled \in Slots /\ Pending(Polled) /\ Consume(Polled)
        /\ UNCHANGED tableVars
    BY <1>8, PolledInTable DEF PollBlank, PollDatagram
  <2> QED
    BY <2>1, ConsumeSocketInv
<1>9. ASSUME NEW h \in Handles, NEW d \in {sockPort[h], Blank}, Arrive(h, d)
      PROVE  SocketInv'
  <2>1. d \in Nat
    BY PortsAreNumbers DEF TypeOK, Blank, Closed
  <2>2. \A g \in Handles :
          \/ queue'[g] = queue[g]
          \/ /\ sockPort[g] # Closed
             /\ d \in {Blank, sockPort[g]}
             /\ queue'[g] = Append(queue[g], d)
    BY <1>9 DEF Arrive, TypeOK
  <2>3. UNCHANGED <<sock, connected, port, sockPort>>
    BY <1>9 DEF Arrive, tableVars
  <2> QED
    BY <2>1, <2>2, <2>3, AppendSocketInv
<1>10. CASE UNCHANGED vars
  BY <1>3, <1>10 DEF vars, tableVars, osVars
<1> QED
  BY <1>1, <1>2, <1>4, <1>5, <1>6, <1>7, <1>8, <1>9, <1>10 DEF Next, Receive

\* Sockets are bound to the ports the table says, and hold only what was sent
\* to them.
LEMMA SocketsHoldTheirOwn == Spec => []SocketInv
<1>1. Init => SocketInv
  BY InitSocketInv
<1>2. IInv /\ SocketInv /\ [Next]_vars => SocketInv'
  BY NextSocketInv DEF IInv
<1> QED
  BY <1>1, <1>2, Inductive, PTL DEF Spec

LEMMA NextStays ==
  ASSUME TypeOK, TableInv, SocketInv, StaysOnOwnNetwork, [Next]_vars
  PROVE  StaysOnOwnNetwork'
<1>1. CASE sent' = NoSend
  BY <1>1 DEF StaysOnOwnNetwork
<1>2. CASE UNCHANGED <<sent, count, inst, port>>
  BY <1>2 DEF StaysOnOwnNetwork, Finds
<1>3. ASSUME NEW p \in Instances, NEW to, NEW b \in BOOLEAN,
             HelperSendMessage(p, to, b), b => to = IAmPort(p), UNCHANGED tableVars
      PROVE  StaysOnOwnNetwork'
  <2>1. PICK s \in Slots :
          /\ Finds(p, s) /\ bound[s] /\ Usable(s)
          /\ sent' = [by |-> p, from |-> sockPort[sock[s]], to |-> to, broadcast |-> b]
    BY <1>3 DEF HelperSendMessage
  <2>2. sent'.from = port[s] /\ (sent'.broadcast => sent'.to = port[s])
    BY <1>3, <2>1, IAmPortIsOwn
  <2>3. Finds(p, s)' /\ port'[s] = port[s] /\ sent'.by = p
    BY <1>3, <2>1 DEF Finds, tableVars
  <2> QED
    BY <2>2, <2>3 DEF StaysOnOwnNetwork, Finds
<1>4. ASSUME NEW p \in Instances, NEW u \in Ports, SetupUDP(p, u)
      PROVE  StaysOnOwnNetwork'
  BY <1>1, <1>4 DEF SetupUDP
<1>5. ASSUME NEW p \in Instances, SetNetworkPortInstance(p)
      PROVE  StaysOnOwnNetwork'
  BY <1>1, <1>5 DEF SetNetworkPortInstance
<1>6. ASSUME NEW p \in Instances, SendIAm(p)
      PROVE  StaysOnOwnNetwork'
  BY <1>3, <1>6 DEF SendIAm
<1>7. ASSUME NEW p \in Instances, NEW to \in Ports, Reply(p, to)
      PROVE  StaysOnOwnNetwork'
  BY <1>3, <1>7 DEF Reply
<1>8. CASE ShutdownUDP
  BY <1>1, <1>8 DEF ShutdownUDP
<1>9. CASE Receive
  BY <1>1, <1>2, <1>9 DEF Receive, BeginReceive, PollNothing, PollBlank,
                          PollDatagram, EndIdle, tableVars
<1>10. ASSUME NEW h \in Handles, NEW d \in {sockPort[h], Blank}, Arrive(h, d)
       PROVE  StaysOnOwnNetwork'
  BY <1>2, <1>10 DEF Arrive, tableVars
<1>11. CASE UNCHANGED vars
  BY <1>2, <1>11 DEF vars, tableVars
<1> QED
  BY <1>4, <1>5, <1>6, <1>7, <1>8, <1>9, <1>10, <1>11 DEF Next

\* Whatever is sent for an instance leaves by that instance's own UDP port, and
\* a broadcast is addressed to it, for any number of networks.
THEOREM NetworksKeptApart == Spec => []StaysOnOwnNetwork
<1>1. Init => StaysOnOwnNetwork
  BY DEF Init, StaysOnOwnNetwork
<1>2. IInv /\ SocketInv /\ StaysOnOwnNetwork /\ [Next]_vars => StaysOnOwnNetwork'
  BY NextStays DEF IInv
<1> QED
  BY <1>1, <1>2, Inductive, SocketsHoldTheirOwn, PTL DEF Spec

\* The slot found for the instance of a slot in use is that slot.
LEMMA FindsItself ==
  ASSUME TableInv, NEW s \in Slots, s < count, count \in Nat
  PROVE  Finds(inst[s], s)
BY DEF TableInv, Finds, Slots

LEMMA ReportsItsLink ==
  ASSUME TypeOK, TableInv, RingInv, SocketInv, Next, pollVars' # pollVars,
         NEW h \in Handles,
         queue[h] # <<>>, Head(queue[h]) # Blank, queue'[h] = Tail(queue[h])
  PROVE  \E s \in Slots : Finds(reported', s) /\ port[s] = Head(queue[h])
<1>1. queue'[h] # queue[h]
  BY TailDiffers DEF TypeOK
<1>2. Receive
  BY DEF Next, SetupUDP, ShutdownUDP, SetNetworkPortInstance, SendIAm, Reply,
         Arrive, pollVars
<1>3. PollBlank \/ PollDatagram
  BY <1>1, <1>2 DEF Receive, BeginReceive, PollNothing, EndIdle, osVars
<1>4. /\ Polled \in Slots /\ Polled < count /\ count \in Nat
      /\ Pending(Polled) /\ Consume(Polled)
  BY <1>3, PolledInTable DEF PollBlank, PollDatagram, TypeOK
<1>5. h = sock[Polled]
  BY <1>1, <1>4 DEF Consume, Pending, Usable, TypeOK
<1>6. PollDatagram
  BY <1>3, <1>5 DEF PollBlank
<1>7. reported' = inst[Polled]
  BY <1>6 DEF PollDatagram, ServiceSlot
<1>8. Finds(reported', Polled)
  BY <1>4, <1>7, FindsItself
<1>9. port[Polled] = Head(queue[h])
  <2>1. queue[h] \in Seq(Nat) /\ 1 \in 1 .. Len(queue[h]) /\ Head(queue[h]) = queue[h][1]
    BY DEF TypeOK
  <2>2. Head(queue[h]) = sockPort[h]
    BY <2>1 DEF SocketInv
  <2> QED
    BY <1>4, <1>5, <2>2 DEF SocketInv, Pending, Usable
<1> QED
  BY <1>4, <1>8, <1>9

\* A datagram is reported under the instance bound to the port it was sent to,
\* however deliveries interleave with the scan and whatever failed before.
THEOREM DatagramsAttributed == Spec => Attribution
<1>1. ASSUME IInv, SocketInv, [Next]_vars
      PROVE  [\A h \in Handles :
                /\ queue[h] # <<>>
                /\ Head(queue[h]) # Blank
                /\ queue'[h] = Tail(queue[h])
                => \E s \in Slots : /\ Finds(reported', s)
                                    /\ port[s] = Head(queue[h])]_pollVars
  BY <1>1, ReportsItsLink DEF IInv, vars
<1> QED
  BY <1>1, Inductive, SocketsHoldTheirOwn, PTL DEF Spec, Attribution

\* A set-up that does not work on a bound slot loses no open socket.
LEMMA SetupOwned ==
  ASSUME TypeOK, SocketsOwned, NEW p \in Instances, NEW u \in Ports, SetupUDP(p, u),
         \A s \in Slots : SetupSlot(p, s) => ~bound[s]
  PROVE  SocketsOwned'
<1>1. PICK s \in Slots : \/ SetupNoSocket(p, s)
                         \/ SetupBindFails(p, s)
                         \/ SetupSucceeds(p, s, u)
  BY DEF SetupUDP
<1>2. ~bound[s]
  BY <1>1 DEF SetupNoSocket, SetupBindFails, SetupSucceeds
<1>3. CASE SetupNoSocket(p, s) \/ SetupBindFails(p, s)
  <2>1. /\ bound' = bound /\ sockPort' = sockPort
        /\ sock' = [sock EXCEPT ![s] = NoSocket]
    BY <1>3 DEF SetupNoSocket, SetupBindFails, osVars
  <2> QED
    BY <1>2, <2>1 DEF SocketsOwned, TypeOK
<1>4. CASE SetupSucceeds(p, s, u)
  <2>1. PICK h \in Handles :
          /\ sockPort' = [sockPort EXCEPT ![h] = u]
          /\ sock' = [sock EXCEPT ![s] = h]
    BY <1>4 DEF SetupSucceeds
  <2>2. bound' = [bound EXCEPT ![s] = TRUE]
    BY <1>4 DEF SetupSucceeds
  <2> QED
    BY <1>2, <2>1, <2>2 DEF SocketsOwned, TypeOK
<1> QED
  BY <1>1, <1>3, <1>4

LEMMA ShutdownOwned ==
  ASSUME SocketsOwned, ShutdownUDP
  PROVE  SocketsOwned'
BY DEF ShutdownUDP, CloseSockets, SocketsOwned

LEMMA SameOwned ==
  ASSUME SocketsOwned, UNCHANGED <<sockPort, bound, sock>>
  PROVE  SocketsOwned'
BY DEF SocketsOwned

\* A scan, a delivery and a change of the current instance leave the sockets and
\* their slots alone.
LEMMA SocketsStay ==
  ASSUME \/ \E p : SetNetworkPortInstance(p)
         \/ Receive
         \/ \E h, d : Arrive(h, d)
         \/ UNCHANGED vars
  PROVE  UNCHANGED <<count, inst, port, bound, sock, connected, sockPort>>
BY DEF SetNetworkPortInstance, Receive, BeginReceive, PollNothing, PollBlank,
       PollDatagram, EndIdle, Consume, Arrive, vars, tableVars, osVars

LEMMA NextOwned ==
  ASSUME ~Rebind, TypeOK, TableInv, SocketsOwned, [Next]_vars
  PROVE  SocketsOwned'
<1>1. ASSUME NEW p \in Instances, NEW u \in Ports, SetupUDP(p, u)
      PROVE  SocketsOwned'
  <2>1. \A s \in Slots : SetupSlot(p, s) => ~bound[s]
    BY DEF SetupSlot, TableInv, TypeOK
  <2> QED
    BY <1>1, <2>1, SetupOwned
<1>2. CASE ShutdownUDP
  BY <1>2, ShutdownOwned
<1>3. ASSUME NEW p \in Instances, SendIAm(p)
      PROVE  SocketsOwned'
  BY <1>3, SameOwned DEF SendIAm, tableVars
<1>4. ASSUME NEW p \in Instances, NEW to \in Ports, Reply(p, to)
      PROVE  SocketsOwned'
  BY <1>4, SameOwned DEF Reply, tableVars
<1>5. CASE \/ \E p \in Instances : SetNetworkPortInstance(p)
           \/ Receive
           \/ \E h \in Handles : \E d \in {sockPort[h], Blank} : Arrive(h, d)
           \/ UNCHANGED vars
  BY <1>5, SocketsStay, SameOwned
<1> QED
  BY <1>1, <1>2, <1>3, <1>4, <1>5 DEF Next

\* When the application sets each instance up once, as SetupUDP asks ("Call once
\* per port", CASExampleHelper.h), every open socket is one that ShutdownUDP will
\* close, after any failures.  With Rebind it is false: Connect overwrites an
\* open handle.
THEOREM NoSocketIsLost == ~Rebind /\ Spec => []SocketsOwned
<1>1. Init => SocketsOwned
  BY DEF Init, SocketsOwned
<1>2. ASSUME ~Rebind
      PROVE  IInv /\ SocketsOwned /\ [Next]_vars => SocketsOwned'
  BY <1>2, NextOwned DEF IInv
<1>3. ASSUME ~Rebind
      PROVE  Spec => []SocketsOwned
  BY <1>1, <1>2, <1>3, Inductive, PTL DEF Spec
<1> QED
  BY <1>3

=============================================================================
