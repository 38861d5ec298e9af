------------------------- MODULE RouterLoop_proofs -------------------------
(***************************************************************************)
(* Proofs about RouterLoop, for any number of sockets and slots: main()    *)
(* uses the transport as its module allows, so what is proved of           *)
(* UdpTransport holds of the whole program; a Tick that ends has looked    *)
(* for everything that was there; and 'q' leaves no socket open.           *)
(***************************************************************************)
EXTENDS RouterLoop, UdpTransport_proofs

\* Where main() is, and what it has told the transport by then: a scan runs
\* only inside a Tick, every bound slot has the port of its instance, and each
\* SetupUDP is the first for its instance.
LoopInv ==
  /\ todo \in Seq(Both)
  /\ pc # "tick" => k = Idle
  /\ \A s \in Slots : bound[s] => inst[s] \in Both /\ port[s] = PortOf[inst[s]]
  /\ pc \in {"current", "bind1"} => count = 0
  /\ pc = "bind2" => \A s \in Slots : s < count => inst[s] = 1
  /\ pc = "exited" => \A s \in Slots : ~bound[s]

\* While a scan runs, what was there before it began waits in a socket whose
\* slot the scan has not come to.
WaitInv ==
  k # Idle =>
    \A h \in Handles :
      /\ waited[h] \in 0 .. Len(queue[h])
      /\ waited[h] > 0 =>
           \E s \in Slots : s < count /\ bound[s] /\ sock[s] = h /\ Offset(s) >= k

LoopIInv == IInv /\ SocketInv /\ SocketsOwned /\ LoopInv /\ WaitInv

---------------------------------------------------------------------------
(* Every step of the program is one of the transport, or none. *)

\* A router message is addressed to the port of main()'s own copy, which is the
\* one the transport's table has.
LEMMA RouterMessageIsIAm ==
  ASSUME TypeOK, TableInv, SocketInv, LoopInv, NEW p \in Instances, k = Idle,
         HelperSendMessage(p, RouterPort(p), TRUE),
         UNCHANGED <<tableVars, pollVars, sockPort, bypass>>
  PROVE  SendIAm(p)
<1>1. PICK s \in Slots : Finds(p, s) /\ bound[s] /\ Usable(s)
  BY DEF HelperSendMessage
<1>2. inst[s] = p /\ port[s] = PortOf[p]
  BY <1>1 DEF LoopInv, Finds
<1>3. IAmPort(p) = RouterPort(p)
  BY <1>1, <1>2, IAmPortIsOwn DEF RouterPort
<1> QED
  BY <1>3 DEF SendIAm

LEMMA StepOfTransport ==
  ASSUME TypeOK, TableInv, SocketInv, LoopInv, [LoopNext]_allVars
  PROVE  [Next]_vars
<1>1. Instances = Both /\ 1 \in Both /\ 2 \in Both
  BY LoopAssumption DEF Both
<1>2. CASE MakeCurrent
  BY <1>1, <1>2 DEF MakeCurrent, Next
<1>3. ASSUME NEW here, NEW p \in Both, NEW there, Bind(here, p, there)
      PROVE  [Next]_vars
  <2>1. PortOf[p] \in Ports
    BY LoopAssumption
  <2> QED
    BY <1>1, <1>3, <2>1 DEF Bind, Next
<1>4. CASE Announce
  <2>1. Head(todo) \in Instances
    BY <1>1, <1>4 DEF Announce, LoopInv
  <2>2. k = Idle
    BY <1>4 DEF Announce, LoopInv
  <2>3. SendIAm(Head(todo)) \/ UNCHANGED vars
    BY <1>4, <2>1, <2>2, RouterMessageIsIAm DEF Announce
  <2> QED
    BY <2>1, <2>3 DEF Next
<1>5. CASE TickReceives
  BY <1>5 DEF TickReceives, Next
<1>6. CASE TickReplies
  <2>1. reported \in Instances
    BY <1>6 DEF TickReplies, TypeOK
  <2> QED
    BY <1>6, <2>1 DEF TickReplies, Next
<1>7. CASE Quit
  BY <1>7 DEF Quit, Next
<1>8. CASE Delivered
  BY <1>8 DEF Delivered, Next
<1>9. CASE Configure \/ Poll \/ Calm \/ Press \/ Exited \/ UNCHANGED allVars
  BY <1>9 DEF Configure, Poll, Calm, Press, Exited, allVars
<1> QED
  BY <1>1, <1>2, <1>3, <1>4, <1>5, <1>6, <1>7, <1>8, <1>9 DEF LoopNext, Main

---------------------------------------------------------------------------
(* The invariants. *)

LEMMA InitLoop == LoopInit => LoopInv /\ WaitInv /\ SocketsOwned
BY DEF LoopInit, Init, LoopInv, WaitInv, SocketsOwned, Idle, Slots

\* main() sets no slot up that is bound.
LEMMA BindsOnce ==
  ASSUME TypeOK, TableInv, LoopInv, NEW here, NEW q \in Both, NEW there,
         Bind(here, q, there),
         \/ here = "bind1" /\ q = 1
         \/ here = "bind2" /\ q = 2
  PROVE  \A s \in Slots : SetupSlot(q, s) => ~bound[s]
<1>1. Unknown(q)
  BY DEF Bind, LoopInv, Unknown, TypeOK, Slots
<1>2. ASSUME NEW s \in Slots, SetupSlot(q, s) PROVE ~bound[s]
  <2>1. s = count
    BY <1>1, <1>2 DEF SetupSlot, Finds, Unknown
  <2> QED
    BY <2>1 DEF TableInv, TypeOK
<1> QED
  BY <1>2

\* A SetupUDP of main() keeps every bound slot on the port of its instance.
LEMMA SetupKeepsPorts ==
  ASSUME TypeOK, TableInv, LoopInv, NEW q \in Both, SetupUDP(q, PortOf[q])
  PROVE  \A s \in Slots : bound'[s] => inst'[s] \in Both /\ port'[s] = PortOf[inst'[s]]
<1>1. PICK s \in Slots : \/ SetupNoSocket(q, s)
                         \/ SetupBindFails(q, s)
                         \/ SetupSucceeds(q, s, PortOf[q])
  BY DEF SetupUDP
<1>2. SetupSlot(q, s)
  BY <1>1 DEF SetupNoSocket, SetupBindFails, SetupSucceeds
<1>3. inst' = [inst EXCEPT ![s] = q]
  BY <1>2 DEF SetupSlot
<1>4. bound[s] => inst[s] = q
  BY <1>2 DEF SetupSlot, Finds, TableInv, TypeOK
<1>5. CASE SetupNoSocket(q, s) \/ SetupBindFails(q, s)
  <2>1. bound' = bound /\ port' = port
    BY <1>5 DEF SetupNoSocket, SetupBindFails
  <2> QED
    BY <1>3, <1>4, <2>1 DEF LoopInv, TypeOK
<1>6. CASE SetupSucceeds(q, s, PortOf[q])
  <2>1. /\ bound' = [bound EXCEPT ![s] = TRUE]
        /\ port' = [port EXCEPT ![s] = PortOf[q]]
    BY <1>6 DEF SetupSucceeds
  <2> QED
    BY <1>3, <2>1 DEF LoopInv, TypeOK
<1> QED
  BY <1>1, <1>5, <1>6

LEMMA BindLoopInv ==
  ASSUME TypeOK, TableInv, LoopInv,
         Bind("bind1", 1, "bind2") \/ Bind("bind2", 2, "configure")
  PROVE  LoopInv'
<1>1. PICK q \in Both : SetupUDP(q, PortOf[q]) /\ (pc = "bind1" => q = 1)
  BY DEF Bind, Both
<1>2. \A s \in Slots : bound'[s] => inst'[s] \in Both /\ port'[s] = PortOf[inst'[s]]
  BY <1>1, SetupKeepsPorts
<1>3. todo' = todo /\ k' = Idle
  <2>1. k' = k /\ todo' = todo
    BY <1>1 DEF Bind, SetupUDP, pollVars
  <2>2. pc # "tick"
    BY DEF Bind
  <2> QED
    BY <2>1, <2>2 DEF LoopInv
<1>4. pc' \in {"bind2", "configure", "failed"}
  BY DEF Bind, Goto
<1>5. ASSUME pc' = "bind2", NEW s \in Slots, s < count' PROVE inst'[s] = 1
  <2>1. q = 1 /\ count = 0
    BY <1>1, <1>5 DEF Bind, Goto, LoopInv
  <2>2. PICK t \in Slots : SetupSlot(1, t)
    BY <1>1, <2>1 DEF SetupUDP, SetupNoSocket, SetupBindFails, SetupSucceeds
  <2>3. t = 0 /\ count' = 1 /\ inst' = [inst EXCEPT ![t] = 1]
    BY <2>1, <2>2 DEF SetupSlot, Finds, Slots
  <2>4. s = 0
    BY <1>5, <2>3 DEF Slots
  <2> QED
    BY <2>3, <2>4 DEF TypeOK
<1> QED
  BY <1>2, <1>3, <1>4, <1>5 DEF LoopInv

LEMMA NextLoopInv ==
  ASSUME TypeOK, TableInv, LoopInv, [LoopNext]_allVars
  PROVE  LoopInv'
<1>1. CASE UNCHANGED <<pc, todo, k, count, inst, port, bound>>
  BY <1>1 DEF LoopInv
<1>2. CASE MakeCurrent
  <2>1. /\ UNCHANGED <<todo, k, count, inst, port, bound>>
        /\ pc = "current" /\ pc' = "bind1"
    BY <1>2 DEF MakeCurrent, SetNetworkPortInstance, Goto, pollVars
  <2> QED
    BY <2>1 DEF LoopInv
<1>3. CASE Bind("bind1", 1, "bind2") \/ Bind("bind2", 2, "configure")
  BY <1>3, BindLoopInv
<1>4. CASE Configure
  <2>1. StartUp \in Seq(Both)
    BY DEF StartUp, Both
  <2>2. /\ UNCHANGED <<k, count, inst, port, bound>>
        /\ pc = "configure" /\ pc' \in {"announce", "failed"}
        /\ todo' \in Seq(Both)
    BY <1>4, <2>1 DEF Configure, Goto, vars, tableVars, pollVars, LoopInv
  <2> QED
    BY <2>2 DEF LoopInv
<1>5. CASE Announce
  <2>1. UNCHANGED <<k, count, inst, port, bound>>
    BY <1>5 DEF Announce, SendIAm, vars, tableVars, pollVars
  <2>2. pc = "announce" /\ pc' \in {"tick", "announce"} /\ todo' \in Seq(Both)
    BY <1>5 DEF Announce, Goto, LoopInv
  <2> QED
    BY <2>1, <2>2 DEF LoopInv
<1>6. CASE TickReceives
  <2>1. UNCHANGED <<todo, count, inst, port, bound>> /\ pc' \in {"tick", "poll"}
    BY <1>6 DEF TickReceives, TickEnds, Receive, BeginReceive, PollNothing,
                PollBlank, PollDatagram, EndIdle, tableVars
  <2>2. pc' # "tick" => k' = Idle
    BY <1>6 DEF TickReceives, TickEnds, Receive, BeginReceive, PollNothing,
                PollBlank, PollDatagram, EndIdle, Idle, TypeOK
  <2> QED
    BY <2>1, <2>2 DEF LoopInv
<1>7. CASE TickReplies
  BY <1>1, <1>7 DEF TickReplies, Goto, Reply, tableVars, pollVars
<1>8. CASE Poll
  <2>1. Again \in Seq(Both)
    BY DEF Again, Both
  <2>2. /\ UNCHANGED <<k, count, inst, port, bound>>
        /\ pc = "poll" /\ pc' \in {"quit", "tick", "announce"}
        /\ todo' \in Seq(Both)
    BY <1>8, <2>1 DEF Poll, Goto, vars, tableVars, pollVars, LoopInv
  <2> QED
    BY <2>2 DEF LoopInv
<1>9. CASE Quit
  <2>1. /\ UNCHANGED <<todo, k, count, inst, port>>
        /\ \A s \in Slots : ~bound'[s]
        /\ pc = "quit" /\ pc' = "exited"
    BY <1>9 DEF Quit, ShutdownUDP, Goto, pollVars
  <2> QED
    BY <2>1 DEF LoopInv
<1>10. CASE Delivered
  BY <1>1, <1>10 DEF Delivered, Arrive, loopVars, tableVars, pollVars
<1>11. CASE Calm \/ Press \/ Exited \/ UNCHANGED allVars
  BY <1>1, <1>11 DEF Calm, Press, Exited, allVars, loopVars, vars, tableVars, pollVars
<1> QED
  BY <1>2, <1>3, <1>4, <1>5, <1>6, <1>7, <1>8, <1>9, <1>10, <1>11 DEF LoopNext, Main

\* No set-up of main() overwrites an open handle, and its shutdown closes all.
LEMMA LoopOwned ==
  ASSUME TypeOK, TableInv, LoopInv, SocketsOwned, [LoopNext]_allVars
  PROVE  SocketsOwned'
<1>1. CASE UNCHANGED <<sockPort, bound, sock>>
  BY <1>1, SameOwned
<1>2. ASSUME NEW q \in Both, NEW here, NEW there, Bind(here, q, there),
             \/ here = "bind1" /\ q = 1
             \/ here = "bind2" /\ q = 2
      PROVE  SocketsOwned'
  <2>1. q \in Instances /\ PortOf[q] \in Ports
    BY LoopAssumption
  <2> QED
    BY <1>2, <2>1, BindsOnce, SetupOwned DEF Bind
<1>3. 1 \in Both /\ 2 \in Both
  BY DEF Both
<1>4. CASE Quit
  BY <1>4, ShutdownOwned DEF Quit
<1>5. CASE MakeCurrent \/ TickReceives \/ Delivered
  BY <1>1, <1>5, SocketsStay DEF MakeCurrent, TickReceives, Delivered
<1>6. CASE Announce \/ TickReplies
  BY <1>1, <1>6 DEF Announce, TickReplies, SendIAm, Reply, vars, tableVars, osVars
<1>7. CASE Configure \/ Poll \/ Calm \/ Press \/ Exited \/ UNCHANGED allVars
  BY <1>1, <1>7 DEF Configure, Poll, Calm, Press, Exited, allVars, vars, tableVars, osVars
<1> QED
  BY <1>2, <1>3, <1>4, <1>5, <1>6, <1>7 DEF LoopNext, Main

---------------------------------------------------------------------------
(* What a scan has still to look for. *)

\* What is in a socket can be taken from its slot.
LEMMA QueuedIsPending ==
  ASSUME TypeOK, SocketInv, NEW s \in Slots, NEW h \in Handles,
         bound[s], sock[s] = h, Len(queue[h]) > 0
  PROVE  Pending(s)
<1>1. h # NoSocket /\ queue[h] # <<>>
  BY TransportAssumption
<1> QED
  BY <1>1 DEF SocketInv, Pending, Usable

LEMMA BeginWaits ==
  ASSUME TypeOK, TableInv, RingInv, SocketInv, SocketsOwned, BeginReceive,
         waited' = Queued
  PROVE  WaitInv'
<1>1. /\ UNCHANGED <<count, next, bound, sock, queue>>
      /\ k' = 0 /\ count > 0
  BY DEF BeginReceive, tableVars, osVars
<1>2. ASSUME NEW h \in Handles PROVE waited'[h] \in 0 .. Len(queue'[h])
  <2>1. waited'[h] = Len(queue[h]) /\ Len(queue[h]) \in Nat
    BY DEF Queued, TypeOK
  <2> QED
    BY <1>1, <2>1
<1>3. ASSUME NEW h \in Handles, waited'[h] > 0
      PROVE  \E s \in Slots : s < count /\ bound[s] /\ sock[s] = h /\ Offset(s)' >= 0
  <2>1. queue[h] # <<>>
    BY <1>3 DEF Queued
  <2>2. PICK s \in Slots : bound[s] /\ sock[s] = h
    BY <2>1 DEF SocketInv, SocketsOwned
  <2>3. s < count
    BY <2>2 DEF TableInv, TypeOK, Slots
  <2>4. Offset(s)' >= 0
    BY <1>1, <2>3 DEF Offset, Distance, RingInv, TypeOK, Slots
  <2> QED
    BY <2>2, <2>3, <2>4
<1> QED
  BY <1>1, <1>2, <1>3 DEF WaitInv

LEMMA PollWaits ==
  ASSUME TypeOK, TableInv, RingInv, SocketInv, WaitInv, PollNothing \/ PollBlank,
         waited' = [h \in Handles |-> IF queue'[h] = queue[h] THEN waited[h] ELSE 0]
  PROVE  WaitInv'
<1>1. /\ UNCHANGED <<count, next, bound, sock>>
      /\ k \in 0 .. count - 1 /\ k # Idle /\ k' = k + 1
  BY DEF PollNothing, PollBlank, tableVars, Idle
<1>2. Polled \in Slots
  BY <1>1, PolledInTable
<1>3. \A s \in Slots : Offset(s)' = Offset(s)
  BY <1>1 DEF Offset, Distance
<1>4. ASSUME NEW h \in Handles PROVE waited'[h] \in 0 .. Len(queue'[h])
  <2>1. CASE queue'[h] = queue[h]
    BY <1>1, <2>1 DEF WaitInv
  <2>2. CASE queue'[h] # queue[h]
    <3>1. /\ h = sock[Polled] /\ queue'[h] = Tail(queue[h])
          /\ queue[h] # <<>> /\ queue[h] \in Seq(Nat)
      BY <1>2, <2>2 DEF PollNothing, PollBlank, Consume, Pending, Usable, TypeOK, osVars
    <3>2. Len(queue'[h]) \in Nat
      BY <3>1, TailFacts
    <3> QED
      BY <2>2, <3>2
  <2> QED
    BY <2>1, <2>2
<1>5. ASSUME NEW h \in Handles, waited'[h] > 0
      PROVE  \E s \in Slots : s < count /\ bound[s] /\ sock[s] = h /\ Offset(s) >= k + 1
  <2>1. queue'[h] = queue[h] /\ waited[h] > 0 /\ waited[h] \in 0 .. Len(queue[h])
    BY <1>1, <1>5 DEF WaitInv
  <2>2. PICK s \in Slots : s < count /\ bound[s] /\ sock[s] = h /\ Offset(s) >= k
    BY <1>1, <2>1 DEF WaitInv
  <2>3. Len(queue[h]) > 0 /\ Len(queue[h]) \in Nat
    BY <2>1 DEF TypeOK
  <2>4. Pending(s)
    BY <2>2, <2>3, QueuedIsPending
  <2>5. s # Polled
    <3>1. CASE PollNothing
      BY <2>4, <3>1 DEF PollNothing
    <3>2. CASE PollBlank
      <4>1. /\ queue[sock[Polled]] # <<>> /\ queue[sock[Polled]] \in Seq(Nat)
            /\ queue'[sock[Polled]] = Tail(queue[sock[Polled]])
        BY <1>2, <3>2 DEF PollBlank, Consume, Pending, Usable, TypeOK
      <4> QED
        BY <2>1, <2>2, <4>1, TailDiffers
    <3> QED
      BY <3>1, <3>2
  <2>6. Offset(s) # k /\ Offset(s) \in 0 .. count - 1
    BY <1>1, <2>2, <2>5, PolledOffset
  <2> QED
    BY <1>1, <2>2, <2>6
<1> QED
  BY <1>1, <1>3, <1>4, <1>5 DEF WaitInv

\* What arrives during a scan is not waited for by it.
LEMMA ArrivalWaits ==
  ASSUME TypeOK, WaitInv, NEW g \in Handles, NEW d \in Nat, Arrive(g, d),
         UNCHANGED waited
  PROVE  WaitInv'
<1>1. UNCHANGED <<count, next, k, bound, sock>>
  BY DEF Arrive, tableVars, pollVars
<1>2. \A h \in Handles : Len(queue[h]) \in Nat /\ Len(queue'[h]) \in Nat
                         /\ Len(queue'[h]) >= Len(queue[h])
  <2>1. ASSUME NEW h \in Handles
        PROVE  Len(queue[h]) \in Nat /\ Len(queue'[h]) \in Nat
               /\ Len(queue'[h]) >= Len(queue[h])
    <3>1. queue[h] \in Seq(Nat)
      BY DEF TypeOK
    <3>2. queue'[h] = queue[h] \/ queue'[h] = Append(queue[h], d)
      BY DEF Arrive, TypeOK
    <3>3. Len(Append(queue[h], d)) = Len(queue[h]) + 1 /\ Len(queue[h]) \in Nat
      BY <3>1
    <3> QED
      BY <3>2, <3>3
  <2> QED
    BY <2>1
<1>3. \A s \in Slots : Offset(s)' = Offset(s)
  BY <1>1 DEF Offset, Distance
<1> QED
  BY <1>1, <1>2, <1>3 DEF WaitInv

LEMMA NextWaitInv ==
  ASSUME TypeOK, TableInv, RingInv, SocketInv, SocketsOwned, LoopInv, WaitInv,
         [LoopNext]_allVars
  PROVE  WaitInv'
<1>1. CASE k' = Idle
  BY <1>1 DEF WaitInv
<1>2. CASE UNCHANGED <<count, next, k, bound, sock, queue, waited>>
  BY <1>2 DEF WaitInv, Offset, Distance
<1>3. CASE TickReceives
  <2>1. CASE BeginReceive
    BY <1>3, <2>1, BeginWaits DEF TickReceives, BeginReceive
  <2>2. CASE PollNothing \/ PollBlank
    BY <1>3, <2>2, PollWaits DEF TickReceives, PollNothing, PollBlank, Idle
  <2>3. CASE PollDatagram \/ EndIdle
    BY <1>1, <2>3 DEF PollDatagram, EndIdle
  <2> QED
    BY <1>3, <2>1, <2>2, <2>3 DEF TickReceives, Receive
<1>4. CASE Delivered
  <2>1. PICK h \in Handles : \E d \in {sockPort[h], Blank} : Arrive(h, d)
    BY <1>4 DEF Delivered
  <2>2. PICK d \in {sockPort[h], Blank} : Arrive(h, d)
    BY <2>1
  <2>3. d \in Nat
    BY PortsAreNumbers DEF TypeOK, Blank, Closed
  <2> QED
    BY <1>4, <2>2, <2>3, ArrivalWaits DEF Delivered, loopVars
<1>5. CASE MakeCurrent \/ TickReplies \/ Quit
  BY <1>1, <1>5 DEF MakeCurrent, TickReplies, Quit, SetNetworkPortInstance, Reply,
                    ShutdownUDP, pollVars
<1>6. CASE Bind("bind1", 1, "bind2") \/ Bind("bind2", 2, "configure")
  <2>1. k = Idle /\ k' = k
    BY <1>6 DEF Bind, LoopInv, SetupUDP, pollVars
  <2> QED
    BY <1>1, <2>1
<1>7. CASE Announce \/ Configure \/ Poll
  <2>1. k = Idle /\ k' = k
    BY <1>7 DEF Announce, Configure, Poll, LoopInv, SendIAm, vars, pollVars
  <2> QED
    BY <1>1, <2>1
<1>8. CASE Calm \/ Press \/ Exited \/ UNCHANGED allVars
  BY <1>2, <1>8 DEF Calm, Press, Exited, allVars, loopVars, vars, tableVars, pollVars,
                    osVars
<1> QED
  BY <1>3, <1>4, <1>5, <1>6, <1>7, <1>8 DEF LoopNext, Main

---------------------------------------------------------------------------
(* The theorems. *)

\* LoopIInv is an inductive invariant of the program.
THEOREM LoopInductive == LoopSpec => []LoopIInv
<1>1. LoopInit => LoopIInv
  BY InitLoop, InitTypeOK, InitTableInv, InitRingInv, InitSocketInv
     DEF LoopInit, LoopIInv, IInv
<1>2. ASSUME LoopIInv, [LoopNext]_allVars PROVE LoopIInv'
  <2>1. [Next]_vars
    BY <1>2, StepOfTransport DEF LoopIInv, IInv
  <2>2. IInv' /\ SocketInv'
    BY <1>2, <2>1, NextTypeOK, NextTableInv, NextRingInv, NextSocketInv
       DEF LoopIInv, IInv
  <2>3. LoopInv' /\ SocketsOwned' /\ WaitInv'
    BY <1>2, NextLoopInv, LoopOwned, NextWaitInv DEF LoopIInv, IInv
  <2> QED
    BY <2>2, <2>3 DEF LoopIInv
<1> QED
  BY <1>1, <1>2, PTL DEF LoopSpec

\* Every step of main(), the stack, the networks and the user is a step the
\* transport allows: its callers never disturb a scan, and a router message is
\* addressed as an I-Am of the same network is.
THEOREM KeepsWithinLimits == LoopSpec => WithinItsLimits
<1>1. LoopIInv /\ [LoopNext]_allVars => [Next]_vars
  BY StepOfTransport DEF LoopIInv, IInv
<1> QED
  BY <1>1, LoopInductive, PTL DEF LoopSpec, WithinItsLimits

\* So the program is an instance of the transport, and what is proved of the one
\* holds of the other.
THEOREM LoopUsesTransport == LoopSpec => Spec
<1>1. LoopInit => Init
  BY DEF LoopInit
<1> QED
  BY <1>1, KeepsWithinLimits, PTL DEF LoopSpec, Spec, WithinItsLimits

\* When a Tick ends, everything that was in a socket before its last scan began
\* has been looked for, wherever the rotation stood and whatever arrived.
THEOREM TickLeavesNothing == LoopSpec => ZeroMeansNothing
<1>1. ASSUME LoopIInv, [LoopNext]_allVars, pc = "tick", pc' = "poll",
             NEW h \in Handles
      PROVE  waited[h] = 0
  <2>1. TickReceives
    BY <1>1 DEF LoopNext, Main, MakeCurrent, Bind, Configure, Announce, TickReplies,
                Poll, Quit, Delivered, Calm, Press, Exited, Ended, Goto, allVars, loopVars
  <2>2. k = count /\ count \in Nat /\ count > 0
    BY <1>1, <2>1 DEF TickReceives, TickEnds, LoopIInv, IInv, TypeOK, RingInv, Idle
  <2>3. \A s \in Slots : s < count => Offset(s) < k
    BY <2>2, <1>1 DEF Offset, Distance, LoopIInv, IInv, RingInv, TypeOK, Slots
  <2>4. \A s \in Slots : Offset(s) \in Int
    BY <1>1 DEF Offset, Distance, LoopIInv, IInv, TypeOK, Slots
  <2>5. waited[h] \in Nat /\ ~(waited[h] > 0)
    BY <1>1, <2>2, <2>3, <2>4 DEF LoopIInv, WaitInv, Idle
  <2> QED
    BY <2>5
<1>2. LoopIInv /\ [LoopNext]_allVars
        => [pc = "tick" /\ pc' = "poll" => \A h \in Handles : waited[h] = 0]_allVars
  BY <1>1
<1> QED
  BY <1>2, LoopInductive, PTL DEF LoopSpec, ZeroMeansNothing

\* A main() that returns leaves no socket open, whatever was sent, received or
\* lost before.
NothingLeftOpen == pc = "exited" => \A h \in Handles : sockPort[h] = Closed

THEOREM ExitClosesAll == LoopSpec => []NothingLeftOpen
<1>1. LoopIInv => NothingLeftOpen
  BY DEF LoopIInv, LoopInv, SocketsOwned, NothingLeftOpen
<1> QED
  BY <1>1, LoopInductive, PTL

\* No open socket of the program is out of the reach of its shutdown.
THEOREM LoopOwnsItsSockets == LoopSpec => []SocketsOwned
<1>1. LoopIInv => SocketsOwned
  BY DEF LoopIInv
<1> QED
  BY <1>1, LoopInductive, PTL

=============================================================================
