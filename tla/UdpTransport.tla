--------------------------- MODULE UdpTransport ---------------------------
(***************************************************************************)
(* The UDP transport of common/CASExampleHelper.cpp and common/SimpleUDP:  *)
(* a small table of UDP sockets, one slot per Network Port object          *)
(* instance, that the BACnet stack reaches through two callbacks.          *)
(*                                                                         *)
(*   - SetupUDP binds the socket of an instance, ShutdownUDP closes all;   *)
(*   - HelperReceiveMessage polls the bound sockets in round-robin order,  *)
(*     one recvfrom at a time: the network may deliver between any two of  *)
(*     them, so the scan is one step per slot;                             *)
(*   - HelperSendMessage and SendIAm send by the socket of an instance.    *)
(*                                                                         *)
(* Everything runs in the one application thread, so SetupUDP, ShutdownUDP *)
(* and the senders never run inside a scan (k = Idle).  The operating      *)
(* system's half is the sockets themselves: an open handle, the UDP port   *)
(* it is bound to and its receive queue.  A datagram is abstracted to the  *)
(* UDP port it was sent to; Blank is what makes recvfrom return <= 0       *)
(* although something was queued (an empty datagram, a pending error).     *)
(***************************************************************************)
EXTENDS Integers, Sequences

CONSTANTS
  Instances,       \* Network Port object instances the application names
  Ports,           \* UDP ports it may bind
  MaxUdpBindings,  \* MAX_UDP_BINDINGS, 4 in the code
  Handles,         \* bound: the sockets the operating system can grant
  NoSocket,        \* INVALID_SOCK
  MaxQueue,        \* bound: datagrams a socket queues before it drops
  Rebind           \* may SetupUDP be called again for a bound instance?

ASSUME TransportAssumption ==
  /\ Instances \subseteq Nat \ {0}
  /\ Ports \subseteq Nat \ {0}
  /\ MaxUdpBindings \in Nat \ {0}
  /\ NoSocket \notin Handles
  /\ MaxQueue \in Nat \ {0}
  /\ Rebind \in BOOLEAN

VARIABLES
  count,      \* g_udpBindingCount
  inst,       \* slot -> networkPortInstance (0 when never used)
  port,       \* slot -> UDP port of the last successful SetupUDP
  bound,      \* slot -> UdpBinding.bound
  sock,       \* slot -> SimpleUDP.m_socket
  connected,  \* slot -> SimpleUDP.m_connected
  gInst,      \* g_networkPortInstance
  gPort,      \* g_port
  next,       \* s_nextBindingToCheck
  k,          \* loop index of the running HelperReceiveMessage, or Idle
  reported,   \* instance the last completed receive named, 0 when none
  sent,       \* the datagram the last send put on the wire, or NoSend
  sockPort,   \* handle -> UDP port the open socket is bound to, 0 when closed
  queue,      \* handle -> datagrams waiting in the operating system
  bypass      \* slot -> services of other slots since its head arrived

tableVars == <<count, inst, port, bound, sock, connected, gInst, gPort>>
pollVars  == <<next, k, reported>>
osVars    == <<sockPort, queue>>
vars      == <<tableVars, pollVars, osVars, sent, bypass>>

Slots   == 0 .. MaxUdpBindings - 1
Closed  == 0
Idle    == -1
Blank   == 0
NoSend  == [by |-> 0, from |-> 0, to |-> 0, broadcast |-> FALSE]

---------------------------------------------------------------------------
(* Slots, sockets and the lookup by instance. *)

\* FindUdpBindingByInstance returns slot s for instance p.
Finds(p, s) ==
  /\ s < count
  /\ inst[s] = p
  /\ \A t \in Slots : t < s => inst[t] # p

\* Mutant: SetupUDP never looks the instance up.
UnknownAlways(p) == TRUE

Unknown(p) == \A t \in Slots : t < count => inst[t] # p

\* recvfrom and sendto reach an open socket of slot s.
Usable(s) == connected[s] /\ sock[s] # NoSocket

\* Something is queued at the socket HelperReceiveMessage polls for slot s.
Pending(s) == bound[s] /\ Usable(s) /\ queue[sock[s]] # <<>>

\* Mutant: the rotation forgets the modulus.
WrapMissing(i, n) == i

\* Reduction modulo n; every sum the code reduces is below 2n.
Wrap(i, n) == IF i < n THEN i ELSE i - n

\* The slots an application call may disturb start a new wait.
StillWaiting(w) == [s \in Slots |-> IF Pending(s)' THEN w[s] ELSE 0]

---------------------------------------------------------------------------
(* SetupUDP(port, networkPortInstance). *)

\* The slot SetupUDP works on: the instance's own, or the next free one.  A
\* full table refuses the call and changes nothing.
SetupSlot(p, s) ==
  /\ k = Idle
  /\ \/ Finds(p, s) /\ (Rebind \/ ~bound[s])
     \/ Unknown(p) /\ s = count
  /\ count' = IF s = count THEN count + 1 ELSE count
  /\ inst' = [inst EXCEPT ![s] = p]

\* socket() fails: Connect returns before it touches m_connected.
SetupNoSocket(p, s) ==
  /\ SetupSlot(p, s)
  /\ \A h \in Handles : sockPort[h] # Closed
  /\ sock' = [sock EXCEPT ![s] = NoSocket]
  /\ UNCHANGED <<port, bound, connected, gInst, gPort, osVars>>

\* bind() fails, as it does when another process holds the port: Connect
\* closes the new socket and reports failure, and the slot stays counted.
SetupBindFails(p, s) ==
  /\ SetupSlot(p, s)
  /\ \E h \in Handles : sockPort[h] = Closed
  /\ sock' = [sock EXCEPT ![s] = NoSocket]
  /\ connected' = [connected EXCEPT ![s] = FALSE]
  /\ UNCHANGED <<port, bound, gInst, gPort, osVars>>

SetupSucceeds(p, s, u) ==
  /\ SetupSlot(p, s)
  /\ \E h \in Handles :
       /\ sockPort[h] = Closed
       /\ sockPort' = [sockPort EXCEPT ![h] = u]
       /\ queue' = [queue EXCEPT ![h] = <<>>]
       /\ sock' = [sock EXCEPT ![s] = h]
  /\ connected' = [connected EXCEPT ![s] = TRUE]
  /\ port' = [port EXCEPT ![s] = u]
  /\ bound' = [bound EXCEPT ![s] = TRUE]
  /\ gPort' = IF p = gInst THEN u ELSE gPort
  /\ UNCHANGED gInst

SetupUDP(p, u) ==
  /\ \E s \in Slots :
       \/ SetupNoSocket(p, s)
       \/ SetupBindFails(p, s)
       \/ SetupSucceeds(p, s, u)
  /\ bypass' = StillWaiting(bypass)
  /\ sent' = NoSend
  /\ UNCHANGED pollVars

(* ShutdownUDP: count, instances and the poll position survive it. *)
\* Mutant: ShutdownUDP marks the slots unbound and closes nothing.
CloseNothing(gone) == UNCHANGED osVars

CloseSockets(gone) ==
  /\ sockPort' = [h \in Handles |-> IF h \in gone THEN Closed ELSE sockPort[h]]
  /\ queue' = [h \in Handles |-> IF h \in gone THEN <<>> ELSE queue[h]]

ShutdownUDP ==
  /\ k = Idle
  /\ CloseSockets({sock[s] : s \in {t \in Slots : bound[t]}})
  /\ sock' = [s \in Slots |-> IF bound[s] THEN NoSocket ELSE sock[s]]
  /\ connected' = [s \in Slots |-> connected[s] /\ ~bound[s]]
  /\ bound' = [s \in Slots |-> FALSE]
  /\ bypass' = StillWaiting(bypass)
  /\ sent' = NoSend
  /\ UNCHANGED <<count, inst, port, gInst, gPort, pollVars>>

SetNetworkPortInstance(p) ==
  /\ k = Idle
  /\ gInst' = p
  /\ sent' = NoSend
  /\ UNCHANGED <<count, inst, port, bound, sock, connected, gPort,
                 pollVars, osVars, bypass>>

---------------------------------------------------------------------------
(* HelperReceiveMessage, called by the stack until it returns 0. *)

BeginReceive ==
  /\ k = Idle
  /\ count > 0
  /\ k' = 0
  /\ reported' = 0
  /\ sent' = NoSend
  /\ UNCHANGED <<tableVars, next, osVars, bypass>>

\* Mutant: every scan starts at slot 0.
PolledFromZero == k

Polled == Wrap(next + k, count)

\* The slot is unbound, or its socket has nothing to give.
PollNothing ==
  /\ k \in 0 .. count - 1
  /\ ~Pending(Polled)
  /\ k' = k + 1
  /\ UNCHANGED <<tableVars, next, reported, osVars, sent, bypass>>

\* The history variable saturates one above the bound it is compared with.
Bump(b) == IF b < MaxUdpBindings THEN b + 1 ELSE b

Consume(s) ==
  /\ queue' = [queue EXCEPT ![sock[s]] = Tail(@)]
  /\ UNCHANGED sockPort

\* recvfrom takes something off the queue and still reports no bytes.
PollBlank ==
  /\ k \in 0 .. count - 1
  /\ Pending(Polled)
  /\ Head(queue[sock[Polled]]) = Blank
  /\ Consume(Polled)
  /\ k' = k + 1
  /\ bypass' = [bypass EXCEPT ![Polled] = 0]
  /\ UNCHANGED <<tableVars, next, reported, sent>>

\* Mutants: the scan restarts at the serviced slot; the current instance is
\* reported whichever socket the datagram came from.
ServiceSlotAgain(s) == next' = s /\ reported' = inst[s]
ServiceSlotCurrent(s) == next' = Wrap(s + 1, count) /\ reported' = gInst

\* A datagram: rotate past the serviced slot and report its instance.
ServiceSlot(s) ==
  /\ next' = Wrap(s + 1, count)
  /\ reported' = inst[s]

PollDatagram ==
  /\ k \in 0 .. count - 1
  /\ Pending(Polled)
  /\ Head(queue[sock[Polled]]) # Blank
  /\ Consume(Polled)
  /\ ServiceSlot(Polled)
  /\ bypass' = [s \in Slots |-> IF s # Polled /\ Pending(s)
                                THEN Bump(bypass[s]) ELSE 0]
  /\ k' = Idle
  /\ UNCHANGED <<tableVars, sent>>

\* No slot had anything: keep rotating even when idle.
EndIdle ==
  /\ k = count
  /\ next' = Wrap(next + 1, count)
  /\ k' = Idle
  /\ UNCHANGED <<tableVars, reported, osVars, sent, bypass>>

Receive == BeginReceive \/ PollNothing \/ PollBlank \/ PollDatagram \/ EndIdle

---------------------------------------------------------------------------
(* HelperSendMessage, and SendIAm which reaches it through the stack. *)

\* What a broadcast to UDP port u does to this host's own sockets: each one
\* listening on u hears it, unless its queue is full.
Loopback(u) ==
  queue' = [h \in Handles |->
              IF sockPort[h] = u /\ Len(queue[h]) < MaxQueue
              THEN Append(queue[h], u) ELSE queue[h]]

\* The stack names the instance the message is to leave by.  An instance with
\* no usable socket sends nothing.
HelperSendMessage(p, to, broadcast) ==
  \E s \in Slots :
    /\ Finds(p, s)
    /\ bound[s]
    /\ Usable(s)
    /\ sent' = [by |-> p, from |-> sockPort[sock[s]],
                to |-> to, broadcast |-> broadcast]
    /\ IF broadcast THEN Loopback(to) ELSE UNCHANGED queue

\* A reply the stack unicasts to a peer's UDP port.
Reply(p, to) ==
  /\ k = Idle
  /\ HelperSendMessage(p, to, FALSE)
  /\ UNCHANGED <<tableVars, pollVars, sockPort, bypass>>

\* Mutant: every I-Am goes to the current instance's port.
IAmPortCurrent(p) == gPort

\* The port a broadcast I-Am of instance p is addressed to.
IAmPort(p) ==
  IF \E s \in Slots : Finds(p, s) /\ bound[s]
  THEN port[CHOOSE s \in Slots : Finds(p, s)]
  ELSE gPort

SendIAm(p) ==
  /\ k = Idle
  /\ HelperSendMessage(p, IAmPort(p), TRUE)
  /\ UNCHANGED <<tableVars, pollVars, sockPort, bypass>>

---------------------------------------------------------------------------
(* The network delivers to an open socket at any moment, also mid-scan. *)

Arrive(h, d) ==
  /\ sockPort[h] # Closed
  /\ Len(queue[h]) < MaxQueue
  /\ queue' = [queue EXCEPT ![h] = Append(@, d)]
  /\ UNCHANGED <<tableVars, pollVars, sockPort, sent, bypass>>

Init ==
  /\ count = 0
  /\ inst = [s \in Slots |-> 0]
  /\ port = [s \in Slots |-> 0]
  /\ bound = [s \in Slots |-> FALSE]
  /\ sock = [s \in Slots |-> NoSocket]
  /\ connected = [s \in Slots |-> FALSE]
  /\ gInst = 1
  /\ gPort = 47808
  /\ next = 0
  /\ k = Idle
  /\ reported = 0
  /\ sent = NoSend
  /\ sockPort = [h \in Handles |-> Closed]
  /\ queue = [h \in Handles |-> <<>>]
  /\ bypass = [s \in Slots |-> 0]

Next ==
  \/ \E p \in Instances, u \in Ports : SetupUDP(p, u)
  \/ ShutdownUDP
  \/ \E p \in Instances : SetNetworkPortInstance(p) \/ SendIAm(p)
  \/ \E p \in Instances, to \in Ports : Reply(p, to)
  \/ Receive
  \/ \E h \in Handles : \E d \in {sockPort[h], Blank} : Arrive(h, d)

Spec == Init /\ [][Next]_vars

\* main() calls BACnetStack_Tick for ever, and Tick keeps calling the receive
\* callback: a callback in progress finishes and another one follows.
FairSpec == Spec /\ WF_vars(Receive)

---------------------------------------------------------------------------
(* Properties. *)

TypeOK ==
  /\ count \in 0 .. MaxUdpBindings
  /\ inst \in [Slots -> Instances \cup {0}]
  /\ port \in [Slots -> Ports \cup {0}]
  /\ bound \in [Slots -> BOOLEAN]
  /\ sock \in [Slots -> Handles \cup {NoSocket}]
  /\ connected \in [Slots -> BOOLEAN]
  /\ gInst \in Nat
  /\ gPort \in Nat
  /\ next \in Slots
  /\ k \in -1 .. count
  /\ reported \in Instances \cup {0}
  /\ sent \in [by : Nat, from : Nat, to : Nat, broadcast : BOOLEAN]
  /\ sockPort \in [Handles -> Ports \cup {Closed}]
  /\ queue \in [Handles -> Seq(Nat)]
  /\ bypass \in [Slots -> 0 .. MaxUdpBindings]

\* No starvation, quantitatively (the claim of HelperReceiveMessage): while a
\* bound socket has something queued, the other sockets are serviced at most
\* count - 1 times before it is polled, however the traffic arrives.
BypassBound == \A s \in Slots : Pending(s) => bypass[s] <= count - 1

\* One slot per instance, over any sequence of failed, repeated and refused
\* SetupUDP calls and shutdowns, and no two slots share an open socket: the
\* instance reported for a datagram identifies the link it arrived on.
TableKeyed ==
  \A s, t \in 0 .. count - 1 :
    s # t => /\ inst[s] # inst[t]
             /\ sock[s] # NoSocket => sock[s] # sock[t]

\* Every open socket belongs to a slot ShutdownUDP will close ("Close every
\* UDP socket bound by SetupUDP() (all instances)", CASExampleHelper.h).
SocketsOwned ==
  \A h \in Handles :
    sockPort[h] # Closed => \E s \in Slots : bound[s] /\ sock[s] = h

\* A datagram the receive callback hands to the stack is reported under the
\* instance that is bound to the UDP port the datagram was sent to.
Attribution ==
  [][\A h \in Handles :
       /\ queue[h] # <<>>
       /\ Head(queue[h]) # Blank
       /\ queue'[h] = Tail(queue[h])
       => \E s \in Slots : /\ Finds(reported', s)
                           /\ port[s] = Head(queue[h])]_pollVars

\* Whatever the stack or SendIAm sends on behalf of an instance leaves by that
\* instance's own UDP port, and a broadcast is also addressed to it: the
\* fallback to g_port never puts one network's broadcast on the other.
StaysOnOwnNetwork ==
  sent # NoSend =>
    \E s \in Slots : /\ Finds(sent.by, s)
                     /\ sent.from = port[s]
                     /\ sent.broadcast => sent.to = port[s]

\* A datagram waiting at the socket of instance p is reported to the stack,
\* unless its socket is closed, whatever traffic the other sockets carry.
Waiting(p) ==
  \E s \in Slots : /\ Finds(p, s)
                   /\ Pending(s)
                   /\ \E i \in 1 .. Len(queue[sock[s]]) : queue[sock[s]][i] # Blank

NoStarvation == \A p \in Instances : Waiting(p) ~> (reported = p \/ ~Waiting(p))

---------------------------------------------------------------------------
(* The inductive invariant behind BypassBound and TableKeyed. *)

\* How many slots after a comes s, in polling order round a table of n.
Distance(a, s, n) == IF s >= a THEN s - a ELSE s - a + n

\* Distance from the slot the next scan starts at.
Offset(s) == Distance(next, s, count)

\* A slot never handed out is blank, only a bound slot has a socket, and a
\* slot's socket is open and its own.
TableInv ==
  /\ \A s \in Slots : s >= count => ~bound[s] /\ ~connected[s]
  /\ \A s, t \in Slots : s < count /\ t < count /\ s # t => inst[s] # inst[t]
  /\ \A s \in Slots : sock[s] # NoSocket => bound[s] /\ sockPort[sock[s]] # Closed
  /\ \A s, t \in Slots : s # t /\ sock[s] # NoSocket => sock[s] # sock[t]

\* The scan stays inside the table, a slot with nothing queued has no wait to
\* count, the waits counted plus the polls still to come stay below count,
\* and a slot this scan has already passed has just been emptied.
RingInv ==
  /\ count = 0 => next = 0 /\ k = Idle
  /\ count > 0 => next < count
  /\ \A s \in Slots : ~Pending(s) => bypass[s] = 0
  /\ \A s \in Slots : s < count => bypass[s] + Offset(s) <= count - 1
  /\ \A s \in Slots : s < count /\ k # Idle /\ Offset(s) < k => bypass[s] = 0

IInv == TypeOK /\ TableInv /\ RingInv

=============================================================================
