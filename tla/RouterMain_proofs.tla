------------------------- MODULE RouterMain_proofs -------------------------
(***************************************************************************)
(* Proofs about RouterMain and the Console under it, for every command     *)
(* line, every key and any number of presses: the types, what is on the    *)
(* wire and when, the ports, the keyboard's accounting and the exit.       *)
(***************************************************************************)
EXTENDS RouterMain, FiniteSetTheorems, TLAPS

---------------------------------------------------------------------------
(* The configuration calls. *)

Items(s) == {s[i] : i \in DOMAIN s}

\* The items of two sequences joined are those of both.
LEMMA JoinedItems ==
  ASSUME NEW S, NEW s \in Seq(S), NEW t \in Seq(S)
  PROVE  s \o t \in Seq(S) /\ Items(s \o t) = Items(s) \cup Items(t)
<1>1. /\ DOMAIN s = 1 .. Len(s) /\ Len(s) \in Nat
      /\ DOMAIN t = 1 .. Len(t) /\ Len(t) \in Nat
      /\ DOMAIN (s \o t) = 1 .. Len(s) + Len(t)
  OBVIOUS
<1>2. \A i \in DOMAIN s : i \in DOMAIN (s \o t) /\ (s \o t)[i] = s[i]
  BY <1>1
<1>3. \A i \in DOMAIN t :
        Len(s) + i \in DOMAIN (s \o t) /\ (s \o t)[Len(s) + i] = t[i]
  BY <1>1
<1>4. \A i \in DOMAIN (s \o t) : i \in DOMAIN s \/ i - Len(s) \in DOMAIN t
  BY <1>1
<1>5. ASSUME NEW x \in Items(s \o t) PROVE x \in Items(s) \cup Items(t)
  <2>1. PICK i \in DOMAIN (s \o t) : x = (s \o t)[i]
    BY DEF Items
  <2>2. CASE i \in DOMAIN s
    BY <1>2, <2>1, <2>2 DEF Items
  <2>3. CASE i - Len(s) \in DOMAIN t
    <3>1. i = Len(s) + (i - Len(s))
      BY <1>1, <2>1
    <3>2. x = t[i - Len(s)]
      BY <1>3, <2>1, <2>3, <3>1
    <3> QED
      BY <2>3, <3>2 DEF Items
  <2> QED
    BY <1>4, <2>2, <2>3
<1>6. Items(s) \cup Items(t) \subseteq Items(s \o t)
  BY <1>2, <1>3 DEF Items
<1> QED
  BY <1>5, <1>6

COROLLARY JoinKeeps ==
  ASSUME NEW S, NEW P, NEW s \in Seq(S), NEW t \in Seq(S),
         P \subseteq Items(s) \/ P \subseteq Items(t)
  PROVE  s \o t \in Seq(S) /\ P \subseteq Items(s \o t)
<1>1. s \o t \in Seq(S) /\ Items(s \o t) = Items(s) \cup Items(t)
  BY JoinedItems
<1> QED
  BY <1>1

\* A call whose network, if it names one, is a network of this router.
Functions ==
  {"AddDevice", "SetServiceEnabled", "AddObject", "AddNetworkPortObject",
   "EnableDescription", "EnableStateText", "EnablePriorityArray",
   "EnableRelinquishDefault", "MakePresentValueWritable", "AddRouterPort",
   "AddRouterRoute", "SetRouterEnabled"}
Objects ==
  {"Device", "ReadProperty", "WriteProperty", "WhoIs", "IAm", "WhoHas", "IHave",
   "AnalogInput", "BinaryInput", "MultiStateInput", "AnalogOutput",
   "BinaryOutput", "MultiStateOutput", "NetworkPort", "Router"}

CallSet ==
  {c \in [f : Functions, on : Objects, port : Nat, net : Nat] :
     c.f \in {"AddRouterPort", "AddRouterRoute"} => c.net \in Networks}

\* The six calls that make the second half of this a router of two ports.
PortObjects ==
  {Call("AddNetworkPortObject", "NetworkPort", p, NetworkNumber(p)) : p \in Instances}

LEMMA CallIsCall ==
  ASSUME NEW f \in Functions, NEW o \in Objects, NEW p \in Nat, NEW n \in Nat,
         f \in {"AddRouterPort", "AddRouterRoute"} => n \in Networks
  PROVE  Call(f, o, p, n) \in CallSet
BY DEF Call, CallSet

\* What a sequence of a few items is, whatever the items.
LEMMA OneItem == ASSUME NEW S, NEW a \in S PROVE <<a>> \in Seq(S)
OBVIOUS

LEMMA ThreeItems ==
  ASSUME NEW S, NEW a \in S, NEW b \in S, NEW c \in S
  PROVE  <<a, b, c>> \in Seq(S)
OBVIOUS

LEMMA FourItems ==
  ASSUME NEW S, NEW a \in S, NEW b \in S, NEW c \in S, NEW d \in S
  PROVE  <<a, b, c, d>> \in Seq(S)
OBVIOUS

LEMMA ItemsOfFour ==
  ASSUME NEW a, NEW b, NEW c, NEW d
  PROVE  Items(<<a, b, c, d>>) = {a, b, c, d}
<1> DEFINE s == <<a, b, c, d>>
<1>1. DOMAIN s = {1, 2, 3, 4} /\ s[1] = a /\ s[2] = b /\ s[3] = c /\ s[4] = d
  OBVIOUS
<1> HIDE DEF s
<1>2. Items(s) = {a, b, c, d}
  BY <1>1 DEF Items
<1> QED
  BY <1>2 DEF s

LEMMA SixItems ==
  ASSUME NEW S, NEW a \in S, NEW b \in S, NEW c \in S, NEW d \in S,
         NEW e \in S, NEW f \in S
  PROVE  <<a, b, c, d, e, f>> \in Seq(S)
OBVIOUS

LEMMA CallSequences ==
  /\ RouterCalls \in Seq(CallSet)
  /\ \A o \in Objects : MakeCommandable(o) \in Seq(CallSet)
<1>1. RouterCalls \in Seq(CallSet)
  <2>1. /\ Call("AddRouterPort", "Router", 1, NetworkNumber(1)) \in CallSet
        /\ Call("AddRouterPort", "Router", 2, NetworkNumber(2)) \in CallSet
        /\ Call("AddRouterRoute", "Router", 2, DemoRemoteNetwork) \in CallSet
        /\ Call("SetRouterEnabled", "Router", 0, 0) \in CallSet
    BY CallIsCall DEF NetworkNumber, DemoRemoteNetwork, Networks, Functions, Objects
  <2> QED
    BY <2>1, FourItems, Zenon DEF RouterCalls
<1>2. ASSUME NEW o \in Objects PROVE MakeCommandable(o) \in Seq(CallSet)
  <2>1. /\ Call("EnablePriorityArray", o, 0, 0) \in CallSet
        /\ Call("EnableRelinquishDefault", o, 0, 0) \in CallSet
        /\ Call("MakePresentValueWritable", o, 0, 0) \in CallSet
    BY CallIsCall DEF Functions
  <2> QED
    BY <2>1, ThreeItems, Zenon DEF MakeCommandable
<1> QED
  BY <1>1, <1>2

LEMMA EachIsSequence ==
  ASSUME NEW f \in Functions, f \notin {"AddRouterPort", "AddRouterRoute"},
         NEW objects \in Seq(Objects)
  PROVE  Each(f, objects) \in Seq(CallSet)
<1>1. \A o \in Objects : Call(f, o, 0, 0) \in CallSet
  BY CallIsCall
<1>2. DOMAIN objects = 1 .. Len(objects) /\ Len(objects) \in Nat
  OBVIOUS
<1>3. \A i \in DOMAIN objects : objects[i] \in Objects
  OBVIOUS
<1>4. Each(f, objects) \in [DOMAIN objects -> CallSet]
  BY <1>1, <1>3 DEF Each
<1> QED
  BY <1>2, <1>4

\* main() makes some calls, each legal, and among them those of the router.
LEMMA CallsAreCalls ==
  /\ ConfigurationCalls \in Seq(CallSet)
  /\ Last \in Nat \ {0}
  /\ Items(RouterCalls) \cup PortObjects \subseteq AllCalls
  /\ AllCalls \subseteq CallSet
<1> DEFINE device   == <<Call("AddDevice", "Device", 0, 0)>>
           services == Each("SetServiceEnabled", <<"ReadProperty", "WriteProperty",
                            "WhoIs", "IAm", "WhoHas", "IHave">>)
           objects  == Each("AddObject", <<"AnalogInput", "BinaryInput",
                                           "MultiStateInput">> \o Outputs)
           ports4   == <<Call("AddNetworkPortObject", "NetworkPort", 1, NetworkNumber(1)),
                         Call("AddNetworkPortObject", "NetworkPort", 2, NetworkNumber(2)),
                         Call("EnableDescription", "Device", 0, 0),
                         Call("EnableStateText", "MultiStateInput", 0, 0)>>
           m1 == MakeCommandable(Outputs[1])
           m2 == MakeCommandable(Outputs[2])
           m3 == MakeCommandable(Outputs[3])
<1>1. /\ device \in Seq(CallSet)
      /\ ports4 \in Seq(CallSet)
      /\ PortObjects \subseteq Items(ports4)
  <2>1. /\ Call("AddDevice", "Device", 0, 0) \in CallSet
        /\ Call("AddNetworkPortObject", "NetworkPort", 1, NetworkNumber(1)) \in CallSet
        /\ Call("AddNetworkPortObject", "NetworkPort", 2, NetworkNumber(2)) \in CallSet
        /\ Call("EnableDescription", "Device", 0, 0) \in CallSet
        /\ Call("EnableStateText", "MultiStateInput", 0, 0) \in CallSet
    BY CallIsCall DEF NetworkNumber, Functions, Objects
  <2>2. Items(ports4) =
          {Call("AddNetworkPortObject", "NetworkPort", 1, NetworkNumber(1)),
           Call("AddNetworkPortObject", "NetworkPort", 2, NetworkNumber(2)),
           Call("EnableDescription", "Device", 0, 0),
           Call("EnableStateText", "MultiStateInput", 0, 0)}
    BY ItemsOfFour, Zenon
  <2>3. \A p \in Instances : p = 1 \/ p = 2
    BY DEF Instances
  <2>4. PortObjects \subseteq Items(ports4)
    BY <2>2, <2>3, Zenon DEF PortObjects
  <2> QED
    BY <2>1, <2>4, OneItem, FourItems, Zenon
<1>2. services \in Seq(CallSet)
  <2>1. <<"ReadProperty", "WriteProperty", "WhoIs", "IAm", "WhoHas", "IHave">>
          \in Seq(Objects)
    <3>1. /\ "ReadProperty" \in Objects /\ "WriteProperty" \in Objects
          /\ "WhoIs" \in Objects /\ "IAm" \in Objects
          /\ "WhoHas" \in Objects /\ "IHave" \in Objects
      BY DEF Objects
    <3> QED
      BY <3>1, SixItems, Zenon
  <2> QED
    BY <2>1, EachIsSequence DEF Functions
<1>3. objects \in Seq(CallSet)
  <2>1. <<"AnalogInput", "BinaryInput", "MultiStateInput">> \in Seq(Objects)
        /\ Outputs \in Seq(Objects)
    <3>1. /\ "AnalogInput" \in Objects /\ "BinaryInput" \in Objects
          /\ "MultiStateInput" \in Objects /\ "AnalogOutput" \in Objects
          /\ "BinaryOutput" \in Objects /\ "MultiStateOutput" \in Objects
      BY DEF Objects
    <3> QED
      BY <3>1, ThreeItems, Zenon DEF Outputs
  <2>2. <<"AnalogInput", "BinaryInput", "MultiStateInput">> \o Outputs \in Seq(Objects)
    BY <2>1
  <2> QED
    BY <2>2, EachIsSequence DEF Functions
<1>4. m1 \in Seq(CallSet) /\ m2 \in Seq(CallSet) /\ m3 \in Seq(CallSet)
  <2>1. Outputs[1] \in Objects /\ Outputs[2] \in Objects /\ Outputs[3] \in Objects
    BY DEF Outputs, Objects
  <2> QED
    BY <2>1, CallSequences
<1>5. ConfigurationCalls =
        device \o services \o objects \o ports4 \o m1 \o m2 \o m3 \o RouterCalls
  BY Zenon DEF ConfigurationCalls
<1>6. Len(RouterCalls) = 4
  BY DEF RouterCalls
<1> HIDE DEF device, services, objects, ports4, m1, m2, m3
<1> DEFINE c3 == device \o services \o objects
           c4 == c3 \o ports4
           c5 == c4 \o m1
           c6 == c5 \o m2
           c7 == c6 \o m3
<1>7. ConfigurationCalls = c7 \o RouterCalls
  BY <1>5
<1>8. c3 \in Seq(CallSet)
  BY <1>1, <1>2, <1>3
<1> HIDE DEF c3
<1>9. c4 \in Seq(CallSet) /\ PortObjects \subseteq Items(c4)
  BY <1>1, <1>8, JoinKeeps
<1> HIDE DEF c4
<1>10. c5 \in Seq(CallSet) /\ PortObjects \subseteq Items(c5)
  BY <1>4, <1>9, JoinKeeps
<1> HIDE DEF c5
<1>11. c6 \in Seq(CallSet) /\ PortObjects \subseteq Items(c6)
  BY <1>4, <1>10, JoinKeeps
<1> HIDE DEF c6
<1>12. c7 \in Seq(CallSet) /\ PortObjects \subseteq Items(c7)
  BY <1>4, <1>11, JoinKeeps
<1> HIDE DEF c7
<1>13. /\ ConfigurationCalls \in Seq(CallSet)
       /\ Items(ConfigurationCalls) = Items(c7) \cup Items(RouterCalls)
  BY <1>7, <1>12, CallSequences, JoinedItems
<1>14. Last \in Nat \ {0}
  <2>1. Len(c7 \o RouterCalls) = Len(c7) + Len(RouterCalls) /\ Len(c7) \in Nat
    BY <1>12, CallSequences
  <2> QED
    BY <1>6, <1>7, <2>1 DEF Last
<1>15. AllCalls = Items(ConfigurationCalls)
  BY Zenon DEF AllCalls, Items
<1>16. \A i \in DOMAIN ConfigurationCalls : ConfigurationCalls[i] \in CallSet
  BY <1>13
<1>17. AllCalls \subseteq CallSet
  BY <1>16, Zenon DEF AllCalls
<1> QED
  BY <1>12, <1>13, <1>14, <1>15, <1>17

---------------------------------------------------------------------------
(* The inductive invariant. *)

Early == {"arguments", "bind1", "bind2"}
Late  == {"iam", "router", "numbers", "tick", "poll", "quit"}

MadeBefore(n) == {ConfigurationCalls[i] : i \in 1 .. n - 1}

\* The calls made so far are those before the next one, and nothing is on the
\* wire before all are made.
CallsInv ==
  /\ pc \in Early => step = 1 /\ made = {}
  /\ pc = "configure" => step \in 1 .. Last /\ made = MadeBefore(step)
  /\ pc \in Late => made = AllCalls
  /\ pc \in Early \cup {"configure"} => wire = {}
  /\ wire # {} => made = AllCalls
  /\ \A m \in wire : m.nets \subseteq Networks

\* Where the two ports are by then: main()'s two copies and the transport's
\* table agree, and a socket has the port asked for unless that is 0, which
\* only the default of --port2 can be.
PortsInv ==
  /\ pc \in {"bind1", "bind2", "configure"} \cup Late =>
       /\ ports[1] \in 1 .. MaxPort
       /\ ports[1] # ports[2]
       /\ ports[2] = 0 => ports = <<MaxPort, 0>>
  /\ pc \in {"bind2", "configure"} \cup Late =>
       socket[1] = ports[1] /\ tablePort[1] = ports[1]
  /\ pc \in {"configure"} \cup Late =>
       /\ tablePort[2] = ports[2]
       /\ globalPort = ports
       /\ socket[2] \in 1 .. MaxPort
       /\ ports[2] # 0 => socket[2] = ports[2]
  /\ wire # {} => ports[1] # ports[2]
  /\ \A m \in wire : m.to = ports[m.by]

\* Only the loop has the terminal in raw mode, the flag of RestoreInput says so,
\* and the loop has executed 'q' at most just before it ends.
ConsoleInv ==
  /\ rawMode = rawActive
  /\ rawMode => pc \in {"tick", "poll", "quit"}
  /\ executed["Quit"] > 0 => pc \in {"quit", "exited"}
  /\ pc = "exited" /\ executed["Quit"] > 0 => socket = <<0, 0>>

IInv == TypeOK /\ CallsInv /\ PortsInv /\ ConsoleInv

---------------------------------------------------------------------------
(* What the parts of an action give. *)

LEMMA MaxPortIsNumber == MaxPort \in Nat /\ MaxPort > 0
BY DEF MaxPort

\* An accepted value is one its flag can have.
LEMMA AcceptedValue ==
  ASSUME argv \in Seq(Tokens), NEW flag, NEW i \in Accepted(flag)
  PROVE  IF flag = DeviceFlag THEN argv[i + 1] \in 0 .. MaxDeviceInstance
         ELSE argv[i + 1] \in 1 .. MaxPort
<1>1. CASE flag = DeviceFlag
  <2>1. IsInstance(argv[i + 1])
    BY <1>1 DEF Accepted
  <2> QED
    BY <1>1, <2>1 DEF IsInstance
<1>2. CASE flag # DeviceFlag
  <2>1. IsPort(argv[i + 1])
    BY <1>2 DEF Accepted
  <2>2. argv[i + 1] \in Int
    BY <2>1, MainAssumption DEF IsPort
  <2>3. argv[i + 1] > 0 /\ argv[i + 1] <= MaxPort
    BY <2>1 DEF IsPort
  <2> QED
    BY <1>2, <2>2, <2>3, MaxPortIsNumber
<1> QED
  BY <1>1, <1>2

\* The port after the last one is 0, and after any other the next.
LEMMA PortWraps ==
  ASSUME NEW p \in 1 .. MaxPort
  PROVE  (p + 1) % (MaxPort + 1) = IF p = MaxPort THEN 0 ELSE p + 1
<1>1. ASSUME NEW n \in Nat, NEW a \in Nat, a < n PROVE a % n = a
  BY <1>1
<1>2. ASSUME NEW n \in Nat, n > 0 PROVE n % n = 0
  BY <1>2
<1>3. p \in Nat /\ p <= MaxPort /\ MaxPort \in Nat
  BY MaxPortIsNumber
<1>4. CASE p = MaxPort
  BY <1>2, <1>3, <1>4
<1>5. CASE p # MaxPort
  <2>1. p + 1 \in Nat /\ p + 1 < MaxPort + 1 /\ MaxPort + 1 \in Nat
    BY <1>3, <1>5
  <2> QED
    BY <1>1, <1>5, <2>1
<1> QED
  BY <1>4, <1>5

\* The flags are told apart: what "--port" and "--port2" set is a port.
LEMMA ParsedPorts ==
  ASSUME argv \in Seq(Tokens), NEW p1 \in ParsePortArg, NEW p2 \in ParsePort2(p1)
  PROVE  /\ p1 \in 1 .. MaxPort
         /\ p2 \in 0 .. MaxPort
         /\ p2 = 0 => p1 = MaxPort
<1>1. p1 \in 1 .. MaxPort
  <2>1. CASE Accepted(PortFlag) = {}
    <3>1. p1 = 47808
      BY <2>1 DEF ParsePortArg, FirstAccepted
    <3>2. 47808 <= MaxPort
      BY DEF MaxPort
    <3> QED
      BY <3>1, <3>2, MaxPortIsNumber
  <2>2. CASE Accepted(PortFlag) # {}
    <3>1. PICK i \in Accepted(PortFlag) : p1 = argv[i + 1]
      BY <2>2 DEF ParsePortArg, FirstAccepted
    <3> QED
      BY <3>1, AcceptedValue, MainAssumption
  <2> QED
    BY <2>1, <2>2
<1>2. CASE Accepted(Port2Flag) = {}
  <2>1. p2 = (p1 + 1) % (MaxPort + 1)
    BY <1>2 DEF ParsePort2, DefaultPort2
  <2>2. p2 = IF p1 = MaxPort THEN 0 ELSE p1 + 1
    BY <1>1, <2>1, PortWraps
  <2> QED
    BY <1>1, <2>2, MaxPortIsNumber
<1>3. CASE Accepted(Port2Flag) # {}
  <2>1. PICK i \in Accepted(Port2Flag) : p2 = argv[i + 1]
    BY <1>3 DEF ParsePort2
  <2>2. p2 \in 1 .. MaxPort
    BY <2>1, AcceptedValue, MainAssumption
  <2> QED
    BY <1>1, <2>2, MaxPortIsNumber
<1> QED
  BY <1>1, <1>2, <1>3

LEMMA ParsedInstance ==
  ASSUME argv \in Seq(Tokens), NEW d \in ParseDeviceIdArg
  PROVE  d \in 0 .. MaxDeviceInstance
<1>1. CASE Accepted(DeviceFlag) = {}
  <2>1. d = 389018
    BY <1>1 DEF ParseDeviceIdArg, FirstAccepted
  <2>2. MaxDeviceInstance \in Int /\ 389018 <= MaxDeviceInstance
    BY DEF MaxDeviceInstance
  <2> QED
    BY <2>1, <2>2
<1>2. CASE Accepted(DeviceFlag) # {}
  <2>1. PICK i \in Accepted(DeviceFlag) : d = argv[i + 1]
    BY <1>2 DEF ParseDeviceIdArg, FirstAccepted
  <2> QED
    BY <2>1, AcceptedValue
<1> QED
  BY <1>1, <1>2

\* What a message says of its network and of the port it is sent to.
LEMMA MessageTyped ==
  ASSUME TypeOK, NEW kind \in Kinds, NEW p \in Instances
  PROVE  /\ Message(kind, p) \in Messages
         /\ Message(kind, p).by = p
         /\ Message(kind, p).to \in {tablePort[p], globalPort[p]}
<1>1. RoutingTable \subseteq Networks
  BY CallsAreCalls DEF TypeOK, RoutingTable, CallSet
<1>2. {NetworkNumber(p)} \subseteq Networks
  BY DEF NetworkNumber, Networks, Instances
<1>3. tablePort[p] \in 0 .. MaxPort /\ globalPort[p] \in 0 .. MaxPort
  BY DEF TypeOK
<1> DEFINE nets == CASE kind = "IAmRouterToNetwork" -> RoutingTable
                     [] kind = "NetworkNumberIs"    -> {NetworkNumber(p)}
                     [] OTHER                       -> {}
           to   == IF kind = "IAm" THEN tablePort[p] ELSE globalPort[p]
<1>4. nets \in SUBSET Networks
  BY <1>1, <1>2
<1>5. to \in {tablePort[p], globalPort[p]}
  OBVIOUS
<1>6. Message(kind, p) = [kind |-> kind, by |-> p, to |-> to, nets |-> nets]
  BY DEF Message
<1> HIDE DEF nets, to
<1> QED
  BY <1>3, <1>4, <1>5, <1>6 DEF Messages

LEMMA BroadcastTyped ==
  ASSUME TypeOK, NEW kinds \in SUBSET Kinds, Broadcast(kinds)
  PROVE  /\ wire' \subseteq Messages
         /\ burst' \subseteq Messages
         /\ \A m \in wire' :
              \/ m \in wire
              \/ m.by \in Instances /\ m.to \in {tablePort[m.by], globalPort[m.by]}
<1> DEFINE batch == {Message(kind, p) : kind \in kinds, p \in Instances}
<1>1. \A m \in batch : /\ m \in Messages
                       /\ m.by \in Instances
                       /\ m.to \in {tablePort[m.by], globalPort[m.by]}
  BY MessageTyped
<1>2. burst' = batch /\ \E sent \in SUBSET batch : wire' = wire \cup sent
  BY DEF Broadcast
<1> HIDE DEF batch
<1>3. wire \subseteq Messages
  BY DEF TypeOK
<1> QED
  BY <1>1, <1>2, <1>3

---------------------------------------------------------------------------
(* The console's steps. *)

\* What is left of a sequence when its first items are dropped is one.
LEMMA Rest ==
  ASSUME NEW S, NEW s \in Seq(S), NEW n \in Nat
  PROVE  SubSeq(s, n + 1, Len(s)) \in Seq(S)
<1>1. Len(s) \in Nat /\ \A i \in 1 .. Len(s) : s[i] \in S
  OBVIOUS
<1>2. \A i \in n + 1 .. Len(s) : i \in 1 .. Len(s)
  BY <1>1
<1> QED
  BY <1>1, <1>2

ConsoleBytes == AllKeys \cup {Escape, "[", "A", "B", Prefix, "H", "P"}

LEMMA PressTyped ==
  ASSUME ConsoleTypeOK, NEW k \in Keys, Press(k)
  PROVE  ConsoleTypeOK' /\ rawMode' = rawMode /\ rawActive' = rawActive
<1>1. Bytes(k) \in Seq(ConsoleBytes)
  <2>1. k \in ConsoleBytes /\ \A b \in {Prefix, "H", "P", Escape, "[", "A", "B"} : b \in ConsoleBytes
    BY ConsoleAssumption DEF ConsoleBytes
  <2>2. \/ Bytes(k) = <<Prefix, "H">> \/ Bytes(k) = <<Prefix, "P">>
        \/ Bytes(k) = <<Escape, "[", "A">> \/ Bytes(k) = <<Escape, "[", "B">>
        \/ Bytes(k) = <<k>>
    BY DEF Bytes
  <2>3. \A a, b, c \in ConsoleBytes : /\ <<a>> \in Seq(ConsoleBytes)
                                      /\ <<a, b>> \in Seq(ConsoleBytes)
                                      /\ <<a, b, c>> \in Seq(ConsoleBytes)
    OBVIOUS
  <2> QED
    BY <2>1, <2>2, <2>3
<1>2. stdin' \in Seq(ConsoleBytes)
  BY <1>1 DEF ConsoleTypeOK, Press, ConsoleBytes
<1>3. typed' \in [Keys -> 0 .. MaxTyped]
  BY ConsoleAssumption DEF ConsoleTypeOK, Press
<1> QED
  BY <1>2, <1>3 DEF ConsoleTypeOK, Press, ConsoleBytes

LEMMA PollTyped ==
  ASSUME ConsoleTypeOK, NEW command, PollKey(command)
  PROVE  ConsoleTypeOK' /\ (rawMode = rawActive => rawMode' = rawActive')
<1>1. CASE ~Windows /\ PollTerminal(command)
  <2>1. stdin' \in Seq(ConsoleBytes)
    <3>1. Minimum(3, Len(stdin)) \in Nat
      BY DEF Minimum, ConsoleTypeOK
    <3> QED
      BY <1>1, <3>1, Rest DEF ConsoleTypeOK, PollTerminal, Take, ConsoleBytes
  <2>2. UNCHANGED <<input, typed>>
    BY <1>1 DEF PollTerminal
  <2>3. /\ nonBlocking' \in BOOLEAN /\ rawMode' \in BOOLEAN
        /\ stdinConfigured' \in BOOLEAN /\ rawActive' \in BOOLEAN
        /\ rawMode = rawActive => rawMode' = rawActive'
    BY <1>1 DEF PollTerminal, EnableRawInput
  <2> QED
    BY <2>1, <2>2, <2>3 DEF ConsoleTypeOK, ConsoleBytes
<1>2. CASE PollConsole(command)
  <2>1. stdin' \in Seq(ConsoleBytes)
    <3>1. NextKey[2] \in Nat
      BY DEF NextKey
    <3> QED
      BY <1>2, <3>1, Rest DEF ConsoleTypeOK, PollConsole, ConsoleBytes
  <2> QED
    BY <1>2, <2>1 DEF ConsoleTypeOK, PollConsole, ConsoleBytes
<1> QED
  BY <1>1, <1>2 DEF PollKey

---------------------------------------------------------------------------
(* The inductive invariant holds at first and is kept by every action. *)

LEMMA PortFacts ==
  ASSUME IInv
  PROVE  /\ ports \in [Instances -> 0 .. MaxPort]
         /\ globalPort \in [Instances -> 0 .. MaxPort]
         /\ tablePort \in [Instances -> 0 .. MaxPort]
         /\ socket \in [Instances -> 0 .. MaxPort]
BY DEF IInv, TypeOK

\* A pair of ports is what main() keeps its ports in.
LEMMA PairOfPorts ==
  ASSUME NEW a \in 0 .. MaxPort, NEW b \in 0 .. MaxPort
  PROVE  /\ <<a, b>> \in [Instances -> 0 .. MaxPort]
         /\ <<a, b>>[1] = a
         /\ <<a, b>>[2] = b
BY DEF Instances

LEMMA InitIInv == Init => IInv
<1> SUFFICES ASSUME Init PROVE IInv
  OBVIOUS
<1>1. <<0, 0>> \in [Instances -> 0 .. MaxPort]
  BY PairOfPorts, MaxPortIsNumber
<1>2. <<47808, 47809>> \in [Instances -> 0 .. MaxPort]
  <2>1. 47808 <= MaxPort /\ 47809 <= MaxPort
    BY DEF MaxPort
  <2> QED
    BY <2>1, PairOfPorts, MaxPortIsNumber
<1>3. deviceId \in 0 .. MaxDeviceInstance
  <2>1. MaxDeviceInstance \in Int /\ 389018 <= MaxDeviceInstance
    BY DEF MaxDeviceInstance
  <2> QED
    BY <2>1 DEF Init
<1>4. argv \in Seq(Tokens)
  BY MainAssumption DEF Init
<1>5. step \in 1 .. Last + 1
  BY CallsAreCalls DEF Init
<1>6. ConsoleTypeOK
  <2>1. ConsoleInit
    BY DEF Init
  <2>2. stdin \in Seq(AllKeys \cup {Escape, "[", "A", "B", Prefix, "H", "P"})
    BY <2>1 DEF ConsoleInit
  <2>3. typed \in [Keys -> 0 .. MaxTyped]
    BY <2>1, ConsoleAssumption DEF ConsoleInit
  <2> QED
    BY <2>1, <2>2, <2>3 DEF ConsoleInit, ConsoleTypeOK
<1>7. \A p \in {ports, globalPort, tablePort, socket} :
        p \in [Instances -> 0 .. MaxPort]
  BY <1>1, <1>2 DEF Init
<1>8. executed \in [Commands -> Nat] /\ executed["Quit"] = 0
  BY DEF Init, Commands
<1>9. TypeOK
  <2>1. /\ pc = "arguments" /\ made = {} /\ wire = {} /\ burst = {}
        /\ key = "None" /\ exitCode = Running
    BY DEF Init
  <2> QED
    BY <1>3, <1>4, <1>5, <1>6, <1>7, <1>8, <2>1 DEF TypeOK
<1>10. CallsInv
  <2>1. pc = "arguments" /\ step = 1 /\ made = {} /\ wire = {}
    BY DEF Init
  <2> QED
    BY <2>1 DEF CallsInv, Early, Late
<1>11. PortsInv
  <2>1. pc = "arguments" /\ wire = {}
    BY DEF Init
  <2> QED
    BY <2>1 DEF PortsInv, Late
<1>12. ConsoleInv
  <2>1. ConsoleInit /\ pc = "arguments"
    BY DEF Init
  <2>2. rawMode = rawActive /\ ~rawMode
    BY <2>1 DEF ConsoleInit
  <2> QED
    BY <1>8, <2>1, <2>2 DEF ConsoleInv
<1> QED
  BY <1>9, <1>10, <1>11, <1>12 DEF IInv

LEMMA StopIInv ==
  ASSUME IInv, Stop
  PROVE  IInv'
<1>1. TypeOK'
  <2>1. argv' \in Seq(Tokens)
    BY DEF Stop
  <2>2. ConsoleTypeOK'
    BY DEF IInv, TypeOK, Stop, ConsoleTypeOK, consoleVars
  <2>3. UNCHANGED <<deviceId, ports, globalPort, tablePort, socket, step, made, wire,
                    burst, key, executed>>
    BY DEF Stop, portVars
  <2>4. pc' = "exited" /\ exitCode' \in {0, 1}
    BY DEF Stop, Return
  <2> QED
    BY <2>1, <2>2, <2>3, <2>4 DEF IInv, TypeOK
<1>2. UNCHANGED <<ports, globalPort, tablePort, socket, step, made, wire, executed,
                  rawMode, rawActive>> /\ pc' = "exited" /\ pc = "arguments"
  BY DEF Stop, Return, portVars, consoleVars
<1>3. CallsInv'
  BY <1>2 DEF IInv, CallsInv, Early, Late
<1>4. PortsInv'
  BY <1>2 DEF IInv, PortsInv, Late
<1>5. ConsoleInv'
  BY <1>2 DEF IInv, ConsoleInv
<1> QED
  BY <1>1, <1>3, <1>4, <1>5 DEF IInv

LEMMA ParseIInv ==
  ASSUME IInv, ParseArguments
  PROVE  IInv'
<1>1. PICK p1 \in ParsePortArg : \E p2 \in ParsePort2(p1) :
        /\ ports' = <<p1, p2>>
        /\ IF p2 = p1 THEN Return(1) /\ UNCHANGED deviceId
           ELSE Goto("bind1") /\ deviceId' \in ParseDeviceIdArg
  BY DEF ParseArguments
<1>2. PICK p2 \in ParsePort2(p1) :
        /\ ports' = <<p1, p2>>
        /\ IF p2 = p1 THEN Return(1) /\ UNCHANGED deviceId
           ELSE Goto("bind1") /\ deviceId' \in ParseDeviceIdArg
  BY <1>1
<1>3. /\ pc = "arguments"
      /\ argv' = <<>>
      /\ UNCHANGED <<globalPort, tablePort, socket, step, made, wire, burst, key,
                     executed, consoleVars>>
  BY DEF ParseArguments
<1>4. p1 \in 1 .. MaxPort /\ p2 \in 0 .. MaxPort /\ (p2 = 0 => p1 = MaxPort)
  BY ParsedPorts DEF IInv, TypeOK
<1>5. /\ ports' \in [Instances -> 0 .. MaxPort]
      /\ ports'[1] = p1
      /\ ports'[2] = p2
  BY <1>2, <1>4, PairOfPorts, MaxPortIsNumber
<1>6. deviceId' \in 0 .. MaxDeviceInstance
  BY <1>2, ParsedInstance DEF IInv, TypeOK
<1>7. \/ p1 = p2 /\ pc' = "exited" /\ exitCode' = 1
      \/ p1 # p2 /\ pc' = "bind1" /\ exitCode' = exitCode
  BY <1>2 DEF Return, Goto
<1>8. wire = {} /\ wire' = {}
  BY <1>3 DEF IInv, CallsInv, Early
<1>9. TypeOK'
  <2>1. argv' \in Seq(Tokens)
    BY <1>3
  <2>2. ConsoleTypeOK'
    BY <1>3 DEF IInv, TypeOK, ConsoleTypeOK, consoleVars
  <2> QED
    BY <1>3, <1>5, <1>6, <1>7, <2>1, <2>2 DEF IInv, TypeOK
<1>10. CallsInv'
  BY <1>3, <1>7, <1>8 DEF IInv, CallsInv, Early, Late
<1>11. PortsInv'
  BY <1>2, <1>4, <1>5, <1>7, <1>8 DEF PortsInv, Late
<1>12. ConsoleInv'
  BY <1>3, <1>7 DEF IInv, ConsoleInv, consoleVars
<1> QED
  BY <1>9, <1>10, <1>11, <1>12 DEF IInv

LEMMA BindIInv ==
  ASSUME IInv, Bind
  PROVE  IInv'
<1>1. /\ UNCHANGED <<argv, deviceId, ports, step, made, wire, burst, key, executed,
                     input, stdin, nonBlocking, rawMode, stdinConfigured,
                     rawActive, typed>>
      /\ pc \in {"bind1", "bind2"}
  BY DEF Bind, argVars, consoleVars
<1>2. PICK p \in Instances : SetupUDP(p) /\ pc = IF p = 1 THEN "bind1" ELSE "bind2"
  BY DEF Bind, Instances
<1>3. wire = {} /\ executed["Quit"] \in Nat /\ ~(executed["Quit"] > 0)
  BY <1>1 DEF IInv, TypeOK, CallsInv, ConsoleInv, Early, Commands
<1>4. ConsoleTypeOK'
  BY <1>1 DEF IInv, TypeOK, ConsoleTypeOK
<1>5. CASE Return(1) /\ UNCHANGED <<socket, tablePort, globalPort>>
  <2>1. TypeOK'
    BY <1>1, <1>4, <1>5 DEF IInv, TypeOK, Return
  <2>2. CallsInv'
    BY <1>1, <1>3, <1>5 DEF IInv, CallsInv, Return, Early, Late
  <2>3. PortsInv'
    BY <1>1, <1>3, <1>5 DEF IInv, PortsInv, Return, Late
  <2>4. ConsoleInv'
    BY <1>1, <1>3, <1>5 DEF IInv, ConsoleInv, Return
  <2> QED
    BY <2>1, <2>2, <2>3, <2>4 DEF IInv
<1>6. CASE /\ \E u \in BoundAs(ports[p]) : socket' = [socket EXCEPT ![p] = u]
           /\ tablePort' = [tablePort EXCEPT ![p] = ports[p]]
           /\ IF p = 1 THEN Goto("bind2") /\ UNCHANGED globalPort
              ELSE Goto("configure") /\ KeepPorts
  <2>1. PICK u \in BoundAs(ports[p]) : socket' = [socket EXCEPT ![p] = u]
    BY <1>6
  <2>2. ports[p] \in 0 .. MaxPort
    BY PortFacts
  <2>3. u \in 1 .. MaxPort /\ (ports[p] # 0 => u = ports[p])
    BY <2>2, MainAssumption, MaxPortIsNumber DEF BoundAs
  <2>4. /\ socket' \in [Instances -> 0 .. MaxPort]
        /\ tablePort' \in [Instances -> 0 .. MaxPort]
        /\ globalPort' \in [Instances -> 0 .. MaxPort]
    BY <1>1, <1>6, <2>1, <2>2, <2>3, PortFacts, MaxPortIsNumber DEF KeepPorts
  <2>5. /\ socket'[p] = u /\ tablePort'[p] = ports[p]
        /\ \A q \in Instances \ {p} :
             socket'[q] = socket[q] /\ tablePort'[q] = tablePort[q]
    BY <1>6, <2>1, PortFacts
  <2>6. exitCode' = exitCode /\ pc' \in {"bind2", "configure"}
    BY <1>6 DEF Goto
  <2>7. TypeOK'
    BY <1>1, <1>4, <2>4, <2>6 DEF IInv, TypeOK
  <2>8. CallsInv'
    <3>1. step = 1 /\ made = {} /\ MadeBefore(1) = {} /\ 1 \in 1 .. Last
      BY <1>1, CallsAreCalls DEF IInv, CallsInv, Early, MadeBefore
    <3> QED
      BY <1>1, <1>3, <2>6, <3>1 DEF CallsInv, Early, Late, MadeBefore
  <2>9. PortsInv'
    <3>1. /\ ports[1] \in 1 .. MaxPort
          /\ ports[1] # ports[2]
          /\ ports[2] = 0 => ports = <<MaxPort, 0>>
      BY <1>1 DEF IInv, PortsInv
    <3>2. CASE p = 1
      <4>1. pc' = "bind2" /\ socket'[1] = ports[1] /\ tablePort'[1] = ports[1]
        BY <1>6, <2>3, <2>5, <3>1, <3>2 DEF Goto
      <4> QED
        BY <1>1, <1>3, <3>1, <4>1 DEF PortsInv, Late
    <3>3. CASE p = 2
      <4>1. /\ pc' = "configure" /\ globalPort' = ports
            /\ socket'[2] \in 1 .. MaxPort /\ tablePort'[2] = ports[2]
            /\ ports[2] # 0 => socket'[2] = ports[2]
        BY <1>6, <2>3, <2>5, <3>3 DEF Goto, KeepPorts
      <4>2. socket'[1] = ports[1] /\ tablePort'[1] = ports[1]
        BY <1>2, <2>5, <3>3 DEF IInv, PortsInv, Instances
      <4> QED
        BY <1>1, <1>3, <3>1, <4>1, <4>2 DEF PortsInv, Late
    <3> QED
      BY <3>2, <3>3 DEF Instances
  <2>10. ConsoleInv'
    BY <1>1, <1>3, <2>6 DEF IInv, ConsoleInv
  <2> QED
    BY <2>7, <2>8, <2>9, <2>10 DEF IInv
<1> QED
  BY <1>2, <1>5, <1>6 DEF SetupUDP

LEMMA MadeFacts ==
  ASSUME NEW n, NEW c
  PROVE  c \in MadeBefore(n) <=> \E i \in 1 .. n - 1 : c = ConfigurationCalls[i]
BY DEF MadeBefore

LEMMA ConfigureIInv ==
  ASSUME IInv, Configure
  PROVE  IInv'
<1>1. /\ UNCHANGED <<argv, deviceId, ports, globalPort, tablePort, socket, wire,
                     burst, key, executed, input, stdin, nonBlocking, rawMode,
                     stdinConfigured, rawActive, typed>>
      /\ pc = "configure"
      /\ step' = step + 1
  BY DEF Configure, argVars, portVars, consoleVars
<1>2. /\ step \in 1 .. Last /\ Last \in Nat
      /\ made = MadeBefore(step)
      /\ wire = {}
      /\ step' \in 1 .. Last + 1
  BY <1>1, CallsAreCalls DEF IInv, CallsInv
<1>3. executed["Quit"] \in Nat /\ ~(executed["Quit"] > 0)
  BY <1>1 DEF IInv, TypeOK, ConsoleInv, Commands
<1>4. ConsoleTypeOK'
  BY <1>1 DEF IInv, TypeOK, ConsoleTypeOK
<1>5. CASE Return(1) /\ UNCHANGED made
  <2>1. TypeOK'
    BY <1>1, <1>2, <1>4, <1>5 DEF IInv, TypeOK, Return
  <2>2. CallsInv'
    BY <1>1, <1>2, <1>5 DEF CallsInv, Return, Early, Late
  <2>3. PortsInv'
    BY <1>1, <1>2, <1>5 DEF PortsInv, Return, Late
  <2>4. ConsoleInv'
    BY <1>1, <1>3, <1>5 DEF IInv, ConsoleInv, Return
  <2> QED
    BY <2>1, <2>2, <2>3, <2>4 DEF IInv
<1>6. CASE AfterCall /\ made' = made \cup {ConfigurationCalls[step]}
  <2>1. made' = MadeBefore(step + 1)
    <3>1. \A i : i \in 1 .. step + 1 - 1 <=> (i \in 1 .. step - 1 \/ i = step)
      BY <1>2
    <3>2. \A c : c \in made' <=> (c \in MadeBefore(step) \/ c = ConfigurationCalls[step])
      BY <1>2, <1>6
    <3>3. \A c : c \in made' <=> c \in MadeBefore(step + 1)
      BY <3>1, <3>2, MadeFacts
    <3> QED
      BY <3>3
  <2>2. DOMAIN ConfigurationCalls = 1 .. Last
    BY CallsAreCalls DEF Last
  <2>3. made' \subseteq AllCalls
    BY <1>2, <2>1, <2>2 DEF MadeBefore, AllCalls
  <2>4. exitCode' = exitCode /\ pc' = IF step = Last THEN "iam" ELSE "configure"
    BY <1>6 DEF AfterCall, Goto
  <2>5. step = Last => made' = AllCalls
    <3>1. ASSUME step = Last PROVE \A c : c \in made' <=> c \in AllCalls
      <4>1. \A i : i \in DOMAIN ConfigurationCalls <=> (i \in 1 .. step - 1 \/ i = step)
        BY <1>2, <2>2, <3>1
      <4>2. \A c : c \in AllCalls <=>
                    \E i \in DOMAIN ConfigurationCalls : c = ConfigurationCalls[i]
        BY DEF AllCalls
      <4>3. \A c : c \in made' <=> (c \in MadeBefore(step) \/ c = ConfigurationCalls[step])
        BY <1>2, <1>6
      <4> QED
        BY <4>1, <4>2, <4>3, MadeFacts
    <3> QED
      BY <3>1
  <2>6. TypeOK'
    BY <1>1, <1>2, <1>4, <2>3, <2>4 DEF IInv, TypeOK
  <2>7. CallsInv'
    <3>1. CASE step = Last
      BY <1>1, <1>2, <2>4, <2>5, <3>1 DEF CallsInv, Early, Late
    <3>2. CASE step # Last
      <4>1. step + 1 \in 1 .. Last
        BY <1>2, <3>2
      <4> QED
        BY <1>1, <1>2, <2>1, <2>4, <3>2, <4>1 DEF CallsInv, Early, Late, MadeBefore
    <3> QED
      BY <3>1, <3>2
  <2>8. PortsInv'
    BY <1>1, <1>2, <2>4 DEF IInv, PortsInv, Late
  <2>9. ConsoleInv'
    <3>1. ~rawMode /\ rawMode = rawActive
      BY <1>1 DEF IInv, ConsoleInv
    <3> QED
      BY <1>1, <1>3, <2>4, <3>1 DEF ConsoleInv
  <2> QED
    BY <2>6, <2>7, <2>8, <2>9 DEF IInv
<1> QED
  BY <1>5, <1>6 DEF Configure

\* A broadcast is made when every call is, and to the ports asked for.
LEMMA BroadcastIInv ==
  ASSUME IInv, pc \in Late, pc' \in Late, NEW kinds \in SUBSET Kinds, Broadcast(kinds),
         UNCHANGED <<portVars, step, made>>
  PROVE  CallsInv' /\ PortsInv'
<1>1. UNCHANGED <<ports, globalPort, tablePort, socket, step, made>>
  BY DEF portVars
<1>2. made = AllCalls
  BY DEF IInv, CallsInv
<1>3. /\ wire' \subseteq Messages
      /\ \A m \in wire' :
           \/ m \in wire
           \/ m.by \in Instances /\ m.to \in {tablePort[m.by], globalPort[m.by]}
  BY BroadcastTyped DEF IInv
<1>4. /\ tablePort[1] = ports[1] /\ tablePort[2] = ports[2]
      /\ globalPort = ports
      /\ ports[1] # ports[2]
      /\ \A m \in wire : m.to = ports[m.by]
  BY DEF IInv, PortsInv, Late
<1>5. \A m \in wire' : m.to = ports[m.by]
  BY <1>3, <1>4 DEF Instances
<1>6. \A m \in wire' : m.nets \subseteq Networks
  BY <1>3 DEF Messages
<1>7. CallsInv'
  BY <1>1, <1>2, <1>6 DEF CallsInv, Early, Late
<1>8. PortsInv'
  BY <1>1, <1>4, <1>5 DEF IInv, PortsInv, Late
<1> QED
  BY <1>7, <1>8

LEMMA AnnounceIInv ==
  ASSUME IInv, StartUpAnnouncements
  PROVE  IInv'
<1>1. /\ UNCHANGED <<argv, deviceId, ports, globalPort, tablePort, socket, step, made,
                     key, executed, input, stdin, nonBlocking, rawMode,
                     stdinConfigured, rawActive, typed, exitCode>>
      /\ UNCHANGED <<portVars, step, made>>
      /\ pc \in {"iam", "router", "numbers"}
      /\ pc' \in {"router", "numbers", "tick"}
  BY DEF StartUpAnnouncements, Announce, Goto, argVars, portVars, consoleVars
<1>2. PICK kinds \in SUBSET Kinds : Broadcast(kinds)
  <2>1. {"IAm"} \subseteq Kinds /\ {"IAmRouterToNetwork"} \subseteq Kinds
        /\ {"NetworkNumberIs", "WhoIsRouterToNetwork"} \subseteq Kinds
    BY DEF Kinds
  <2> QED
    BY <2>1 DEF StartUpAnnouncements, Announce
<1>3. CallsInv' /\ PortsInv'
  BY <1>1, <1>2, BroadcastIInv DEF Late
<1>4. wire' \subseteq Messages /\ burst' \subseteq Messages
  BY <1>2, BroadcastTyped DEF IInv
<1>5. ConsoleTypeOK'
  BY <1>1 DEF IInv, TypeOK, ConsoleTypeOK
<1>6. TypeOK'
  BY <1>1, <1>4, <1>5 DEF IInv, TypeOK
<1>7. ConsoleInv'
  <2>1. ~rawMode /\ rawMode = rawActive /\ ~(executed["Quit"] > 0)
    BY <1>1 DEF IInv, ConsoleInv
  <2> QED
    BY <1>1, <2>1 DEF ConsoleInv
<1> QED
  BY <1>3, <1>6, <1>7 DEF IInv

LEMMA TickIInv ==
  ASSUME IInv, Tick
  PROVE  IInv'
<1>1. /\ UNCHANGED <<argv, deviceId, ports, globalPort, tablePort, socket, step, made,
                     wire, key, executed, input, stdin, nonBlocking, rawMode,
                     stdinConfigured, rawActive, typed, exitCode>>
      /\ pc = "tick" /\ pc' = "poll" /\ burst' = {}
  BY DEF Tick, Goto, argVars, portVars, consoleVars
<1>2. ConsoleTypeOK'
  BY <1>1 DEF IInv, TypeOK, ConsoleTypeOK
<1>3. TypeOK'
  BY <1>1, <1>2 DEF IInv, TypeOK
<1>4. CallsInv'
  BY <1>1 DEF IInv, CallsInv, Early, Late
<1>5. PortsInv'
  BY <1>1 DEF IInv, PortsInv, Late
<1>6. ConsoleInv'
  <2>1. rawMode = rawActive /\ ~(executed["Quit"] > 0)
    BY <1>1 DEF IInv, ConsoleInv
  <2> QED
    BY <1>1, <2>1 DEF ConsoleInv
<1> QED
  BY <1>3, <1>4, <1>5, <1>6 DEF IInv

LEMMA PollIInv ==
  ASSUME IInv, Poll
  PROVE  IInv'
<1>1. /\ UNCHANGED <<argv, deviceId, ports, globalPort, tablePort, socket, step, made>>
      /\ UNCHANGED <<portVars, step, made>>
      /\ pc = "poll"
  BY DEF Poll, argVars, portVars
<1>2. PICK command \in Commands \cup {"None"} :
        /\ PollKey(command)
        /\ key' = command
        /\ executed' = [c \in Commands |-> IF c = command THEN executed[c] + 1
                                           ELSE executed[c]]
        /\ Goto(IF command = "Quit" THEN "quit" ELSE "tick")
        /\ IF command = "RouterAnnounce" THEN AnnounceRouterToBothNetworks
           ELSE UNCHANGED <<wire, burst>>
  BY DEF Poll
<1>3. /\ exitCode' = exitCode
      /\ command = "Quit" => pc' = "quit"
      /\ command # "Quit" => pc' = "tick"
  BY <1>2 DEF Goto
<1>4. ConsoleTypeOK' /\ rawMode' = rawActive'
  BY <1>2, PollTyped DEF IInv, TypeOK, ConsoleInv
<1>5. /\ executed' \in [Commands -> Nat]
      /\ command # "Quit" => executed'["Quit"] = executed["Quit"]
  <2>1. executed \in [Commands -> Nat] /\ "Quit" \in Commands
    BY DEF IInv, TypeOK, Commands
  <2>2. \A c \in Commands : executed'[c] \in Nat
    BY <1>2, <2>1
  <2>3. executed' \in [Commands -> Nat]
    BY <1>2, <2>2, Zenon
  <2> QED
    BY <1>2, <2>1, <2>3
<1>6. CallsInv' /\ PortsInv' /\ wire' \subseteq Messages /\ burst' \subseteq Messages
  <2>1. CASE command = "RouterAnnounce"
    <3>1. {"IAmRouterToNetwork"} \in SUBSET Kinds /\ Broadcast({"IAmRouterToNetwork"})
      BY <1>2, <2>1 DEF Kinds, AnnounceRouterToBothNetworks
    <3>2. pc \in Late /\ pc' \in Late
      BY <1>1, <1>3 DEF Late
    <3>3. CallsInv' /\ PortsInv'
      BY <1>1, <3>1, <3>2, BroadcastIInv
    <3>4. wire' \subseteq Messages /\ burst' \subseteq Messages
      BY <3>1, BroadcastTyped DEF IInv
    <3> QED
      BY <3>3, <3>4
  <2>2. CASE command # "RouterAnnounce"
    <3>1. UNCHANGED <<wire, burst>>
      BY <1>2, <2>2
    <3>2. CallsInv'
      BY <1>1, <1>3, <3>1 DEF IInv, CallsInv, Early, Late
    <3>3. PortsInv'
      BY <1>1, <1>3, <3>1 DEF IInv, PortsInv, Late
    <3>4. wire' \subseteq Messages /\ burst' \subseteq Messages
      BY <3>1 DEF IInv, TypeOK
    <3> QED
      BY <3>2, <3>3, <3>4
  <2> QED
    BY <2>1, <2>2
<1>7. TypeOK'
  BY <1>1, <1>2, <1>3, <1>4, <1>5, <1>6 DEF IInv, TypeOK
<1>8. ConsoleInv'
  <2>1. ~(executed["Quit"] > 0)
    BY <1>1 DEF IInv, ConsoleInv
  <2>2. pc' \in {"tick", "quit"} /\ (executed'["Quit"] > 0 => pc' = "quit")
    BY <1>3, <1>5, <2>1
  <2> QED
    BY <1>4, <2>2 DEF ConsoleInv
<1> QED
  BY <1>6, <1>7, <1>8 DEF IInv

LEMMA QuitIInv ==
  ASSUME IInv, Quit
  PROVE  IInv'
<1>1. /\ UNCHANGED <<argv, deviceId, ports, globalPort, tablePort, step, made, wire,
                     burst, key, executed, input, stdin, nonBlocking,
                     stdinConfigured, typed>>
      /\ pc = "quit" /\ pc' = "exited" /\ exitCode' = 0
      /\ socket' = <<0, 0>>
      /\ rawMode' = (rawMode /\ ~rawActive) /\ rawActive' = FALSE
  BY DEF Quit, Return, RestoreInput, PutBack, argVars
<1>2. ~rawMode' /\ rawMode' = rawActive'
  BY <1>1 DEF IInv, ConsoleInv
<1>3. rawMode' \in BOOLEAN /\ rawActive' \in BOOLEAN
  BY <1>1
<1>4. ConsoleTypeOK'
  BY <1>1, <1>3 DEF IInv, TypeOK, ConsoleTypeOK
<1>5. socket' \in [Instances -> 0 .. MaxPort]
  BY <1>1, PairOfPorts, MaxPortIsNumber
<1>6. TypeOK'
  BY <1>1, <1>4, <1>5 DEF IInv, TypeOK
<1>7. CallsInv'
  BY <1>1 DEF IInv, CallsInv, Early, Late
<1>8. PortsInv'
  BY <1>1 DEF IInv, PortsInv, Late
<1>9. ConsoleInv'
  BY <1>1, <1>2 DEF ConsoleInv
<1> QED
  BY <1>6, <1>7, <1>8, <1>9 DEF IInv

LEMMA TypeIInv ==
  ASSUME IInv, Type
  PROVE  IInv'
<1>1. UNCHANGED <<pc, argv, deviceId, ports, globalPort, tablePort, socket, step, made,
                  wire, burst, key, executed, exitCode>> /\ pc \in {"tick", "poll"}
  BY DEF Type, mainVars, argVars, portVars
<1>2. ConsoleTypeOK' /\ rawMode' = rawMode /\ rawActive' = rawActive
  BY PressTyped DEF Type, IInv, TypeOK
<1>3. TypeOK'
  BY <1>1, <1>2 DEF IInv, TypeOK
<1>4. CallsInv'
  BY <1>1 DEF IInv, CallsInv, Early, Late
<1>5. PortsInv'
  BY <1>1 DEF IInv, PortsInv, Late
<1>6. ConsoleInv'
  BY <1>1, <1>2 DEF IInv, ConsoleInv
<1> QED
  BY <1>3, <1>4, <1>5, <1>6 DEF IInv

LEMMA SameIInv ==
  ASSUME IInv, UNCHANGED vars
  PROVE  IInv'
<1>1. UNCHANGED <<pc, argv, deviceId, ports, globalPort, tablePort, socket, step, made,
                  wire, burst, key, executed, exitCode, input, stdin, nonBlocking,
                  rawMode, stdinConfigured, rawActive, typed>>
  BY DEF vars, mainVars, argVars, portVars, consoleVars
<1>2. ConsoleTypeOK'
  BY <1>1 DEF IInv, TypeOK, ConsoleTypeOK
<1>3. TypeOK'
  BY <1>1, <1>2 DEF IInv, TypeOK
<1>4. CallsInv'
  BY <1>1 DEF IInv, CallsInv
<1>5. PortsInv'
  BY <1>1 DEF IInv, PortsInv
<1>6. ConsoleInv'
  BY <1>1 DEF IInv, ConsoleInv
<1> QED
  BY <1>3, <1>4, <1>5, <1>6 DEF IInv

LEMMA NextIInv == IInv /\ [Next]_vars => IInv'
<1> SUFFICES ASSUME IInv, [Next]_vars PROVE IInv'
  OBVIOUS
<1>1. CASE Main
  BY <1>1, StopIInv, ParseIInv, BindIInv, ConfigureIInv, AnnounceIInv, TickIInv,
     PollIInv, QuitIInv DEF Main
<1>2. CASE Type
  BY <1>2, TypeIInv
<1>3. CASE UNCHANGED vars
  BY <1>3, SameIInv
<1> QED
  BY <1>1, <1>2, <1>3 DEF Next, Exited

\* The types, the configuration calls, the ports and the terminal are what
\* main()'s position says, in every state of every run.
THEOREM MainInductive == Spec => []IInv
<1>1. Init => IInv
  BY InitIInv
<1>2. IInv /\ [Next]_vars => IInv'
  BY NextIInv
<1> QED
  BY <1>1, <1>2, PTL DEF Spec

---------------------------------------------------------------------------
(* What follows from it. *)

\* Every variable of main() and of the keyboard keeps its type: the ports stay
\* 16 bits wide, the device instance below 4194303, whatever the command line.
THEOREM TypeCorrect == Spec => []TypeOK
<1>1. IInv => TypeOK
  BY DEF IInv
<1> QED
  BY <1>1, MainInductive, PTL

\* Nothing is broadcast before main()'s last configuration call has succeeded.
THEOREM StartsSilently == Spec => []SilentUntilConfigured
<1>1. IInv => SilentUntilConfigured
  BY DEF IInv, CallsInv, SilentUntilConfigured
<1> QED
  BY <1>1, MainInductive, PTL

\* The networks of the three numbers are all routed to once every call is made.
LEMMA AllAreRouted ==
  ASSUME made = AllCalls, NEW n \in Networks
  PROVE  Routed(n)
<1>1. Items(RouterCalls) =
        {Call("AddRouterPort", "Router", 1, NetworkNumber(1)),
         Call("AddRouterPort", "Router", 2, NetworkNumber(2)),
         Call("AddRouterRoute", "Router", 2, DemoRemoteNetwork),
         Call("SetRouterEnabled", "Router", 0, 0)}
  BY ItemsOfFour, Zenon DEF RouterCalls
<1>2. /\ Call("AddRouterPort", "Router", 1, 1) \in made
      /\ Call("AddRouterPort", "Router", 2, 2) \in made
      /\ Call("AddRouterRoute", "Router", 2, 3) \in made
      /\ Call("SetRouterEnabled", "Router", 0, 0) \in made
  BY <1>1, CallsAreCalls DEF NetworkNumber, DemoRemoteNetwork
<1>3. \A p \in Instances : Call("AddNetworkPortObject", "NetworkPort", p, p) \in made
  BY CallsAreCalls DEF PortObjects, NetworkNumber
<1>4. ASSUME NEW p \in Instances, Call("AddRouterPort", "Router", p, p) \in made,
             n = p \/ Call("AddRouterRoute", "Router", p, n) \in made
      PROVE  Routed(n)
  <2> DEFINE port   == Call("AddRouterPort", "Router", p, p)
             object == Call("AddNetworkPortObject", "NetworkPort", p, p)
  <2>1. port.f = "AddRouterPort" /\ port.net = p /\ port.port = p
    BY DEF Call
  <2>2. object.f = "AddNetworkPortObject" /\ object.net = p /\ object \in made
    BY <1>3 DEF Call
  <2> HIDE DEF object
  <2>3. port \in made
    BY <1>4
  <2> HIDE DEF port
  <2> QED
    BY <1>2, <1>4, <2>1, <2>2, <2>3 DEF Routed
<1>5. CASE n = 1
  BY <1>2, <1>4, <1>5 DEF Instances
<1>6. CASE n = 2
  BY <1>2, <1>4, <1>6 DEF Instances
<1>7. CASE n = 3
  BY <1>2, <1>4, <1>7 DEF Instances
<1> QED
  BY <1>5, <1>6, <1>7 DEF Networks

\* Every network an I-Am-Router-To-Network or a Network-Number-Is names is one
\* the stack was told to route to, by calls that all succeeded.
THEOREM AnnouncementsAreRoutes == Spec => []AnnouncesOnlyWhatItRoutes
<1>1. ASSUME IInv PROVE AnnouncesOnlyWhatItRoutes
  <2> SUFFICES ASSUME NEW m \in wire, NEW n \in m.nets PROVE Routed(n)
    BY DEF AnnouncesOnlyWhatItRoutes
  <2>1. made = AllCalls /\ n \in Networks
    BY <1>1 DEF IInv, CallsInv
  <2> QED
    BY <2>1, AllAreRouted
<1> QED
  BY <1>1, MainInductive, PTL

\* Two broadcasts leave for the same UDP port exactly when they are for the same
\* network, although I-Am and the router messages take it from different copies.
THEOREM NetworksAreSeparate == Spec => []NetworksSeparate
<1>1. ASSUME IInv PROVE NetworksSeparate
  <2> SUFFICES ASSUME NEW m \in wire, NEW n \in wire
               PROVE  m.by = n.by <=> m.to = n.to
    BY DEF NetworksSeparate
  <2>1. m.by \in Instances /\ n.by \in Instances
    BY <1>1 DEF IInv, TypeOK, Messages
  <2>2. m.to = ports[m.by] /\ n.to = ports[n.by] /\ ports[1] # ports[2]
    BY <1>1 DEF IInv, PortsInv
  <2> QED
    BY <2>1, <2>2 DEF Instances
<1> QED
  BY <1>1, MainInductive, PTL

\* In the loop, each network has been announced on the port its socket is bound
\* to, unless the default of the second port has wrapped to 0.
THEOREM AnnouncedOnItsPort == Spec => []AnnouncedWhereItListens
<1>1. ASSUME IInv PROVE AnnouncedWhereItListens
  <2> SUFFICES ASSUME pc \in {"tick", "poll"}, NEW p \in Instances
               PROVE  \/ /\ socket[p] \in 1 .. MaxPort
                         /\ \A m \in wire : m.by = p => m.to = socket[p]
                      \/ p = 2 /\ ports = <<MaxPort, 0>>
    BY DEF AnnouncedWhereItListens
  <2>1. /\ ports[1] \in 1 .. MaxPort /\ socket[1] = ports[1]
        /\ socket[2] \in 1 .. MaxPort
        /\ ports[2] # 0 => socket[2] = ports[2]
        /\ ports[2] = 0 => ports = <<MaxPort, 0>>
        /\ \A m \in wire : m.to = ports[m.by]
    BY <1>1 DEF IInv, PortsInv, Late
  <2>2. CASE p = 1
    BY <2>1, <2>2
  <2>3. CASE p = 2
    BY <2>1, <2>3
  <2> QED
    BY <2>2, <2>3 DEF Instances
<1> QED
  BY <1>1, MainInductive, PTL

\* However the program ends, the terminal is in its own mode; after 'q' no
\* socket is open either.
THEOREM ExitIsClean == Spec => []CleanExit
<1>1. ASSUME IInv PROVE CleanExit
  <2>1. pc = "exited" => ~rawMode
    BY <1>1 DEF IInv, ConsoleInv
  <2>2. pc = "exited" /\ executed["Quit"] > 0 => socket = <<0, 0>>
    BY <1>1 DEF IInv, ConsoleInv
  <2> QED
    BY <2>1, <2>2 DEF CleanExit
<1> QED
  BY <1>1, MainInductive, PTL

---------------------------------------------------------------------------
(* The keyboard's accounting. *)

\* The byte by which a command is recognised: on Windows an arrow's second code.
Mark(command) ==
  CASE command = "Help"           -> "h"
    [] command = "Quit"           -> "q"
    [] command = "RouterAnnounce" -> "r"
    [] command = "ArrowUp"        -> IF Windows THEN "H" ELSE "A"
    [] command = "ArrowDown"      -> IF Windows THEN "P" ELSE "B"

\* The places of a byte in a sequence of bytes.
Places(bytes, b) == {i \in 1 .. Len(bytes) : bytes[i] = b}

Presses(command) ==
  IF KeyOf(command) \in Keys THEN typed[KeyOf(command)] ELSE 0

\* An arrow's second code follows a prefix and a prefix only, and only on
\* Windows are there such codes.
StdinInv ==
  /\ \A i \in 1 .. Len(stdin) :
       stdin[i] \in {"H", "P"} => Windows /\ i > 1 /\ stdin[i - 1] = Prefix
  /\ \A i \in 1 .. Len(stdin) :
       stdin[i] = Prefix => i < Len(stdin) /\ stdin[i + 1] \in {"H", "P"}

\* What has been executed and what waits has been pressed.
CountInv ==
  \A command \in Commands :
    executed[command] + Cardinality(Places(stdin, Mark(command)))
      <= Presses(command)

\* How many places there are, and how many are left of them in a suffix.
LEMMA PlacesCount ==
  ASSUME NEW S, NEW s \in Seq(S), NEW b
  PROVE  IsFiniteSet(Places(s, b)) /\ Cardinality(Places(s, b)) \in Nat
<1>1. Len(s) \in Nat
  OBVIOUS
<1>2. IsFiniteSet(1 .. Len(s))
  BY <1>1, FS_Interval
<1>3. Places(s, b) \in SUBSET (1 .. Len(s))
  BY DEF Places
<1>4. IsFiniteSet(Places(s, b))
  BY <1>2, <1>3, FS_Subset
<1> QED
  BY <1>4, FS_CardinalityType

LEMMA AppendCount ==
  ASSUME NEW S, NEW s \in Seq(S), NEW x \in S, NEW b
  PROVE  Cardinality(Places(Append(s, x), b)) =
           Cardinality(Places(s, b)) + (IF x = b THEN 1 ELSE 0)
<1>1. /\ Len(s) \in Nat
      /\ Len(Append(s, x)) = Len(s) + 1
      /\ \A i \in 1 .. Len(s) : Append(s, x)[i] = s[i]
      /\ Append(s, x)[Len(s) + 1] = x
  OBVIOUS
<1> DEFINE t == Append(s, x)
           n == Len(s) + 1
<1>2. /\ n = Len(s) + 1 /\ Len(t) = n /\ t[n] = x
      /\ \A i \in 1 .. Len(s) : t[i] = s[i]
  BY <1>1
<1> HIDE DEF t, n
<1>3. \A i : i \in 1 .. n <=> (i \in 1 .. Len(s) \/ i = n)
  BY <1>1, <1>2
<1>4. IsFiniteSet(Places(s, b))
  BY PlacesCount
<1>5. n \notin Places(s, b)
  BY <1>1, <1>2 DEF Places
<1>6. CASE x = b
  <2>1. Places(t, b) = Places(s, b) \cup {n}
    BY <1>2, <1>3, <1>6 DEF Places
  <2>2. Cardinality(Places(t, b)) = Cardinality(Places(s, b)) + 1
    BY <1>4, <1>5, <2>1, FS_AddElement
  <2> QED
    BY <1>6, <2>2 DEF t
<1>7. CASE x # b
  <2>1. Places(t, b) = Places(s, b)
    BY <1>2, <1>3, <1>7 DEF Places
  <2>2. Cardinality(Places(s, b)) \in Nat
    BY PlacesCount
  <2> QED
    BY <1>7, <2>1, <2>2 DEF t
<1> QED
  BY <1>6, <1>7

\* Dropping the first n items drops their places, and so one of them at least
\* when b is among these items.
LEMMA SuffixCount ==
  ASSUME NEW S, NEW s \in Seq(S), NEW b, NEW n \in 0 .. Len(s)
  PROVE  /\ Cardinality(Places(SubSeq(s, n + 1, Len(s)), b))
              <= Cardinality(Places(s, b))
         /\ (\E i \in 1 .. n : s[i] = b) =>
              Cardinality(Places(SubSeq(s, n + 1, Len(s)), b)) + 1
                <= Cardinality(Places(s, b))
<1> DEFINE t == SubSeq(s, n + 1, Len(s))
           kept == {i \in Places(s, b) : i > n}
           shift == [i \in Places(t, b) |-> i + n]
<1>1. /\ Len(s) \in Nat /\ n \in Nat /\ n <= Len(s)
      /\ t \in Seq(S)
      /\ Len(t) = Len(s) - n
      /\ \A i \in 1 .. Len(t) : t[i] = s[i + n]
  <2>1. Len(s) \in Nat /\ n \in Nat /\ n <= Len(s)
    OBVIOUS
  <2>2. t \in Seq(S)
    BY <2>1, Rest
  <2>3. Len(t) = Len(s) - n
    BY <2>1
  <2>4. \A i \in 1 .. Len(t) : t[i] = s[i + n]
    BY <2>1, <2>3
  <2> QED
    BY <2>1, <2>2, <2>3, <2>4
<1> HIDE DEF t
<1>2. /\ IsFiniteSet(Places(s, b)) /\ Cardinality(Places(s, b)) \in Nat
      /\ Cardinality(Places(t, b)) \in Nat
  BY <1>1, PlacesCount
<1>3. kept \in SUBSET Places(s, b)
  OBVIOUS
<1>4. IsFiniteSet(kept) /\ Cardinality(kept) <= Cardinality(Places(s, b))
  BY <1>2, <1>3, FS_Subset
<1>5. Cardinality(Places(t, b)) <= Cardinality(kept)
  <2>1. \A i \in Places(t, b) : i \in Nat /\ i + n \in kept
    BY <1>1 DEF Places
  <2>2. shift \in [Places(t, b) -> kept]
    BY <2>1
  <2>3. \A i, j \in Places(t, b) : shift[i] = shift[j] => i = j
    BY <1>1, <2>1
  <2>4. shift \in Injection(Places(t, b), kept)
    BY <2>2, <2>3 DEF Injection, IsInjective
  <2> QED
    BY <1>4, <2>4, FS_Injection
<1>6. Cardinality(kept) \in Nat
  BY <1>4, FS_CardinalityType
<1>7. ASSUME NEW i \in 1 .. n, s[i] = b
      PROVE  Cardinality(kept) + 1 <= Cardinality(Places(s, b))
  <2>1. i \in Places(s, b) /\ i \notin kept
    BY <1>1, <1>7 DEF Places
  <2>2. Cardinality(kept \cup {i}) = Cardinality(kept) + 1
    BY <1>4, <2>1, FS_AddElement
  <2>3. kept \cup {i} \in SUBSET Places(s, b)
    BY <1>3, <2>1
  <2> HIDE DEF kept
  <2> QED
    BY <1>2, <2>2, <2>3, FS_Subset
<1> HIDE DEF kept
<1>8. Cardinality(Places(t, b)) <= Cardinality(Places(s, b))
  BY <1>2, <1>4, <1>5, <1>6
<1>9. (\E i \in 1 .. n : s[i] = b) =>
        Cardinality(Places(t, b)) + 1 <= Cardinality(Places(s, b))
  BY <1>2, <1>5, <1>6, <1>7
<1> QED
  BY <1>8, <1>9 DEF t

LEMMA MarkFacts ==
  ASSUME NEW command \in Commands
  PROVE  \/ Mark(command) = "h" /\ KeyOf(command) = "h"
         \/ Mark(command) = "q" /\ KeyOf(command) = "q"
         \/ Mark(command) = "r" /\ KeyOf(command) = "r"
         \/ Mark(command) = (IF Windows THEN "H" ELSE "A") /\ KeyOf(command) = "up"
         \/ Mark(command) = (IF Windows THEN "P" ELSE "B") /\ KeyOf(command) = "down"
BY DEF Commands, Mark, KeyOf

\* What one press adds: its key's mark once, and no other command's.
LEMMA PressCount ==
  ASSUME ConsoleTypeOK, NEW k \in Keys, Press(k), NEW command \in Commands
  PROVE  Cardinality(Places(stdin', Mark(command))) <=
           Cardinality(Places(stdin, Mark(command)))
             + (IF KeyOf(command) = k THEN 1 ELSE 0)
<1> DEFINE m == Mark(command)
           one(x) == IF x = m THEN 1 ELSE 0
           count(s) == Cardinality(Places(s, m))
<1>1. stdin \in Seq(ConsoleBytes) /\ count(stdin) \in Nat
  BY PlacesCount DEF ConsoleTypeOK, ConsoleBytes
<1>2. ASSUME NEW s \in Seq(ConsoleBytes), NEW x \in ConsoleBytes
      PROVE  Append(s, x) \in Seq(ConsoleBytes) /\ count(Append(s, x)) = count(s) + one(x)
  BY AppendCount
<1> HIDE DEF count
<1>3. ASSUME NEW a \in ConsoleBytes, NEW b \in ConsoleBytes, NEW c \in ConsoleBytes
      PROVE  /\ count(stdin \o <<a>>) = count(stdin) + one(a)
             /\ count(stdin \o <<a, b>>) = count(stdin) + one(a) + one(b)
             /\ count(stdin \o <<a, b, c>>) = count(stdin) + one(a) + one(b) + one(c)
  <2>1. /\ stdin \o <<a>> = Append(stdin, a)
        /\ stdin \o <<a, b>> = Append(Append(stdin, a), b)
        /\ stdin \o <<a, b, c>> = Append(Append(Append(stdin, a), b), c)
    BY <1>1
  <2>2. /\ Append(stdin, a) \in Seq(ConsoleBytes)
        /\ count(Append(stdin, a)) = count(stdin) + one(a)
    BY <1>1, <1>2
  <2>3. /\ Append(Append(stdin, a), b) \in Seq(ConsoleBytes)
        /\ count(Append(Append(stdin, a), b)) = count(stdin) + one(a) + one(b)
    BY <1>2, <2>2
  <2>4. count(Append(Append(Append(stdin, a), b), c))
          = count(stdin) + one(a) + one(b) + one(c)
    BY <1>2, <2>3
  <2> QED
    BY <2>1, <2>2, <2>3, <2>4
<1> HIDE DEF one
<1>4. stdin' = stdin \o Bytes(k)
  BY DEF Press
<1>5. k \in AllKeys /\ k \in ConsoleBytes
  BY ConsoleAssumption DEF ConsoleBytes
<1>6. \A x \in {Prefix, "H", "P", Escape, "[", "A", "B"} : x \in ConsoleBytes
  BY DEF ConsoleBytes
<1>7. CASE k = "up" /\ Windows
  <2>1. Bytes(k) = <<Prefix, "H">>
    BY <1>7 DEF Bytes
  <2>2. one(Prefix) = 0 /\ (one("H") = 1 => KeyOf(command) = k)
    BY <1>7, MarkFacts DEF Prefix, one
  <2>3. count(stdin') = count(stdin) + one(Prefix) + one("H")
    <3>1. Prefix \in ConsoleBytes /\ "H" \in ConsoleBytes
      BY <1>6
    <3>2. count(stdin \o <<Prefix, "H">>) = count(stdin) + one(Prefix) + one("H")
      BY <1>3, <3>1
    <3> QED
      BY <1>4, <2>1, <3>2
  <2> QED
    BY <1>1, <2>2, <2>3 DEF count, one
<1>8. CASE k = "down" /\ Windows
  <2>1. Bytes(k) = <<Prefix, "P">>
    BY <1>8 DEF Bytes
  <2>2. one(Prefix) = 0 /\ (one("P") = 1 => KeyOf(command) = k)
    BY <1>8, MarkFacts DEF Prefix, one
  <2>3. count(stdin') = count(stdin) + one(Prefix) + one("P")
    <3>1. Prefix \in ConsoleBytes /\ "P" \in ConsoleBytes
      BY <1>6
    <3>2. count(stdin \o <<Prefix, "P">>) = count(stdin) + one(Prefix) + one("P")
      BY <1>3, <3>1
    <3> QED
      BY <1>4, <2>1, <3>2
  <2> QED
    BY <1>1, <2>2, <2>3 DEF count, one
<1>9. CASE k = "up" /\ ~Windows
  <2>1. Bytes(k) = <<Escape, "[", "A">>
    BY <1>9 DEF Bytes
  <2>2. one(Escape) = 0 /\ one("[") = 0 /\ (one("A") = 1 => KeyOf(command) = k)
    BY <1>9, MarkFacts DEF Escape, one
  <2>3. count(stdin') = count(stdin) + one(Escape) + one("[") + one("A")
    <3>1. Escape \in ConsoleBytes /\ "[" \in ConsoleBytes /\ "A" \in ConsoleBytes
      BY <1>6
    <3>2. count(stdin \o <<Escape, "[", "A">>) = count(stdin) + one(Escape) + one("[") + one("A")
      BY <1>3, <3>1
    <3> QED
      BY <1>4, <2>1, <3>2
  <2> QED
    BY <1>1, <2>2, <2>3 DEF count, one
<1>10. CASE k = "down" /\ ~Windows
  <2>1. Bytes(k) = <<Escape, "[", "B">>
    BY <1>10 DEF Bytes
  <2>2. one(Escape) = 0 /\ one("[") = 0 /\ (one("B") = 1 => KeyOf(command) = k)
    BY <1>10, MarkFacts DEF Escape, one
  <2>3. count(stdin') = count(stdin) + one(Escape) + one("[") + one("B")
    <3>1. Escape \in ConsoleBytes /\ "[" \in ConsoleBytes /\ "B" \in ConsoleBytes
      BY <1>6
    <3>2. count(stdin \o <<Escape, "[", "B">>) = count(stdin) + one(Escape) + one("[") + one("B")
      BY <1>3, <3>1
    <3> QED
      BY <1>4, <2>1, <3>2
  <2> QED
    BY <1>1, <2>2, <2>3 DEF count, one
<1>11. CASE k \notin {"up", "down"}
  <2>1. Bytes(k) = <<k>>
    BY <1>11 DEF Bytes
  <2>2. one(k) = 1 => KeyOf(command) = k
    BY <1>5, <1>11 DEF one, Commands, Mark, KeyOf, AllKeys
  <2>3. count(stdin') = count(stdin) + one(k)
    BY <1>3, <1>4, <1>5, <2>1
  <2> QED
    BY <1>1, <2>2, <2>3 DEF count, one
<1> QED
  BY <1>7, <1>8, <1>9, <1>10, <1>11

LEMMA PressStdin ==
  ASSUME ConsoleTypeOK, StdinInv, NEW k \in Keys, Press(k)
  PROVE  StdinInv'
<1>1. stdin \in Seq(ConsoleBytes) /\ Len(stdin) \in Nat /\ input' = input
  BY DEF ConsoleTypeOK, ConsoleBytes, Press
<1>2. stdin' = stdin \o Bytes(k)
  BY DEF Press
<1> DEFINE n == Len(stdin)
<1>3. CASE k \in {"up", "down"} /\ Windows
  <2>1. PICK code \in {"H", "P"} : Bytes(k) = <<Prefix, code>>
    BY <1>3 DEF Bytes
  <2>2. /\ Len(stdin') = n + 2
        /\ stdin'[n + 1] = Prefix
        /\ stdin'[n + 2] = code
        /\ \A i \in 1 .. n : stdin'[i] = stdin[i]
    BY <1>1, <1>2, <2>1
  <2>3. \A i \in 1 .. n + 2 : i \in 1 .. n \/ i = n + 1 \/ i = n + 2
    BY <1>1
  <2>4. Windows'
    BY <1>1, <1>3 DEF Windows
  <2>5. \A i \in 1 .. Len(stdin') :
          stdin'[i] \in {"H", "P"} => Windows' /\ i > 1 /\ stdin'[i - 1] = Prefix
    <3> SUFFICES ASSUME NEW i \in 1 .. n + 2, stdin'[i] \in {"H", "P"}
                 PROVE  i > 1 /\ stdin'[i - 1] = Prefix
      BY <2>2, <2>4
    <3>1. CASE i \in 1 .. n
      <4>1. i > 1 /\ stdin[i - 1] = Prefix
        BY <2>2, <3>1 DEF StdinInv
      <4>2. i - 1 \in 1 .. n
        BY <1>1, <3>1, <4>1
      <4> QED
        BY <2>2, <4>1, <4>2
    <3>2. CASE i = n + 1
      BY <2>2, <3>2 DEF Prefix
    <3>3. CASE i = n + 2
      BY <1>1, <2>2, <3>3
    <3> QED
      BY <2>3, <3>1, <3>2, <3>3
  <2>6. \A i \in 1 .. Len(stdin') :
          stdin'[i] = Prefix => i < Len(stdin') /\ stdin'[i + 1] \in {"H", "P"}
    <3> SUFFICES ASSUME NEW i \in 1 .. n + 2, stdin'[i] = Prefix
                 PROVE  i < n + 2 /\ stdin'[i + 1] \in {"H", "P"}
      BY <2>2
    <3>1. CASE i \in 1 .. n
      <4>1. i < n /\ stdin[i + 1] \in {"H", "P"}
        BY <2>2, <3>1 DEF StdinInv
      <4>2. i + 1 \in 1 .. n
        BY <1>1, <3>1, <4>1
      <4> QED
        BY <1>1, <2>2, <4>1, <4>2
    <3>2. CASE i = n + 1
      BY <1>1, <2>2, <3>2
    <3>3. CASE i = n + 2
      BY <2>1, <2>2, <3>3 DEF Prefix
    <3> QED
      BY <2>3, <3>1, <3>2, <3>3
  <2> QED
    BY <2>5, <2>6 DEF StdinInv
<1>4. CASE ~(k \in {"up", "down"} /\ Windows)
  <2>1. /\ Bytes(k) \in Seq(ConsoleBytes)
        /\ \A j \in 1 .. Len(Bytes(k)) : Bytes(k)[j] \notin {"H", "P", Prefix}
    <3>1. \/ Bytes(k) = <<Escape, "[", "A">> \/ Bytes(k) = <<Escape, "[", "B">>
          \/ Bytes(k) = <<k>> /\ k \notin {"up", "down"}
      BY <1>4 DEF Bytes
    <3>2. k \in AllKeys /\ k \in ConsoleBytes
      BY ConsoleAssumption DEF ConsoleBytes
    <3>3. \A x \in {Escape, "[", "A", "B"} : x \in ConsoleBytes
      BY DEF ConsoleBytes
    <3>4. CASE Bytes(k) = <<k>>
      BY <3>2, <3>4 DEF AllKeys, Prefix
    <3>5. CASE Bytes(k) = <<Escape, "[", "A">>
      BY <3>3, <3>5 DEF Escape, Prefix
    <3>6. CASE Bytes(k) = <<Escape, "[", "B">>
      BY <3>3, <3>6 DEF Escape, Prefix
    <3> QED
      BY <3>1, <3>4, <3>5, <3>6
  <2> DEFINE new == Bytes(k)
  <2>2. /\ Len(new) \in Nat
        /\ Len(stdin') = n + Len(new)
        /\ \A i \in 1 .. n : stdin'[i] = stdin[i]
        /\ \A j \in 1 .. Len(new) : stdin'[n + j] = new[j]
    BY <1>1, <1>2, <2>1
  <2>3. \A i \in 1 .. Len(stdin') : stdin'[i] \in {"H", "P", Prefix} => i \in 1 .. n
    <3> SUFFICES ASSUME NEW i \in 1 .. Len(stdin'), i \notin 1 .. n
                 PROVE  stdin'[i] \notin {"H", "P", Prefix}
      OBVIOUS
    <3>1. i - n \in 1 .. Len(new) /\ i = n + (i - n)
      BY <1>1, <2>2
    <3>2. stdin'[i] = new[i - n]
      BY <2>2, <3>1
    <3> QED
      BY <2>1, <3>1, <3>2
  <2>4. ASSUME NEW i \in 1 .. Len(stdin'), stdin'[i] \in {"H", "P"}
        PROVE  Windows' /\ i > 1 /\ stdin'[i - 1] = Prefix
    <3>1. i \in 1 .. n /\ stdin[i] \in {"H", "P"}
      BY <2>2, <2>3, <2>4
    <3>2. Windows /\ i > 1 /\ stdin[i - 1] = Prefix
      BY <3>1 DEF StdinInv
    <3>3. i - 1 \in 1 .. n
      BY <1>1, <3>1, <3>2
    <3> QED
      BY <1>1, <2>2, <3>2, <3>3 DEF Windows
  <2>5. ASSUME NEW i \in 1 .. Len(stdin'), stdin'[i] = Prefix
        PROVE  i < Len(stdin') /\ stdin'[i + 1] \in {"H", "P"}
    <3>1. i \in 1 .. n /\ stdin[i] = Prefix
      BY <2>2, <2>3, <2>5
    <3>2. i < n /\ stdin[i + 1] \in {"H", "P"}
      BY <3>1 DEF StdinInv
    <3>3. i + 1 \in 1 .. n
      BY <1>1, <3>1, <3>2
    <3> QED
      BY <1>1, <2>2, <3>1, <3>2, <3>3
  <2> QED
    BY <2>4, <2>5 DEF StdinInv
<1> QED
  BY <1>3, <1>4

\* What a poll takes out of the input: a prefix of it that ends with a whole
\* key on Windows, and that has the mark of the command it returns.
LEMMA PollTakes ==
  ASSUME ConsoleTypeOK, StdinInv, NEW command, PollKey(command)
  PROVE  \E n \in 0 .. Len(stdin) :
           /\ stdin' = SubSeq(stdin, n + 1, Len(stdin))
           /\ Windows => n = 0 \/ stdin[n] # Prefix
           /\ command \in Commands => \E i \in 1 .. n : stdin[i] = Mark(command)
<1>1. stdin \in Seq(ConsoleBytes) /\ Len(stdin) \in Nat
  BY DEF ConsoleTypeOK, ConsoleBytes
<1>2. CASE ~Windows /\ PollTerminal(command)
  <2> DEFINE n == Minimum(3, Len(stdin))
             buffer == SubSeq(stdin, 1, n)
  <2>1. /\ n \in 0 .. Len(stdin) /\ n <= 3
        /\ Len(stdin) > 0 => n > 0
    BY <1>1 DEF Minimum
  <2>2. stdin' = SubSeq(stdin, n + 1, Len(stdin)) /\ command = Command(buffer)
    BY <1>2 DEF PollTerminal, Take
  <2> HIDE DEF n
  <2>3. /\ Len(buffer) = n
        /\ \A i \in 1 .. n : buffer[i] = stdin[i]
    BY <1>1, <2>1
  <2>4. \A i \in 1 .. n : stdin[i] \notin {"H", "P"}
    BY <1>1, <1>2, <2>1 DEF StdinInv
  <2>5. ASSUME command \in Commands
        PROVE  \E i \in 1 .. n : stdin[i] = Mark(command)
    <3>1. n > 0
      <4>1. SUFFICES ASSUME n = 0 PROVE FALSE
        BY <1>1, <2>1
      <4>2. buffer = <<>>
        BY <2>1, <4>1
      <4> QED
        BY <2>2, <2>5, <4>2 DEF Command, Commands
    <3>2. 1 \in 1 .. n /\ buffer # <<>>
      BY <1>1, <2>1, <2>3, <3>1
    <3> HIDE DEF buffer
    <3>3. CASE Len(buffer) >= 3 /\ buffer[1] = Escape /\ buffer[2] = "["
      <4>1. 3 \in 1 .. n
        BY <1>1, <2>1, <2>3, <3>3
      <4>2. \/ buffer[3] = "A" /\ command = "ArrowUp"
            \/ buffer[3] = "B" /\ command = "ArrowDown"
            \/ command = "None"
        BY <2>2, <3>2, <3>3 DEF Command
      <4>3. command # "None"
        BY <2>5 DEF Commands
      <4>4. buffer[3] = Mark(command)
        BY <1>2, <4>2, <4>3 DEF Mark
      <4> QED
        BY <2>3, <4>1, <4>4
    <3>4. CASE ~(Len(buffer) >= 3 /\ buffer[1] = Escape /\ buffer[2] = "[")
      <4>1. command = Letter(buffer[1])
        BY <2>2, <3>2, <3>4 DEF Command
      <4>2. buffer[1] = stdin[1] /\ stdin[1] # "H"
        BY <2>3, <2>4, <3>2
      <4>3. stdin[1] = Mark(command)
        BY <2>5, <4>1, <4>2 DEF Letter, Mark, Commands
      <4> QED
        BY <3>2, <4>3
    <3> QED
      BY <3>3, <3>4
  <2> QED
    BY <1>2, <2>1, <2>2, <2>5
<1>3. CASE Windows /\ PollConsole(command)
  <2>1. CASE stdin = <<>>
    <3>1. stdin' = stdin /\ command = "None" /\ Len(stdin) = 0
      BY <1>3, <2>1 DEF PollConsole
    <3>2. command \notin Commands
      BY <3>1 DEF Commands
    <3>3. stdin' = SubSeq(stdin, 0 + 1, Len(stdin))
      BY <1>1, <2>1, <3>1
    <3>4. 0 \in 0 .. Len(stdin)
      BY <1>1
    <3> QED
      BY <3>2, <3>3, <3>4
  <2>2. CASE stdin # <<>>
    <3>1. command = NextKey[1] /\ stdin' = SubSeq(stdin, NextKey[2] + 1, Len(stdin))
      BY <1>3, <2>2 DEF PollConsole
    <3>2. 1 \in 1 .. Len(stdin)
      BY <1>1, <2>2
    <3>3. stdin[1] \notin {"H", "P"}
      BY <3>2 DEF StdinInv
    <3>4. CASE stdin[1] # Prefix
      <4>1. NextKey[2] = 1 /\ command = Letter(stdin[1])
        BY <3>1, <3>4 DEF NextKey
      <4>2. command \in Commands => stdin[1] = Mark(command)
        BY <3>3, <4>1 DEF Letter, Mark, Commands
      <4>3. 1 \in 0 .. Len(stdin) /\ 1 \in 1 .. 1
        BY <3>2
      <4>4. stdin' = SubSeq(stdin, 1 + 1, Len(stdin))
        BY <3>1, <4>1
      <4> QED
        BY <3>4, <4>2, <4>3, <4>4
    <3>5. CASE stdin[1] = Prefix
      <4>1. 2 \in 0 .. Len(stdin) /\ 1 \in 1 .. 2 /\ 2 \in 1 .. 2 /\ stdin[2] \in {"H", "P"}
        BY <1>1, <3>2, <3>5 DEF StdinInv
      <4>2. NextKey[2] = 2
        BY <3>5 DEF NextKey
      <4>3. \/ stdin[2] = "H" /\ command = "ArrowUp"
            \/ stdin[2] = "P" /\ command = "ArrowDown"
        BY <3>1, <3>5, <4>1 DEF NextKey
      <4>4. stdin[2] = Mark(command) /\ stdin[2] # Prefix
        BY <1>3, <4>3 DEF Mark, Prefix
      <4>5. stdin' = SubSeq(stdin, 2 + 1, Len(stdin))
        BY <3>1, <4>2
      <4> QED
        BY <4>1, <4>4, <4>5
    <3> QED
      BY <3>4, <3>5
  <2> QED
    BY <2>1, <2>2
<1> QED
  BY <1>2, <1>3 DEF PollKey

LEMMA PollStdin ==
  ASSUME ConsoleTypeOK, StdinInv, NEW command, PollKey(command)
  PROVE  StdinInv'
<1>1. PICK n \in 0 .. Len(stdin) :
        /\ stdin' = SubSeq(stdin, n + 1, Len(stdin))
        /\ Windows => n = 0 \/ stdin[n] # Prefix
  BY PollTakes
<1>2. stdin \in Seq(ConsoleBytes) /\ Len(stdin) \in Nat /\ n \in Nat /\ n <= Len(stdin)
  BY DEF ConsoleTypeOK, ConsoleBytes
<1>3. /\ Len(stdin') = Len(stdin) - n
      /\ \A i \in 1 .. Len(stdin') : stdin'[i] = stdin[i + n]
  BY <1>1, <1>2
<1>4. Windows' = Windows
  BY DEF PollKey, PollTerminal, PollConsole, Windows
<1>5. ASSUME NEW i \in 1 .. Len(stdin'), stdin'[i] \in {"H", "P"}
      PROVE  Windows' /\ i > 1 /\ stdin'[i - 1] = Prefix
  <2>1. i + n \in 1 .. Len(stdin) /\ stdin[i + n] \in {"H", "P"}
    BY <1>2, <1>3, <1>5
  <2>2. Windows /\ i + n > 1 /\ stdin[i + n - 1] = Prefix
    BY <2>1 DEF StdinInv
  <2>3. i # 1
    <3>1. SUFFICES ASSUME i = 1 PROVE FALSE
      OBVIOUS
    <3>2. n > 0 /\ i + n - 1 = n
      BY <1>2, <2>2, <3>1
    <3> QED
      BY <1>1, <2>2, <3>2
  <2>4. i - 1 \in 1 .. Len(stdin') /\ (i - 1) + n = i + n - 1
    BY <1>2, <1>3, <2>3
  <2> QED
    BY <1>3, <1>4, <2>2, <2>4
<1>6. ASSUME NEW i \in 1 .. Len(stdin'), stdin'[i] = Prefix
      PROVE  i < Len(stdin') /\ stdin'[i + 1] \in {"H", "P"}
  <2>1. i + n \in 1 .. Len(stdin) /\ stdin[i + n] = Prefix
    BY <1>2, <1>3, <1>6
  <2>2. i + n < Len(stdin) /\ stdin[i + n + 1] \in {"H", "P"}
    BY <2>1 DEF StdinInv
  <2>3. i + 1 \in 1 .. Len(stdin') /\ (i + 1) + n = i + n + 1
    BY <1>2, <1>3, <2>2
  <2> QED
    BY <1>2, <1>3, <2>2, <2>3
<1> QED
  BY <1>5, <1>6 DEF StdinInv

LEMMA CountFacts ==
  ASSUME TypeOK, NEW command \in Commands
  PROVE  /\ executed[command] \in Nat
         /\ Presses(command) \in Nat
         /\ Cardinality(Places(stdin, Mark(command))) \in Nat
<1>1. stdin \in Seq(ConsoleBytes)
  BY DEF TypeOK, ConsoleTypeOK, ConsoleBytes
<1>2. typed \in [Keys -> 0 .. MaxTyped]
  BY DEF TypeOK, ConsoleTypeOK
<1>3. Presses(command) \in Nat
  BY <1>2, ConsoleAssumption DEF Presses
<1> QED
  BY <1>1, <1>3, PlacesCount DEF TypeOK

LEMMA InitCount == Init => StdinInv /\ CountInv
<1> SUFFICES ASSUME Init PROVE StdinInv /\ CountInv
  OBVIOUS
<1>1. TypeOK
  BY InitIInv DEF IInv
<1>2. stdin = <<>> /\ executed = [c \in Commands |-> 0]
  BY DEF Init, ConsoleInit
<1>3. StdinInv
  BY <1>2 DEF StdinInv
<1>4. ASSUME NEW c \in Commands
      PROVE  executed[c] + Cardinality(Places(stdin, Mark(c))) <= Presses(c)
  <2>1. Places(stdin, Mark(c)) = {}
    BY <1>2 DEF Places
  <2>2. Cardinality(Places(stdin, Mark(c))) = 0
    BY <2>1, FS_EmptySet
  <2>3. executed[c] = 0
    BY <1>2
  <2> QED
    BY <1>1, <2>2, <2>3, CountFacts
<1> QED
  BY <1>3, <1>4 DEF CountInv

LEMMA PressKeepsCount ==
  ASSUME TypeOK, StdinInv, CountInv, Type
  PROVE  StdinInv' /\ CountInv'
<1>1. PICK k \in Keys : Press(k)
  BY DEF Type
<1>2. executed' = executed /\ input' = input
  BY <1>1 DEF Type, Press, mainVars
<1>3. StdinInv'
  BY <1>1, PressStdin DEF TypeOK
<1>4. ASSUME NEW c \in Commands
      PROVE  (executed[c] + Cardinality(Places(stdin, Mark(c))) <= Presses(c))'
  <2>1. Mark(c)' = Mark(c) /\ KeyOf(c)' = KeyOf(c)
    BY <1>2 DEF Mark, KeyOf, Windows
  <2>2. Cardinality(Places(stdin', Mark(c))) <=
          Cardinality(Places(stdin, Mark(c))) + (IF KeyOf(c) = k THEN 1 ELSE 0)
    BY <1>1, PressCount DEF TypeOK
  <2>3. Cardinality(Places(stdin', Mark(c))) \in Nat
    <3>1. stdin' \in Seq(ConsoleBytes)
      BY <1>1, PressTyped DEF TypeOK, ConsoleTypeOK, ConsoleBytes
    <3> QED
      BY <3>1, PlacesCount
  <2>4. Presses(c)' = Presses(c) + (IF KeyOf(c) = k THEN 1 ELSE 0)
    <3>1. /\ typed \in [Keys -> 0 .. MaxTyped]
          /\ typed' = [typed EXCEPT ![k] = @ + 1]
      BY <1>1 DEF TypeOK, ConsoleTypeOK, Press
    <3>2. CASE KeyOf(c) \in Keys
      <4>1. typed[KeyOf(c)] \in Nat
        BY <3>1, <3>2, ConsoleAssumption
      <4> QED
        BY <2>1, <3>1, <3>2, <4>1 DEF Presses
    <3>3. CASE KeyOf(c) \notin Keys
      BY <2>1, <3>3 DEF Presses
    <3> QED
      BY <3>2, <3>3
  <2>5. executed[c] + Cardinality(Places(stdin, Mark(c))) <= Presses(c)
    BY DEF CountInv
  <2>6. executed[c] + Cardinality(Places(stdin', Mark(c))) <= Presses(c)'
    BY <2>2, <2>3, <2>4, <2>5, CountFacts
  <2> QED
    BY <1>2, <2>1, <2>6
<1> QED
  BY <1>3, <1>4 DEF CountInv

LEMMA PollKeepsCount ==
  ASSUME TypeOK, StdinInv, CountInv, Poll
  PROVE  StdinInv' /\ CountInv'
<1>1. PICK command \in Commands \cup {"None"} :
        /\ PollKey(command)
        /\ executed' = [c \in Commands |-> IF c = command THEN executed[c] + 1
                                           ELSE executed[c]]
  BY DEF Poll
<1>2. input' = input /\ typed' = typed
  BY <1>1 DEF PollKey, PollTerminal, PollConsole
<1>3. StdinInv'
  BY <1>1, PollStdin DEF TypeOK
<1>4. PICK n \in 0 .. Len(stdin) :
        /\ stdin' = SubSeq(stdin, n + 1, Len(stdin))
        /\ command \in Commands => \E i \in 1 .. n : stdin[i] = Mark(command)
  BY <1>1, PollTakes DEF TypeOK
<1>5. stdin \in Seq(ConsoleBytes)
  BY DEF TypeOK, ConsoleTypeOK, ConsoleBytes
<1>6. ASSUME NEW c \in Commands
      PROVE  (executed[c] + Cardinality(Places(stdin, Mark(c))) <= Presses(c))'
  <2>1. Mark(c)' = Mark(c) /\ Presses(c)' = Presses(c)
    BY <1>2 DEF Mark, KeyOf, Windows, Presses
  <2>2. /\ Cardinality(Places(stdin', Mark(c))) <= Cardinality(Places(stdin, Mark(c)))
        /\ c = command => Cardinality(Places(stdin', Mark(c))) + 1
                            <= Cardinality(Places(stdin, Mark(c)))
    BY <1>4, <1>5, SuffixCount
  <2>3. Cardinality(Places(stdin', Mark(c))) \in Nat
    <3>1. stdin' \in Seq(ConsoleBytes)
      BY <1>1, PollTyped DEF TypeOK, ConsoleTypeOK, ConsoleBytes
    <3> QED
      BY <3>1, PlacesCount
  <2>4. executed'[c] = IF c = command THEN executed[c] + 1 ELSE executed[c]
    BY <1>1
  <2>5. executed[c] + Cardinality(Places(stdin, Mark(c))) <= Presses(c)
    BY DEF CountInv
  <2>6. executed'[c] + Cardinality(Places(stdin', Mark(c))) <= Presses(c)
    BY <2>2, <2>3, <2>4, <2>5, CountFacts
  <2> QED
    BY <2>1, <2>6
<1> QED
  BY <1>3, <1>6 DEF CountInv

LEMMA NextCount == IInv /\ StdinInv /\ CountInv /\ [Next]_vars => (StdinInv /\ CountInv)'
<1> SUFFICES ASSUME IInv, StdinInv, CountInv, [Next]_vars
             PROVE  (StdinInv /\ CountInv)'
  OBVIOUS
<1>1. CASE UNCHANGED <<input, stdin, typed, executed>>
  <2>1. Windows' = Windows
    BY <1>1 DEF Windows
  <2>2. StdinInv'
    BY <1>1, <2>1 DEF StdinInv
  <2>3. \A c \in Commands : Mark(c)' = Mark(c) /\ Presses(c)' = Presses(c)
    BY <1>1, <2>1 DEF Mark, KeyOf, Presses
  <2>4. \A c \in Commands : Places(stdin', Mark(c)') = Places(stdin, Mark(c))
    BY <1>1, <2>3
  <2>5. CountInv'
    BY <1>1, <2>3, <2>4 DEF CountInv, Places
  <2> QED
    BY <2>2, <2>5
<1>2. CASE Poll
  BY <1>2, PollKeepsCount DEF IInv
<1>3. CASE Type
  BY <1>3, PressKeepsCount DEF IInv
<1>4. CASE Main /\ ~Poll
  <2>1. UNCHANGED <<input, stdin, typed, executed>>
    BY <1>4 DEF Main, Stop, ParseArguments, Bind, Configure, StartUpAnnouncements,
       Announce, Tick, Quit, RestoreInput, consoleVars
  <2> QED
    BY <1>1, <2>1
<1>5. CASE UNCHANGED vars
  BY <1>1, <1>5 DEF vars, mainVars, consoleVars
<1> QED
  BY <1>2, <1>3, <1>4, <1>5 DEF Next, Exited

\* A command is executed at most once for each press of its key: what has been
\* executed and what still waits in the input never exceeds the presses.
THEOREM NoPhantom == Spec => []NoPhantomCommand
<1>1. Init => IInv /\ StdinInv /\ CountInv
  BY InitIInv, InitCount
<1>2. (IInv /\ StdinInv /\ CountInv) /\ [Next]_vars => (IInv /\ StdinInv /\ CountInv)'
  BY NextIInv, NextCount
<1>3. ASSUME IInv, CountInv PROVE NoPhantomCommand
  <2>1. \A c \in Commands : executed[c] <= Presses(c)
    BY <1>3, CountFacts DEF IInv, CountInv
  <2> QED
    BY <2>1 DEF NoPhantomCommand, Presses
<1> QED
  BY <1>1, <1>2, <1>3, PTL DEF Spec

=============================================================================
