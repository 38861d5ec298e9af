---------------------------- MODULE RouterMain ----------------------------
(***************************************************************************)
(* main() of main.cpp: the command line, the two sockets, the sequence of  *)
(* calls that configures the BACnet stack as a router, the start-up        *)
(* announcements, and the loop that ticks the stack and serves the         *)
(* keyboard until 'q'.                                                     *)
(*                                                                         *)
(* The stack is external: a configuration call returns true and takes      *)
(* effect, or returns false; a Send call returns true and puts a broadcast *)
(* on the wire, or returns false.  What an I-Am-Router-To-Network          *)
(* announces is the routing table the stack holds at that moment.  What    *)
(* the stack does inside Tick is not modelled here (UdpTransport has its   *)
(* use of the transport).  Command-line values are numbers; a token that   *)
(* is none of the known options and no number is Junk.                     *)
(***************************************************************************)
EXTENDS Console

CONSTANTS
  PortFlag, Port2Flag, DeviceFlag,  \* command-line tokens: --port, --port2,
  HelpFlag, Junk,                   \* --deviceID, and --help, -h or --version
  Numbers,       \* numbers a command-line token may spell
  CommandLines,  \* the command lines the program is started with
  Ephemeral      \* what bind(0) may pick

MaxPort           == 65535
MaxDeviceInstance == 4194302
Flags  == {PortFlag, Port2Flag, DeviceFlag, HelpFlag}
Tokens == Numbers \cup Flags \cup {Junk}

ASSUME MainAssumption ==
  /\ Numbers \subseteq Int
  /\ (Flags \cup {Junk}) \cap Int = {}
  /\ DeviceFlag \notin {PortFlag, Port2Flag}
  /\ CommandLines \subseteq Seq(Tokens)
  /\ Ephemeral \subseteq 1 .. MaxPort

VARIABLES
  pc,           \* the part of main() that runs next
  argv,         \* command line, forgotten once parsed
  deviceId,     \* g_deviceInstance
  ports,        \* instance -> port asked for (port1, port2)
  globalPort,   \* instance -> g_bacnetIpUdpPort1, g_bacnetIpUdpPort2
  tablePort,    \* instance -> UdpBinding.port of the transport's table
  socket,       \* instance -> UDP port its socket is bound to, 0 when closed
  step,         \* the next configuration call
  made,         \* configuration calls in effect in the stack
  wire,         \* broadcasts put on the wire
  burst,        \* broadcasts attempted by the running part of main()
  key,          \* what the last PollKey returned
  executed,     \* command -> how often the loop has executed it
  exitCode      \* 0, 1, or Running

argVars  == <<argv, deviceId>>
portVars == <<ports, globalPort, tablePort, socket>>
mainVars == <<pc, argVars, portVars, step, made, wire, burst, key, executed,
              exitCode>>
vars     == <<mainVars, consoleVars>>

Running   == 2
Instances == {1, 2}
Networks  == {1, 2, 3}
NetworkNumber(p)  == p     \* NETWORK_NUMBER_PORT_1, NETWORK_NUMBER_PORT_2
DemoRemoteNetwork == 3

---------------------------------------------------------------------------
(* The command line. *)

\* Mutant: the lower bound admits 0.
IsPortOrZero(token) == token \in Numbers /\ token >= 0 /\ token <= MaxPort

IsPort(token) == token \in Numbers /\ token > 0 /\ token <= MaxPort

IsInstance(token) == token \in Numbers /\ token \in 0 .. MaxDeviceInstance

\* The places of argv where a flag is followed by a value it accepts.
Accepted(flag) ==
  {i \in 1 .. Len(argv) - 1 :
     /\ argv[i] = flag
     /\ IF flag = DeviceFlag THEN IsInstance(argv[i + 1]) ELSE IsPort(argv[i + 1])}

\* The value of the first accepted use of a flag.
FirstAccepted(flag, default) ==
  IF Accepted(flag) = {} THEN {default}
  ELSE {argv[i + 1] : i \in {i \in Accepted(flag) :
                               \A j \in Accepted(flag) : i <= j}}

ParsePortArg     == FirstAccepted(PortFlag, 47808)
ParseDeviceIdArg == FirstAccepted(DeviceFlag, 389018)

\* Mutant: the default is not cut to 16 bits.
DefaultPort2Wide(p1) == p1 + 1

\* The default of --port2 is --port + 1 in 16 bits.
DefaultPort2(p1) == (p1 + 1) % (MaxPort + 1)

\* main()'s own loop over --port2: the last accepted one wins.
ParsePort2(p1) ==
  IF Accepted(Port2Flag) = {} THEN {DefaultPort2(p1)}
  ELSE {argv[i + 1] : i \in {i \in Accepted(Port2Flag) :
                               \A j \in Accepted(Port2Flag) : j <= i}}

Asked(flag) == \E i \in 1 .. Len(argv) : argv[i] = flag

---------------------------------------------------------------------------
(* The configuration calls, in the order main() makes them. *)

Call(f, on, p, net) == [f |-> f, on |-> on, port |-> p, net |-> net]

Each(f, objects) == [i \in DOMAIN objects |-> Call(f, objects[i], 0, 0)]

Outputs == <<"AnalogOutput", "BinaryOutput", "MultiStateOutput">>

\* The three calls that make one output commandable.
MakeCommandable(object) ==
  <<Call("EnablePriorityArray", object, 0, 0),
    Call("EnableRelinquishDefault", object, 0, 0),
    Call("MakePresentValueWritable", object, 0, 0)>>

\* Mutant: the second port is configured as a Network Port only.
RouterCallsOnePort ==
  <<Call("AddRouterPort", "Router", 1, NetworkNumber(1)),
    Call("AddRouterRoute", "Router", 2, DemoRemoteNetwork),
    Call("SetRouterEnabled", "Router", 0, 0)>>

RouterCalls ==
  <<Call("AddRouterPort", "Router", 1, NetworkNumber(1)),
    Call("AddRouterPort", "Router", 2, NetworkNumber(2)),
    Call("AddRouterRoute", "Router", 2, DemoRemoteNetwork),
    Call("SetRouterEnabled", "Router", 0, 0)>>

ConfigurationCalls ==
  <<Call("AddDevice", "Device", 0, 0)>>
  \o Each("SetServiceEnabled", <<"ReadProperty", "WriteProperty", "WhoIs",
                                 "IAm", "WhoHas", "IHave">>)
  \o Each("AddObject", <<"AnalogInput", "BinaryInput", "MultiStateInput">>
                       \o Outputs)
  \o <<Call("AddNetworkPortObject", "NetworkPort", 1, NetworkNumber(1)),
       Call("AddNetworkPortObject", "NetworkPort", 2, NetworkNumber(2)),
       Call("EnableDescription", "Device", 0, 0),
       Call("EnableStateText", "MultiStateInput", 0, 0)>>
  \o MakeCommandable(Outputs[1])
  \o MakeCommandable(Outputs[2])
  \o MakeCommandable(Outputs[3])
  \o RouterCalls

AllCalls == {ConfigurationCalls[i] : i \in DOMAIN ConfigurationCalls}

---------------------------------------------------------------------------
(* Sending. *)

\* The networks in the routing table: those of the router ports and routes.
RoutingTable ==
  {c.net : c \in {d \in made : d.f \in {"AddRouterPort", "AddRouterRoute"}}}

\* The port of the broadcast address: SendIAm takes it from the transport's
\* table, the router messages from main()'s own copy.
Message(kind, p) ==
  [kind |-> kind, by |-> p,
   to   |-> IF kind = "IAm" THEN tablePort[p] ELSE globalPort[p],
   nets |-> CASE kind = "IAmRouterToNetwork" -> RoutingTable
              [] kind = "NetworkNumberIs"    -> {NetworkNumber(p)}
              [] OTHER                       -> {}]

\* Every kind is sent on both ports; each Send succeeds or fails by itself, and
\* no result stops the program.
Broadcast(kinds) ==
  LET batch == {Message(kind, p) : kind \in kinds, p \in Instances}
  IN  /\ burst' = batch
      /\ \E sent \in SUBSET batch : wire' = wire \cup sent

AnnounceRouterToBothNetworks == Broadcast({"IAmRouterToNetwork"})

---------------------------------------------------------------------------
(* The actions. *)

Goto(there) == pc' = there /\ UNCHANGED exitCode
Return(code) == pc' = "exited" /\ exitCode' = code

\* LoadBACnetFunctions fails, or --help and --version print and stop.
Stop ==
  /\ pc = "arguments"
  /\ \/ Return(1)
     \/ Asked(HelpFlag) /\ Return(0)
  /\ argv' = <<>>
  /\ UNCHANGED <<deviceId, portVars, step, made, wire, burst, key, executed,
                 consoleVars>>

ParseArguments ==
  /\ pc = "arguments"
  /\ ~Asked(HelpFlag)
  /\ \E p1 \in ParsePortArg : \E p2 \in ParsePort2(p1) :
       /\ ports' = <<p1, p2>>
       /\ IF p2 = p1 THEN Return(1) /\ UNCHANGED deviceId
          ELSE Goto("bind1") /\ deviceId' \in ParseDeviceIdArg
  /\ argv' = <<>>
  /\ UNCHANGED <<globalPort, tablePort, socket, step, made, wire, burst, key,
                 executed, consoleVars>>

\* Mutant: main() forgets to copy the ports for the router messages.
KeepPortsNot == UNCHANGED globalPort

KeepPorts == globalPort' = ports

\* What bind() makes of the port asked for: 0 lets the system choose.
BoundAs(u) == IF u = 0 THEN Ephemeral \ {socket[1]} ELSE {u}

\* SetupUDP for an instance; a port that cannot be bound ends the program.
SetupUDP(p) ==
  \/ Return(1) /\ UNCHANGED <<socket, tablePort, globalPort>>
  \/ /\ \E u \in BoundAs(ports[p]) : socket' = [socket EXCEPT ![p] = u]
     /\ tablePort' = [tablePort EXCEPT ![p] = ports[p]]
     /\ IF p = 1 THEN Goto("bind2") /\ UNCHANGED globalPort
        ELSE Goto("configure") /\ KeepPorts

Bind ==
  /\ \/ pc = "bind1" /\ SetupUDP(1)
     \/ pc = "bind2" /\ SetupUDP(2)
  /\ UNCHANGED <<argVars, ports, step, made, wire, burst, key, executed,
                 consoleVars>>

Last == Len(ConfigurationCalls)
\* Mutant: the announcements start before the last call.
AnnounceTooEarly == Goto(IF step >= Last - 1 THEN "iam" ELSE "configure")

AfterCall == Goto(IF step = Last THEN "iam" ELSE "configure")

Configure ==
  /\ pc = "configure"
  /\ \/ AfterCall /\ made' = made \cup {ConfigurationCalls[step]}
     \/ Return(1) /\ UNCHANGED made
  /\ step' = step + 1
  /\ UNCHANGED <<argVars, portVars, wire, burst, key, executed, consoleVars>>

\* The start-up broadcasts: I-Am on each network, the router announcement, then
\* each network's number and the query for other routers.
Announce(here, there, kinds) ==
  /\ pc = here
  /\ Broadcast(kinds)
  /\ Goto(there)
  /\ UNCHANGED <<argVars, portVars, step, made, key, executed, consoleVars>>

StartUpAnnouncements ==
  \/ Announce("iam", "router", {"IAm"})
  \/ Announce("router", "numbers", {"IAmRouterToNetwork"})
  \/ Announce("numbers", "tick", {"NetworkNumberIs", "WhoIsRouterToNetwork"})

Tick ==
  /\ pc = "tick"
  /\ Goto("poll")
  /\ burst' = {}
  /\ UNCHANGED <<argVars, portVars, step, made, wire, key, executed, consoleVars>>

\* One turn of the switch: the key is polled and its command executed.
Poll ==
  /\ pc = "poll"
  /\ \E command \in Commands \cup {"None"} :
       /\ PollKey(command)
       /\ key' = command
       /\ executed' = [c \in Commands |-> IF c = command THEN executed[c] + 1
                                          ELSE executed[c]]
       /\ Goto(IF command = "Quit" THEN "quit" ELSE "tick")
       /\ IF command = "RouterAnnounce" THEN AnnounceRouterToBothNetworks
          ELSE UNCHANGED <<wire, burst>>
  /\ UNCHANGED <<argVars, portVars, step, made>>

Quit ==
  /\ pc = "quit"
  /\ RestoreInput
  /\ socket' = <<0, 0>>
  /\ Return(0)
  /\ UNCHANGED <<argVars, ports, globalPort, tablePort, step, made, wire, burst, key,
                 executed>>

Main ==
  \/ Stop
  \/ ParseArguments
  \/ Bind
  \/ Configure
  \/ StartUpAnnouncements
  \/ Tick
  \/ Poll
  \/ Quit

\* Keys pressed before the first turn of the loop wait in the input until then,
\* as keys pressed between two polls do.
Type ==
  /\ pc \in {"tick", "poll"}
  /\ \E k \in Keys : Press(k)
  /\ UNCHANGED mainVars

Init ==
  /\ ConsoleInit
  /\ pc = "arguments"
  /\ argv \in CommandLines
  /\ deviceId = 389018
  /\ ports = <<0, 0>>
  /\ globalPort = <<47808, 47809>>
  /\ tablePort = <<0, 0>>
  /\ socket = <<0, 0>>
  /\ step = 1
  /\ made = {}
  /\ wire = {}
  /\ burst = {}
  /\ key = "None"
  /\ executed = [c \in Commands |-> 0]
  /\ exitCode = Running

\* The program has ended; any other state without a step is a deadlock.
Exited == pc = "exited" /\ UNCHANGED vars

Next == Main \/ Type \/ Exited

Spec == Init /\ [][Next]_vars

\* main() keeps running as long as nothing it calls blocks.
FairSpec == Spec /\ WF_vars(Main)

---------------------------------------------------------------------------
(* Properties. *)

Kinds == {"IAm", "IAmRouterToNetwork", "NetworkNumberIs",
          "WhoIsRouterToNetwork"}
Messages == [kind : Kinds, by : Instances, to : 0 .. MaxPort,
             nets : SUBSET Networks]

TypeOK ==
  /\ ConsoleTypeOK
  /\ pc \in {"arguments", "bind1", "bind2", "configure", "iam", "router",
             "numbers", "tick", "poll", "quit", "exited"}
  /\ argv \in Seq(Tokens)
  /\ deviceId \in 0 .. MaxDeviceInstance
  /\ \A p \in {ports, globalPort, tablePort, socket} :
       p \in [Instances -> 0 .. MaxPort]
  /\ step \in 1 .. Last + 1
  /\ made \subseteq AllCalls
  /\ wire \subseteq Messages
  /\ burst \subseteq Messages
  /\ key \in Commands \cup {"None"}
  /\ executed \in [Commands -> Nat]
  /\ exitCode \in {0, 1, Running}

\* Nothing is broadcast before every configuration call has succeeded: a start
\* that fails at any call, which main() answers with return 1, leaves no trace
\* on either network.
SilentUntilConfigured == wire # {} => made = AllCalls

\* A network this router announces, whether at start-up or on the 'r' key, is
\* one it routes to: routing is enabled, and a router port with the number of
\* an existing Network Port object connects it or leads to it.
Routed(n) ==
  /\ Call("SetRouterEnabled", "Router", 0, 0) \in made
  /\ \E port \in made, object \in made :
       /\ port.f = "AddRouterPort"
       /\ object.f = "AddNetworkPortObject"
       /\ object.net = port.net
       /\ \/ n = port.net
          \/ Call("AddRouterRoute", "Router", port.port, n) \in made

AnnouncesOnlyWhatItRoutes == \A m \in wire : \A n \in m.nets : Routed(n)

\* Broadcasts for the two networks never share a UDP port, and all broadcasts
\* for one network agree on it, although I-Am takes the port from the
\* transport's table and the router messages from main()'s own copy.
NetworksSeparate == \A m, n \in wire : m.by = n.by <=> m.to = n.to

KeyOf(command) ==
  CASE command = "Help"           -> "h"
    [] command = "Quit"           -> "q"
    [] command = "RouterAnnounce" -> "r"
    [] command = "ArrowUp"        -> "up"
    [] command = "ArrowDown"      -> "down"

\* However key presses and reads interleave, a command is executed at most once
\* for each press of its key, and no bytes of another key are taken for it.
NoPhantomCommand ==
  \A command \in Commands :
    executed[command] <= IF KeyOf(command) \in Keys THEN typed[KeyOf(command)]
                         ELSE 0

\* After 'q', and after any early return, the terminal is in its own mode; after
\* 'q' no socket is open either ("Restore the terminal to its normal mode.
\* Call once before the program exits", CASExampleHelper.h).
CleanExit ==
  pc = "exited" => ~rawMode /\ (executed["Quit"] > 0 => socket = <<0, 0>>)

\* The keyboard never stops the device from serving the network: whatever
\* standard input is, a poll returns and the next tick follows (the case
\* common/CHANGELOG.md's fix of EnableRawInput is about).
NeverDeaf == pc = "poll" ~> pc \in {"tick", "exited"}

\* Each network is announced on the UDP port the program listens on for it, and
\* the port is one that can be given ("want 1..65535", main.cpp): except with
\* --port 65535 and no --port2, where the default of the second port wraps to 0,
\* the system picks the port that is bound, and the announcements say 0.
AnnouncedWhereItListens ==
  pc \in {"tick", "poll"} =>
    \A p \in Instances :
      \/ /\ socket[p] \in 1 .. MaxPort
         /\ \A m \in wire : m.by = p => m.to = socket[p]
      \/ p = 2 /\ ports = <<MaxPort, 0>>

\* What the key list promises ("q - quit"): a 'q' pressed while the program runs
\* ends it.  The POSIX build loses it when another key is read with it; the
\* Windows build keeps it, whatever was pressed before.
QuitHonoured == "q" \in Keys /\ typed["q"] > 0 ~> pc = "exited"

QuitOnWindows ==
  "q" \in Keys /\ typed["q"] > 0 /\ Windows ~> pc = "exited"

=============================================================================
