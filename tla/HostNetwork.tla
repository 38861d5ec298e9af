---------------------------- MODULE HostNetwork ----------------------------
(***************************************************************************)
(* What the program makes of the host's network interfaces (the POSIX      *)
(* branches of common/CASExampleHelper.cpp and their callers in main.cpp): *)
(* the address and mask its Network Ports report, kept from start-up, and  *)
(* the broadcast address of every announcement, computed anew each time.   *)
(*                                                                         *)
(* The interfaces are the operating system's half: links go up and down,   *)
(* get, change and lose their IPv4 configuration while the program runs.   *)
(* An address is a row of Bits bits, because what the code does to one is  *)
(* bitwise.                                                                *)
(***************************************************************************)
EXTENDS Integers, Sequences, FiniteSets

CONSTANTS
  Interfaces,  \* the interfaces in the order getifaddrs lists them
  Loopback,    \* the one with IFF_LOOPBACK
  Bits,        \* bits of an address, 32 in the code
  Configs      \* [ip, mask] a link may be given

Addresses == [1 .. Bits -> {0, 1}]
NoConfig  == [ip |-> <<>>, mask |-> <<>>]

Links == {Interfaces[i] : i \in DOMAIN Interfaces}

ASSUME HostAssumption ==
  /\ Interfaces \in Seq(Links)
  /\ Bits \in Nat \ {0}
  /\ Configs \subseteq [ip : Addresses, mask : Addresses]

VARIABLES
  up,        \* interface -> IFF_UP
  config,    \* interface -> its IPv4 configuration, or NoConfig
  pc,        \* "read", "iam", "router" or "loop": where main() is
  cached,    \* g_ipAddress and g_ipSubnetMask
  target,    \* announcement -> the broadcast address it was last sent to
  moved      \* the host changed since main() read the address

hostVars == <<up, config>>
vars     == <<hostVars, pc, cached, target, moved>>

Announcements == {"IAm", "Router"}
NotSent       == <<>>
Zeros         == [b \in 1 .. Bits |-> 0]
Limited       == [b \in 1 .. Bits |-> 1]     \* 255.255.255.255

\* Mutant: the loopback interface, which has the first address, is not skipped.
UsableLoopback(l) == up[l] /\ config[l] # NoConfig

Usable(l) == up[l] /\ config[l] # NoConfig /\ l # Loopback

\* The places in the list of the interfaces the loop does not skip.
UsablePlaces == {i \in DOMAIN Interfaces : Usable(Interfaces[i])}

First(S) == CHOOSE i \in S : \A j \in S : i <= j

\* GetPrimaryIPv4: the configuration of the first usable interface, if any.
GetPrimaryIPv4 ==
  IF UsablePlaces = {} THEN NoConfig ELSE config[Interfaces[First(UsablePlaces)]]

\* ip | ~mask
Broadcast(c) == [b \in 1 .. Bits |-> IF c.mask[b] = 1 THEN c.ip[b] ELSE 1]

IAmTarget == IF GetPrimaryIPv4 = NoConfig THEN Limited ELSE Broadcast(GetPrimaryIPv4)

\* Mutant: the mask is used without its complement.
LocalBroadcastUncomplemented ==
  IF GetPrimaryIPv4 = NoConfig THEN Limited
  ELSE [b \in 1 .. Bits |-> IF GetPrimaryIPv4.mask[b] = 1 THEN 1
                            ELSE GetPrimaryIPv4.ip[b]]

\* BuildLocalBroadcastConnectionString, main.cpp's own copy of the computation.
LocalBroadcast ==
  IF GetPrimaryIPv4 = NoConfig THEN Limited ELSE Broadcast(GetPrimaryIPv4)

---------------------------------------------------------------------------
(* The actions. *)

Init ==
  /\ up \in [Links -> BOOLEAN]
  /\ config \in [Links -> Configs \cup {NoConfig}]
  /\ pc = "read"
  /\ cached = [ip |-> Zeros, mask |-> Zeros]
  /\ target = [a \in Announcements |-> NotSent]
  /\ moved = FALSE

\* On failure the buffers are left untouched.
FilledBy(c) == IF c = NoConfig THEN cached ELSE c

ReadLocalAddress ==
  /\ pc = "read"
  /\ pc' = "iam"
  /\ cached' = FilledBy(GetPrimaryIPv4)
  /\ moved' = FALSE
  /\ UNCHANGED <<hostVars, target>>

SendIAm ==
  /\ pc = "iam"
  /\ pc' = "router"
  /\ target' = [target EXCEPT !["IAm"] = IAmTarget]
  /\ UNCHANGED <<hostVars, cached, moved>>

\* At start-up, and again whenever 'r' is pressed.
AnnounceRouter ==
  /\ pc \in {"router", "loop"}
  /\ pc' = "loop"
  /\ target' = [target EXCEPT !["Router"] = LocalBroadcast]
  /\ UNCHANGED <<hostVars, cached, moved>>

\* A link goes up or down, gets another configuration (a lease), or loses it.
HostChanges ==
  /\ \E l \in Links :
       \/ up' = [up EXCEPT ![l] = ~@] /\ UNCHANGED config
       \/ /\ \E c \in Configs \cup {NoConfig} : config' = [config EXCEPT ![l] = c]
          /\ UNCHANGED up
  /\ moved' = TRUE
  /\ UNCHANGED <<pc, cached, target>>

Next == ReadLocalAddress \/ SendIAm \/ AnnounceRouter \/ HostChanges

Spec == Init /\ [][Next]_vars

---------------------------------------------------------------------------
(* Properties. *)

\* An announcement reaches the devices around: whatever the links do, it goes
\* to the broadcast address of a network some usable interface is on at that
\* moment (same bits under the mask, all ones behind it), or to the limited
\* broadcast when there is none; never to a link that is down or the host alone.
OnLocalSubnet(a) ==
  \/ a = Limited
  \/ \E l \in Links \ {Loopback} :
       /\ up[l] /\ config[l] # NoConfig
       /\ \A b \in 1 .. Bits :
            a[b] = IF config[l].mask[b] = 1 THEN config[l].ip[b] ELSE 1

AnnouncesAround ==
  [][\A a \in Announcements :
       target'[a] # target[a] => OnLocalSubnet(target'[a])]_vars

\* What CASExampleHelper.h says of the primary address: it is what the Network
\* Ports report, "and the broadcast (ip | ~mask) is the I-Am target".  It holds
\* of the router messages too, whose address main() computes by itself, and
\* where no address was found (the broadcast of the zeros kept is the limited
\* one), as long as the host is as it was when main() asked: after a new lease
\* the announcements follow it and the Network Ports do not.
TargetIsReported ==
  ~moved /\ pc = "loop" => \A a \in Announcements : target[a] = Broadcast(cached)

=============================================================================
