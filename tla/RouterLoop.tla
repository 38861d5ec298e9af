---------------------------- MODULE RouterLoop ----------------------------
(***************************************************************************)
(* main() of main.cpp joined with the transport it sets up and tears down  *)
(* (module UdpTransport): the two SetupUDP calls, the start-up broadcasts, *)
(* BACnetStack_Tick as the transport sees it, the keyboard between two     *)
(* ticks, and ShutdownUDP.  RouterMain has the same main() in more detail  *)
(* and no datagrams; this module has the datagrams: what waits in the      *)
(* sockets while main() is elsewhere, and what a Tick does with it.        *)
(*                                                                         *)
(* A Tick calls the receive callback "repeatedly per tick until it returns *)
(* 0" (CASExampleHelper.cpp); after a datagram the stack may send a reply  *)
(* on the instance it came in on.  The configuration calls are one step    *)
(* here.  A key is 'q' or 'r', and waits in standard input for its poll,   *)
(* which may drop it: a POSIX poll reads three bytes and obeys the first.  *)
(***************************************************************************)
EXTENDS UdpTransport

CONSTANTS
  PortOf,        \* instance -> its UDP port
  BytesPerPoll,  \* what a poll of the keyboard reads: 3 (POSIX) or 1 (Windows)
  MaxKeys        \* bound: keys waiting in standard input, one of them a 'q'

Both == {1, 2}

ASSUME LoopAssumption ==
  /\ Instances = Both
  /\ PortOf \in [Both -> Ports] /\ PortOf[1] # PortOf[2]
  /\ BytesPerPoll \in {1, 3}
  /\ MaxKeys \in Nat

VARIABLES
  pc,       \* the part of main() that runs
  todo,     \* instances the running announcement has still to broadcast on
  iams,     \* how many of them are I-Am, the first ones
  busy,     \* the network has more to deliver
  stdin,    \* the keys waiting in standard input
  waited    \* handle -> datagrams there since before the running scan, and not
            \* yet looked for by it

loopVars == <<pc, todo, iams, busy, stdin, waited>>
allVars  == <<vars, loopVars>>

\* The start-up broadcasts: I-Am, I-Am-Router-To-Network, Network-Number-Is and
\* Who-Is-Router-To-Network, each on both networks.
StartUp == <<1, 2, 1, 2, 1, 2, 1, 2>>

\* 'r' repeats the second.
Again == <<1, 2>>

LoopInit ==
  /\ Init
  /\ pc = "current"
  /\ todo = <<>>
  /\ iams = 0
  /\ busy = TRUE
  /\ stdin = <<>>
  /\ waited = [h \in Handles |-> 0]

---------------------------------------------------------------------------
(* Start-up. *)

Goto(there) == pc' = there /\ UNCHANGED <<busy, stdin, waited>>

MakeCurrent ==
  /\ pc = "current"
  /\ SetNetworkPortInstance(1)
  /\ Goto("bind1") /\ UNCHANGED <<todo, iams>>

\* A SetupUDP that fails ends the program: the system closes what it opened.
Bind(here, p, there) ==
  /\ pc = here
  /\ SetupUDP(p, PortOf[p])
  /\ Goto(IF \E s \in Slots : inst'[s] = p /\ bound'[s] THEN there ELSE "failed")
  /\ UNCHANGED <<todo, iams>>

Configure ==
  /\ pc = "configure"
  /\ \/ Goto("announce") /\ todo' = StartUp /\ iams' = 2
     \/ Goto("failed") /\ UNCHANGED <<todo, iams>>
  /\ UNCHANGED vars

\* Mutant: both networks' router messages are addressed to the first one.
RouterPortFirst(p) == PortOf[1]

\* The port of a router message: main()'s own copy (g_bacnetIpUdpPort1, 2).
RouterPort(p) == PortOf[p]

\* Each broadcast is sent or lost by itself.
Announce ==
  /\ pc = "announce" /\ todo # <<>>
  /\ \/ iams > 0 /\ SendIAm(Head(todo))
     \/ /\ iams = 0
        /\ HelperSendMessage(Head(todo), RouterPort(Head(todo)), TRUE)
        /\ UNCHANGED <<tableVars, pollVars, sockPort, bypass>>
     \/ UNCHANGED vars
  /\ todo' = Tail(todo)
  /\ iams' = IF iams > 0 THEN iams - 1 ELSE 0
  /\ Goto(IF Len(todo) = 1 THEN "tick" ELSE "announce")

---------------------------------------------------------------------------
(* The loop. *)

Queued == [h \in Handles |-> Len(queue[h])]

\* Mutants: the Tick ends with the first datagram, and only with one.
TickEndsBlocking == pc' = IF PollDatagram THEN "poll" ELSE "tick"
TickEndsEarly == pc' = IF k = count \/ PollDatagram THEN "poll" ELSE "tick"

\* The Tick ends when the callback returns 0.
TickEnds == pc' = IF k = count THEN "poll" ELSE "tick"

TickReceives ==
  /\ pc = "tick"
  /\ Receive
  /\ TickEnds
  /\ waited' = IF k = Idle THEN Queued
               ELSE [h \in Handles |-> IF queue'[h] = queue[h] THEN waited[h] ELSE 0]
  /\ UNCHANGED <<todo, iams, busy, stdin>>

\* The stack answers what the last scan brought in.  "This stack pin cannot forward
\* NPDUs between two ports of the same network type" (docs/PICS.md).
TickReplies ==
  /\ pc = "tick" /\ reported # 0
  /\ \E to \in Ports : Reply(reported, to)
  /\ Goto("tick") /\ UNCHANGED <<todo, iams>>

\* What one read leaves behind.
AfterRead == SubSeq(stdin, BytesPerPoll + 1, Len(stdin))

\* PollKey matches the first byte it read; what it read behind it is lost.
Poll ==
  /\ pc = "poll"
  /\ \/ stdin = <<>> /\ pc' = "tick" /\ UNCHANGED todo
     \/ stdin # <<>> /\ Head(stdin) = "q" /\ pc' = "quit" /\ UNCHANGED todo
     \/ stdin # <<>> /\ Head(stdin) = "r" /\ pc' = "announce" /\ todo' = Again
  /\ stdin' = AfterRead
  /\ UNCHANGED <<vars, iams, busy, waited>>

Quit ==
  /\ pc = "quit"
  /\ ShutdownUDP
  /\ Goto("exited") /\ UNCHANGED <<todo, iams>>

Main ==
  \/ MakeCurrent
  \/ Bind("bind1", 1, "bind2")
  \/ Bind("bind2", 2, "configure")
  \/ Configure
  \/ Announce
  \/ TickReceives
  \/ Poll
  \/ Quit

(* The network and the user. *)
Ended == pc \in {"exited", "failed"}

Delivered ==
  /\ ~Ended /\ busy
  /\ \E h \in Handles : \E d \in {sockPort[h], Blank} : Arrive(h, d)
  /\ UNCHANGED loopVars

\* The network falls silent, if it ever does.
Calm ==
  /\ busy
  /\ busy' = FALSE
  /\ UNCHANGED <<vars, pc, todo, iams, stdin, waited>>

Press ==
  /\ ~Ended /\ Len(stdin) < MaxKeys
  /\ \/ stdin' = Append(stdin, "r")
     \/ (\A i \in DOMAIN stdin : stdin[i] # "q") /\ stdin' = Append(stdin, "q")
  /\ UNCHANGED <<vars, pc, todo, iams, busy, waited>>

Exited == Ended /\ UNCHANGED allVars

LoopNext == Main \/ TickReplies \/ Delivered \/ Calm \/ Press \/ Exited

LoopSpec == LoopInit /\ [][LoopNext]_allVars

\* main() runs on: its calls return and its thread is scheduled.
FairLoopSpec == LoopSpec /\ WF_allVars(Main)

---------------------------------------------------------------------------
(* Properties. *)

\* main() uses the transport within the limits its module sets: SetupUDP once
\* for each instance, and nothing but a scan inside a scan.  No set-up, send or
\* shutdown can therefore meet a half-done scan.
WithinItsLimits == [][Next]_vars

\* What the receive callback's 0 means ("nothing to process this tick"): when a
\* Tick ends, every datagram there since before its last scan has been looked
\* for, at the cost of a recvfrom that may have met something empty before it.
ZeroMeansNothing ==
  [][pc = "tick" /\ pc' = "poll" => \A h \in Handles : waited[h] = 0]_allVars

\* Once the network is silent, a 'q' that is the first byte of its poll ends the
\* program, whatever datagrams are queued, whatever is half announced and whatever
\* keys follow it: a Tick cannot keep going for ever on what it has.  A 'q' read
\* behind another key is lost on POSIX, and promises nothing (run QuitKey).
QuitEnds == stdin # <<>> /\ Head(stdin) = "q" /\ ~busy ~> Ended

\* A datagram waiting at a network's socket is handed to the stack, or the
\* program ends: here from the fairness of main() alone, with announcements,
\* key presses and idle ticks between the scans.
Served == \A p \in Instances : Waiting(p) ~> (reported = p \/ ~Waiting(p) \/ Ended)

=============================================================================
