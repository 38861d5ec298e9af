# A verification model of the B-RTR router example

These modules model the application code of the BACnet B-RTR (router) example in
C++: `src/main.cpp` and the shared helper in `src/common/`. They say what the
code must keep true, check it with TLC on small instances, and prove the parts
that matter most for every instance with TLAPS.

The program is one thread. Its hard parts are not data races but the order of
things that thread does not control: datagrams that arrive while a scan of the
sockets is half done, sockets that fail to bind, configuration calls that fail
in the middle, keys that arrive between two polls, requests that overlap a
pending restart, clients that command the same output at several priorities,
and frames that end anywhere.

## The system

| Part | State it keeps | Operations | Talks to |
|---|---|---|---|
| UDP transport (`CASExampleHelper.cpp`, `SimpleUDP.cpp`) | table of up to 4 bindings (instance, port, socket), current instance and port, poll position | `SetupUDP`, `ShutdownUDP`, `SetNetworkPortInstance`, `HelperReceiveMessage`, `HelperSendMessage`, `SendIAm` | called by `main()` at start and end, and by the stack inside `Tick`; uses the operating system's sockets |
| Commandable outputs (`main.cpp`) | three priority arrays (`isSet`, `value`) | `SetPropertyReal/Enumerated/UnsignedInteger/Null`, slot getters | called by the stack inside `Tick` |
| `main()` | parsed ports and device instance, what is configured in the stack, the local address, loop state | parse, bind, configure, announce, loop, quit | all other parts |
| Keyboard (`CASExampleHelper.cpp`) | terminal mode, `O_NONBLOCK`, lazy-setup flags; on Windows none | `PollKey`, `EnableRawInput`, `RestoreInput` | called once per turn of the loop |
| Deferred restart (`CASExampleHelper.cpp`) | one flag, one deadline, one kind | `RequestRestart`, `RestartDue` | a callback inside `Tick` asks, the loop checks after `Tick`; this example's `main()` does not use it |
| Property getters (`main.cpp`) | none of their own | one callback per datatype answers by device, object, property and index | called by the stack; read the priority arrays |
| Frame decoder (`CASExampleHelper.cpp`) | none | `DecodeTagHeader`, `DecodeObjectAndProperty`, `DecodeBacnetFrame`, `SummarizeBacnetFrame` | called by the transport callbacks for every frame received or sent |
| Name tables (`CASExampleHelper.cpp`) | none | `LookUpIdName`, `ConfirmedServiceName` and the like | called by the summary for every number it shows |
| XML dump (`CASExampleHelper.cpp`) | one flag, which `main()` never sets | print a decoded frame | uses the frame decoder |
| Host queries (`CASExampleHelper.cpp`) | none | primary IPv4 address, link speed, clock | called by `main()` and by every announcement |
| `CASExampleLog`, constants, build | none of interest | | |
| CAS BACnet Stack | everything of the protocol | `BACnetStack_*` | a submodule whose sources are not here |

What makes each part correct, and which behaviour is hard:

- **Transport.** A datagram is reported under the network it arrived on; what is
  sent for a network leaves by that network's socket; no network starves
  another; the table stays keyed by instance through failed and repeated
  set-ups; shutdown leaves no socket open. Hard: the network delivers between
  any two `recvfrom` of one scan, and the rotation position survives everything.
- **Outputs.** The two arrays are a faithful store of the commands in force: an
  acknowledged write is never lost and a withdrawn one never returns. Hard: a
  relinquish leaves the old value behind, and Present_Value is resolved from two
  different callbacks.
- **`main()`.** Nothing is broadcast before the configuration is complete, what
  is announced is routed, and the two networks are never mixed up. Hard: every
  call may fail, and ports are kept in two places.
- **Keyboard.** The loop never blocks in `read()`, a command is executed at most
  once per key press, the terminal is restored. Hard: the read takes up to three
  bytes whatever they are.
- **Deferred restart.** No restart before its acknowledgement, none postponed or
  downgraded, exactly one. Hard: requests overlap.
- **Frame decoder.** What it reports is in the frame and means what the sender
  meant; a frame cut short says less and nothing else. Hard: every offset depends
  on octets read before it, and the frame may end between any two.
- **Property getters.** What a client reads of an output is the commands in
  force, and what the application documents as its own it answers. Hard: what a
  callback declines by mistake the stack makes up, so nothing fails visibly.
- **Name tables.** A number gets its own name or none, and the search ends and
  stays inside the table. Hard: half of that rests on the order of 500 rows that
  nothing checks.
- **Host queries.** Announcements reach the network around, and the Network
  Ports report the address they are made from. Hard: the same address is read
  once in one place and at every announcement in two others.

## Modules

| Module | Models | Checked by |
|---|---|---|
| `UdpTransport` | the transport and the sockets under it | `MCUdpTransport` |
| `CommandArbiter` | abstract: a set of commands in force | as a property |
| `Commandable` | the priority arrays, set and get callbacks; implements `CommandArbiter` | `MCPropertyServer` |
| `PropertyServer` | the get callbacks, over the arrays of `Commandable`, which it extends | `MCPropertyServer` |
| `Console` | standard input, the terminal, `PollKey` of both builds | through `RouterMain` |
| `RouterMain` | `main()` from argv to exit; extends `Console` | `MCRouterMain` |
| `RouterLoop` | `main()` over the transport and its datagrams; extends `UdpTransport` | `MCRouterLoop` |
| `HostNetwork` | the host's interfaces, the address kept, the address announced to | `MCHostNetwork` |
| `RestartPromise` | abstract: every request remembered, strongest kind wins | as a property |
| `DeferredRestart` | flag, deadline and kind, in the loop; implements `RestartPromise` | itself |
| `FrameFormat` | reference: how a message is encoded, and what it says | through `FrameDecode` |
| `FrameDecode` | the decoder and what the summary shows, on changed and cut frames | `MCFrameDecode` |
| `NameTables` | data: the ids of the file's tables, row by row | through `NameLookup` |
| `NameLookup` | the binary search turn by turn, and the indexed tables | `MCNameLookup` |
| `UdpTransport_proofs`, `RouterLoop_proofs` | theorems of the transport, and of the loop over it | TLAPS |
| `RouterMain_proofs` | theorems of `main()` and the keyboard | TLAPS |
| `Commandable_proofs` | theorems of the priority arrays and of the get callbacks in `PropertyServer` | TLAPS |
| `DeferredRestart_proofs`, `FrameDecode_proofs`, `NameLookup_proofs`, `HostNetwork_proofs` | theorems of the module they are named for | TLAPS |

### UdpTransport

The variables are the binding table column by column (`inst`, `port`, `bound`,
and `SimpleUDP`'s `sock` and `connected`), `g_networkPortInstance` and `g_port`
(`gInst`, `gPort`), the static `s_nextBindingToCheck` (`next`), the loop index of
a running `HelperReceiveMessage` (`k`), and the operating system's half:
`sockPort` and `queue` per socket handle. `reported` and `sent` are what the last
completed receive and the last send produced, and `bypass` counts, for each
socket with something queued, how often other sockets were serviced since.

`HelperReceiveMessage` is split at each `recvfrom` (`BeginReceive`,
`PollNothing`, `PollBlank`, `PollDatagram`, `EndIdle`), because `Arrive` may
happen between any two. A datagram is abstracted to the UDP port it was sent
to; `Blank` is what makes `recvfrom` return nothing although something was
queued. `SetupUDP` fails at `socket()` or at `bind()` with the slot already
counted, as in the code. A broadcast also reaches this host's own sockets on
that port (`Loopback`), as the README of the example warns. A full table refuses
a further instance, which changes nothing and is not a step.

### Commandable

`isSet` and `value` are the two arrays. Each set callback is a total action: a
request it does not take is declined and leaves every slot alone. The abstract
`CommandArbiter` has only the set of commands in force; the refinement maps it
to the slots whose flag is set. `PresentValue` is how the stack resolves it from
`GetPropertyBool` and the typed getter, and is external, as is the routing of a
request to the callback of its datatype.

### PropertyServer

The six get callbacks as operators on a query (object, property, index): each
returns the one value it answers or, when it declines, none. They have no state;
they read `Commandable`'s arrays, so the module runs on `Commandable`'s
specification. A Boolean callback says whether a slot is NULL and the one of the
output's datatype what is in it; the two are compared with the commands in force.
`ServedRows` and `LeftToTheStack` are together the rows of `docs/PICS.md`, section
11, marked "app": those a callback serves, State_Text element by element, and three
of the Network Ports that none does (item 7 below). The size of the buffers and the
wording are left out, and Analog Input 1 has some value, the parameter
`AnalogInput`.

### Console and RouterMain

`Console` has the bytes waiting in standard input (a terminal, a pipe that stays
open, an input at its end, or the console of the Windows build), `O_NONBLOCK`,
the terminal's mode and the two flags of the code. A poll that would block is not
enabled, so "the device goes deaf" is a behaviour the model can have. The POSIX
`PollKey` reads up to three bytes and drops what it does not match; the Windows
one takes one key, whose second code, if it has one, is also the code of a letter.

`RouterMain` is `main()` by program counter. The command line is a sequence of
tokens scanned as the code scans it (first accepted `--port` and `--deviceID`,
last accepted `--port2`, `--help` anywhere). `ConfigurationCalls` is the list of the thirty
stack calls of lines 838-995 in order; each one takes effect or fails and ends
the program. Each broadcast succeeds or fails on its own. `tablePort` is the
port in the transport's table, `globalPort` is `g_bacnetIpUdpPort1/2`: I-Am uses
the first, the router messages the second.

### RouterLoop

The same `main()` with less of its control and all of its datagrams: the two
`SetupUDP` calls, the start-up broadcasts, which come back to the program's own
sockets, `BACnetStack_Tick` as it uses the transport (the receive callback until
it returns 0, and a reply after any datagram), the keys 'q' and 'r' between two
Ticks, and `ShutdownUDP`. Keys wait in `stdin` for a poll, which takes
`BytesPerPoll` of them (three on POSIX, one on Windows), obeys the first and loses
the others with it. `busy` says that the networks may still deliver, which
they may do for ever or stop doing at any moment; blanks arrive too. `waited`
remembers, per socket, what was queued before the running scan began and has not
been looked for by it. `WithinItsLimits` says that every step is one of
`UdpTransport` or leaves it alone, so what that module promises holds of the whole
program, open sockets after the shutdown included. The configuration calls are one
step, and the broadcasts are those of `main()` only: `docs/PICS.md` says this build
cannot forward between its two ports.

### HostNetwork

Interfaces in the order the system lists them, each up or down and with or without
an IPv4 configuration, changing at any moment. `GetPrimaryIPv4` takes the first
usable one. `main()` keeps the answer once; `SendIAm` and
`BuildLocalBroadcastConnectionString` ask again each time and compute the broadcast
address separately. An address is a row of bits, since what is done to it is
bitwise.

### NameLookup and NameTables

`Turn` is one turn of the loop of `LookUpIdName`, with the row it reads; `Index` is a
lookup in a table indexed by the number, behind its bound check. `NameTables` has
the ids of all rows in the order of the file; a name is the number of its row.

### DeferredRestart

The loop is the one `CASExampleHelper.h` prescribes: `Tick` transmits the
acknowledgements of earlier turns, then runs the callbacks, then `RestartDue` is
called, then the loop sleeps. Time passes in `Tick` (at most `TickTime`) and in
the sleep (1 to `SleepTime`). `RestartAssumption` says the delay is longer than a
tick, which is the header's condition ("comfortably longer than one tick of the
main loop"). `asked` is a history variable.
The abstract `RestartPromise` keeps no deadline: once a turn comes to its check,
the check answers at once from the requests themselves, so a restart one check
late, or one of the wrong kind, is a step it does not have.

### FrameDecode

The decoder is a pure function, so its definitions are operators on a frame, one
per question the code asks at some offset (`TagDecodes`, `SpecifierFits`,
`PayloadAt`, `HasService`), each with the guards of the code's early returns.
`DecodedFrame` is the set of facts that can be shown; fields that the code shows
at their defaults although they were never read (`dnet`, `snet` and
`networkMessageType` of a cut header) are in it. A frame is seen together with
the octet a read behind it would find (`behind`), so a read past `frameLength`
that reaches the output is visible as a result that depends on it; a read whose
result is thrown away is not.

The state machine is what happens to a datagram: it is encoded (`Encode`, written
from the clauses the comments cite and not from the decoder), a run of its octets
may be overwritten, and it may end anywhere. 32-bit values are pairs of 16-bit
halves, and a 32-bit tag length of 2^24 or more is one value, `LongLength`, which
no datagram holds. First and later segments are messages: a later segment carries
the middle of the data, which may itself be a list of references, and the decoder
reads it as a first one, so of a later segment the object, property and index are
not compared.

## Runs

| Run | Instance | Shows |
|---|---|---|
| `UdpTwoPorts` | 2 instances, ports 7 and 8, 2 bindings, 2 handles, queues of 2 | type invariant, `BypassBound`, `TableKeyed`, `SocketsOwned`, `StaysOnOwnNetwork`, `Attribution`, and `NoStarvation` under fairness |
| `RouterLoop` | 2 networks, queues of 2, blanks, traffic that may or may not end; 'r' and 'q' at any moment, up to 4 keys waiting of which one is a 'q', read three at a time | `WithinItsLimits` and `ZeroMeansNothing`; `Served` and `QuitEnds` under fairness |
| `PropertyServer` | 2 priorities, priorities 0..3 requested, values 0..2 and a REAL, own and foreign addresses | type invariant, `ImplementsArbiter`, `PresentValueArbitrated`, `MoreUrgentHolds`; `SlotsShowTheCommands`, `RowsServed`, `StateTextComplete` |
| `RouterCommandLines` | every command line of 0, 2 or 4 tokens that starts with an option with a value, over the numbers 0, 1, 47808, 65535, 4194303; one key | type invariant, `SilentUntilConfigured`, `AnnouncesOnlyWhatItRoutes`, `NetworksSeparate`, `AnnouncedWhereItListens` |
| `RouterKeys` | default ports; q, r and an arrow pressed once each; all four kinds of input | `NoPhantomCommand`, `CleanExit`; `NeverDeaf` and `QuitOnWindows` under fairness |
| `HostNetwork` | the loopback and two links, addresses of 2 bits, three configurations of which one has no mask | `AnnouncesAround`, `TargetIsReported` |
| `NameLookup` | the tables at their full size; every number of an object type, a service or a reason, every property number up to past the standard range and around the extension at 2^22 | `NamesExactlyTheListed`, `ReadsOnlyTheTable`; `Returns` under fairness |
| `DeferredRestart` | delays 2 and 4, tick up to 1, sleep up to 2, clock up to 7 | type invariant, `KeepsPromise`, `DueIsAcknowledged`, and `EventuallyRestarts` under fairness |
| `FrameDecode` | 77 messages: the shapes of header with a ReadProperty, every payload behind a plain header and one of each kind behind a routed one, and later segments; four runs of noise; all lengths | type invariant with the width of every field, `ReadsOnlyTheFrame`, `DecodesWhatWasSent`, `CutOnlyLoses` |
| `QuitKey` | h and q pressed | violated: `QuitHonoured` |
| `RestartAcknowledged` | as `DeferredRestart` | violated: `AllAcknowledged` |
| `FrameCut` | as `FrameDecode` | violated: `NeverMisparsed` |

Why the bounds are enough. The router has two ports, so two instances are the real
system; that no socket is passed over too often is proved for any number. A queue of
two lets a socket have a next datagram while one is serviced, and both a blank and a
real one. Two priorities have a more and a less urgent one and, with 0 and 3
requested, both edges of the mapping; the proofs cover 16 and every other number.
Four command-line tokens hold two options, an option twice, and an option as
another's value; the numbers are the edges of what `--port` and `--deviceID` accept.
Three keys of which one is three bytes long fill the read buffer in every way; so do
four letters in `RouterLoop`, where the fourth is left for the next poll. A second
'q' behind a waiting one adds no way for a 'q' to come first: an 'r' in its place
leaves the same poll. A clock of 7 lets two delays overlap, merge and be followed by
a new request. The noise has the two length octets that announce a longer length,
and whole tags in those forms. Two links and two bits have a first usable interface
that goes away, two subnets, a shared subnet and a host without a mask. The name
tables need no bound: the run has every row and every gap next to one, and the
theorems every table. `Rebind` is FALSE in the runs (the header: "Call once per
port"); `SocketsOwned` is false without it, because `Connect` overwrites an open
handle. The proved invariants hold for both values, `SocketsOwned` excepted.

Every run checks for deadlock. The sample ends only by exiting, so `RouterMain` and
`RouterLoop` have an explicit `Exited` step for a process that is gone, and
`NameLookup` a `Returned` step; the other modules always have a step to take.

Fairness. `UdpTransport` assumes the receive callback runs on, `WF(Receive)`:
`main()` calls `BACnetStack_Tick` for ever and the stack calls the callback until it
returns 0. `RouterLoop` has no need of that assumption: `main()` itself calls the
Tick, and `WF(Main)` says that its thread is scheduled. No datagram, no key and no
silence is assumed; `QuitEnds` is about networks that have fallen silent, because a
Tick goes on as long as each scan finds something, and about a 'q' that is the first
byte of its poll, because one read behind another key is lost. `RouterMain` assumes
`main()` is scheduled while nothing it calls blocks, `WF(Main)`; no key press is
assumed. `NameLookup` assumes the loop of the lookup runs on, `WF(Look)`.
`DeferredRestart` assumes the three steps of the loop each happen again; no request
is assumed to come or to stop.

### The disagreements with docs and comments

Three have a run of their own, whose one property is what the quoted line says:

1. `QuitKey`: two keys typed between two polls are read together, and every key but
   the first is dropped, a 'q' included. The Windows build keeps it
   (`QuitOnWindows`); on POSIX a 'q' that is the first byte of its poll does end the
   program (`QuitEnds`).
2. `RestartAcknowledged`: a restart request merged into an earlier one may be
   answered by the restart itself instead of its acknowledgement, which the header
   says has been sent by then.
3. `FrameCut`: a network message cut in its header is summarised as a
   Who-Is-Router-To-Network. The header promises `?` for a truncated frame.

Others are exceptions that a passing property names, or were met on the way:

4. `AnnouncedWhereItListens`: with `--port 65535` and no `--port2`,
   `(uint16_t)(port1 + 1)` is 0. The program binds port 0 and announces the second
   network on it, although an explicit `--port2 0` is refused ("want 1..65535").
5. `DecodesWhatWasSent`: a later segment of a ComplexACK or a request whose data
   begins with a reference is shown as naming that object and property; the comment
   at `DecodeObjectAndProperty` prefers to omit "rather than printing something
   wrong".
6. `TargetIsReported`: after a new lease, 'r' announces on the new subnet while
   IP_Address and IP_Subnet_Mask go on reporting the old one (`main.cpp:815`).
7. `RowsServed`: `docs/PICS.md` lists Network_Type, Protocol_Level and
   Changes_Pending of the Network Ports as served by the "app"; no callback of
   `main.cpp` names them, and the note above the table says the stack has them. The
   property says both: no callback answers for these three, and one answers for each
   other row.
8. `docs/PICS.md` says 'r' repeats Network-Number-Is too. `main()` repeats
   I-Am-Router-To-Network only.
9. `--help` offers `--xml`; `main()` never calls `ParseXmlLogArg`, so the option is
   ignored.
10. `PrintFrameAsXml` "always includes the full raw hex", but returns without it for
    a frame that is not BACnet/IP.
11. `GetPrimaryLinkSpeedBitsPerSecond` on POSIX goes on to another interface when
    the first one shows no speed; its comment says "same interface selection as
    GetPrimaryIPv4". This program does not call it.

## Proofs

All theorems hold for every value of the constants that satisfies the named
assumption of the module (`TransportAssumption`, `LoopAssumption`, `ConsoleAssumption`,
`MainAssumption`, `CommandableAssumption`, `ServerAssumption`, `RestartAssumption`,
`FrameAssumption`, `LookupAssumption`, `HostAssumption`). Every safety property of a
passing run is a theorem.

- **UdpTransport_proofs.** `IInv == TypeOK /\ TableInv /\ RingInv` is inductive
  (`Inductive`). `BypassBound` is not: it says nothing of a scan half done.
  `RingInv` counts instead the waits already suffered plus the polls still to
  come, `bypass[s] + Offset(s) <= count - 1`, where `Offset` is the distance from
  the slot the next scan starts at, and adds that a slot the running scan has
  passed has just been emptied. Servicing a slot moves the start past it, so a
  waiting slot loses at least one from its offset for each bypass it gains.
  `TableInv` is what keeps `TableKeyed`: slots beyond the count are blank and
  a socket belongs to one slot. Theorems: `TypeCorrect`, `NoSocketStarves`,
  `TableIsKeyed`.

  Where datagrams go needs a second invariant over the first. `SocketInv` ties the
  two halves of the state, the program's table and the system's sockets: an open
  socket of a slot is bound to the slot's port, and all that waits in it was sent
  there. From it: `NetworksKeptApart` (what a send used is the slot of the network it
  was for, fallbacks included), `DatagramsAttributed` (the slot a datagram is taken
  from is the one whose port it was sent to), and `NoSocketIsLost`, which assumes
  `~Rebind` because it is false without.
- **RouterLoop_proofs.** `LoopIInv` adds to the transport's invariants `LoopInv`, which
  slots are bound at each point of `main()`, and `WaitInv`, that a datagram not yet
  looked for is in a slot the running scan has still to reach. `KeepsWithinLimits`
  shows each step of `main()` to be one of the transport or none of its business:
  `SetupUDP` is called once for each instance because `LoopInv` says what is in the
  table by then. Hence `LoopUsesTransport`, `LoopSpec => Spec`: the theorems above hold
  of the whole program; `LoopOwnsItsSockets` is `SocketsOwned` with no assumption about
  `Rebind`, since `main()` never sets a port up twice. `TickLeavesNothing` follows from
  `WaitInv` when the scan is complete, `ExitClosesAll` (`NothingLeftOpen`) from
  `SocketsOwned` once no slot is bound.
- **RouterMain_proofs.** `IInv == TypeOK /\ CallsInv /\ PortsInv /\ ConsoleInv`
  (`MainInductive`). `CallsInv`: what has been made is the configuration calls before
  `step`, all of them once `main()` announces, and nothing is on the wire earlier.
  `PortsInv`: which of the copies of the two ports agree by which point, and every
  message carries the port of its network. `ConsoleInv`: raw mode only inside the loop,
  and a quit key closes the sockets. From them `TypeCorrect`, `StartsSilently`,
  `AnnouncementsAreRoutes` (the calls that route both networks are in the list),
  `NetworksAreSeparate`, `AnnouncedOnItsPort` and `ExitIsClean`.

  `NoPhantom` needs a count. `CountInv` says of each command: the times it was carried
  out plus the places in standard input where its last byte still waits are at most
  the presses of its key. A poll takes up to three bytes and drops some of them, so
  the lemmas under it say what taking a beginning of the input does to the number of
  places, and what a press adds. On Windows the second code of a special key is also a
  letter's: `StdinInv` says that it never stands without its prefix before it, so one
  key is not taken for another.
- **Commandable_proofs.** `TypeOK` is inductive. `ArraysImplementArbiter` shows
  each callback to be the abstract command, relinquish or refusal under the
  mapping; `ReadsAreArbitrated` that the lowest set slot is the command no other
  overrides, which needs that a non-empty set of slots has a least one. The same
  least slot gives `LessUrgentNeverMoves`: a step that moves the value changed a slot
  at or before it. `ClientsSeeTheCommands` follows both callbacks of a slot down to the
  two arrays, and these to the commands in force through the refinement's mapping.
  `AllButThreeRowsServed` and `StateTextIsComplete` are about the dispatch: lemmas say
  for each callback which queries it answers, `AnsweredWhen` puts them together for
  the objects there are (`StateTextAnswered` for the elements of State_Text), and each
  row of `docs/PICS.md` is then one case: `RowAnswers` for those served, `NoneAnswers`
  for the three left to the stack. Neither theorem needs
  an invariant, since what a callback serves does not depend on the state; what it
  needs is that the callbacks' conditions exclude each other.
- **DeferredRestart_proofs.** `IInv == TypeOK /\ PendingInv /\ AckInv`.
  `PendingInv` says the deadline is the least and the kind the strongest of the
  requests remembered; `AckInv` that an unacknowledged request can only be one
  of this turn, and is not due yet, which is where the assumption that a delay
  exceeds a tick is used. From it: `NeverBeforeAcknowledgement` and the
  refinement `PromiseKept`.
- **FrameDecode_proofs.** One relation carries two of the theorems: `Extends(f, g)`, g
  has the octets of f and perhaps more. Bottom up (tag, primitive, reference,
  specifier, header, APDU) each lemma says that what f yields under a check of the
  length, g yields too. Two views of one frame extend each other, which gives
  `FrameOnly`; a whole frame extends what a cut leaves of it, which gives
  `CutsOnlyLose`. The widths of the fields (`TypeCorrect`) go up the same way with
  arithmetic on octets, and the fact that every offset is a number. All three hold for
  every octet string.

  `ReadAsSent` is the other direction, from the format to the decoder, for every
  message whose fields have their widths (`WellFormed` in `FrameFormat`, all that
  `FrameAssumption` asks of the messages). `Lies(f, at, s)` says that the octets s are
  in f from an offset on, and `LiesJoined` takes a joined run apart; `Run(s, n)` keeps
  its length. For each part of a message one lemma gives the length of its encoding and
  what the decoder takes from there: a number, a tag, an identifier, a reference, a
  segment, each kind of APDU, a specifier, the network header (`NpduRead`), the
  datagram (`MessageRead`). That nothing but the reference follows is used too:
  the decoder must not find an index the sender did not put there (`NothingThere`).
- **NameLookup_proofs.** `IInv == TypeOK /\ ReadsOnlyTheTable` is inductive for
  tables in any order, since the middle of a range that is not empty is one of its
  rows (`MiddleIsLeft`): `TypeCorrect`, `NeverOutside`, and `SearchShrinks`, which is
  the variant of the loop. With `AllSorted` assumed, `SortedInv` adds
  `ExcludesOnlyOthers`, what the search has passed over, and from it
  `NamesExactlyTheListed`: when the range is empty every row is excluded.
  Theorems: `SearchIsSound`, `NamesAreRight`. That the program's own tables are
  sorted is what the run `NameLookup` adds.
- **HostNetwork_proofs.** `HostInv == TypeOK /\ Kept /\ Sent`: while the host has not
  moved, the broadcast of the address kept is what a computation now would give
  (`Kept`), and each announcement already made went there (`Sent`). Where no address
  was found the two agree for another reason, that the zeros kept have all ones for a
  broadcast (`ZerosBroadcast`). `ReportedIsTarget` follows. `AnnouncesToNeighbours` needs
  only the types and `PrimaryIsUsable`: the address a computation starts from belongs to
  a usable interface.

Only model-checked: the liveness properties (`NoStarvation`, `Served`, `QuitEnds`,
`NeverDeaf`, `QuitOnWindows`, `EventuallyRestarts`, `Returns`): liveness under
fairness is out of the prover's reach.

## Not modelled

The inside of the CAS BACnet Stack: its sources are not in the repository, so what
it forwards or sends by itself, and how it fills in what a callback declines, are
not here. The layout of the XML dump and all wording, the `switch` of
`NetworkMessageName`, the size of the buffers for texts, the value of Analog Input 1
and its arrow keys beyond their being executed, the Windows branches of the host
queries, the link speed and `HelperGetSystemTime` (not used here, or handed on
unchanged), `CASExampleLog` (not called), the constants and the build. IP addresses
are in `HostNetwork` only: elsewhere both ports use the host's one address, and only
UDP ports tell the networks apart.

## Plan

The safety half of the liveness properties: the variants that a scan of the sockets
and a pending restart decrease, as theorems (`SearchShrinks` is the one of a lookup).
