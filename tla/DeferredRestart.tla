-------------------------- MODULE DeferredRestart -------------------------
(***************************************************************************)
(* The deferred restart of common/CASExampleHelper.cpp, RequestRestart and *)
(* RestartDue, in the loop its header prescribes: the ReinitializeDevice   *)
(* callback runs inside BACnetStack_Tick and calls RequestRestart; the     *)
(* stack encodes the SimpleACK then and puts it on the wire in a later     *)
(* Tick; RestartDue is called once per turn, after Tick.  (This example's  *)
(* profile has no DM-RD-B: its main() does not call them.)                 *)
(*                                                                         *)
(* The clock is monotonic and counts milliseconds.  It moves while Tick    *)
(* runs and while the loop sleeps.  asked is a history variable: every     *)
(* request accepted since the last restart, with the time promised to it   *)
(* and whether its acknowledgement has left.                               *)
(***************************************************************************)
EXTENDS Integers

CONSTANTS
  Delays,       \* milliseconds a request may ask for
  TickTime,     \* the longest a Tick takes
  SleepTime,    \* the longest the loop sleeps; it sleeps at least 1
  MaxTime       \* bound: where the model's clock stops

\* The header's condition: the delay is longer than a tick of the main loop.
ASSUME RestartAssumption ==
  /\ Delays \subseteq Nat
  /\ TickTime \in Nat
  /\ SleepTime \in Nat \ {0}
  /\ MaxTime \in Nat
  /\ \A d \in Delays : d > TickTime

VARIABLES
  now,       \* MonotonicMilliseconds()
  pending,   \* g_restartPending
  dueAt,     \* g_restartDueAtMs
  kind,      \* g_restartKind
  loop,      \* "tick", "stack" inside Tick, "due" before RestartDue
  asked,     \* history: the requests accepted since the last restart
  answer     \* what the last RestartDue answered

vars == <<now, pending, dueAt, kind, loop, asked, answer>>

Kinds == {"Warm", "Cold"}

Elapse(least, most) ==
  \E d \in least .. most : now' = IF now + d <= MaxTime THEN now + d ELSE MaxTime

---------------------------------------------------------------------------
(* RequestRestart *)

\* Mutants: the delay is taken for seconds; the restart is due at once, as if
\* done in the callback.
DueInSeconds(delay) == now + 1000 * delay
DueAtOnce(delay) == now

DueAt(delay) == now + delay

\* Mutant: the later deadline wins.
LaterDeadline(d) == IF pending /\ d < dueAt THEN dueAt ELSE d

\* The earliest deadline wins.
Deadline(d) == IF pending /\ dueAt <= d THEN dueAt ELSE d

\* Cold upgrades a pending Warm, and is never downgraded.
Upgraded(k) == IF pending /\ k # "Cold" THEN kind ELSE k

RequestRestart(k, delay) ==
  /\ dueAt' = Deadline(DueAt(delay))
  /\ kind' = Upgraded(k)
  /\ pending' = TRUE

---------------------------------------------------------------------------
(* BACnetStack_Tick *)

\* Acknowledgements encoded in an earlier Tick leave.
TickSends ==
  /\ loop = "tick"
  /\ loop' = "stack"
  /\ asked' = {[r EXCEPT !.acked = TRUE] : r \in asked}
  /\ UNCHANGED <<now, pending, dueAt, kind, answer>>

\* A ReinitializeDevice request is accepted: its callback asks for a restart
\* and returns true, and the stack encodes the acknowledgement.
ReinitializeDevice(k, delay) ==
  /\ loop = "stack"
  /\ now + delay <= MaxTime
  /\ RequestRestart(k, delay)
  /\ asked' = asked \cup {[due |-> now + delay, kind |-> k, acked |-> FALSE]}
  /\ UNCHANGED <<now, loop, answer>>

TickReturns ==
  /\ loop = "stack"
  /\ loop' = "due"
  /\ Elapse(0, TickTime)
  /\ UNCHANGED <<pending, dueAt, kind, asked, answer>>

---------------------------------------------------------------------------
(* RestartDue, called once per turn; then the loop sleeps. *)

ClearPending == pending' = FALSE

\* Mutant: a check that comes too early drops the request.
NotDueForgets ==
  /\ ~pending \/ now < dueAt
  /\ answer' = "None"
  /\ pending' = FALSE
  /\ UNCHANGED asked

NotDue ==
  /\ ~pending \/ now < dueAt
  /\ answer' = "None"
  /\ UNCHANGED <<pending, asked>>

Fires ==
  /\ pending
  /\ now >= dueAt
  /\ ClearPending
  /\ answer' = kind
  /\ asked' = {}

RestartDue ==
  /\ loop = "due"
  /\ NotDue \/ Fires
  /\ loop' = "tick"
  /\ Elapse(1, SleepTime)
  /\ UNCHANGED <<dueAt, kind>>

Loop == TickSends \/ TickReturns \/ RestartDue

Init ==
  /\ now = 0
  /\ pending = FALSE
  /\ dueAt = 0
  /\ kind = "Warm"
  /\ loop = "tick"
  /\ asked = {}
  /\ answer = "None"

Next ==
  \/ Loop
  \/ \E k \in Kinds, delay \in Delays : ReinitializeDevice(k, delay)

Spec == Init /\ [][Next]_vars

\* main() repeats the loop for ever, and every Tick returns.
FairSpec == Spec /\ WF_vars(TickSends) /\ WF_vars(TickReturns)
                 /\ WF_vars(RestartDue)

---------------------------------------------------------------------------
(* Properties. *)

Requests == [due : Nat, kind : Kinds, acked : BOOLEAN]

TypeOK ==
  /\ now \in 0 .. MaxTime
  /\ pending \in BOOLEAN
  /\ dueAt \in 0 .. MaxTime
  /\ kind \in Kinds
  /\ loop \in {"tick", "stack", "due"}
  /\ asked \subseteq Requests
  /\ answer \in Kinds \cup {"None"}

\* What the one pending flag, deadline and kind stand for.
PendingInv ==
  /\ pending <=> asked # {}
  /\ pending => /\ \E r \in asked : r.due = dueAt
                /\ \A r \in asked : dueAt <= r.due
                /\ kind = "Cold" <=> \E r \in asked : r.kind = "Cold"

\* Only a request accepted in the running turn is not acknowledged yet, and it
\* is not due before this turn's RestartDue.
AckInv ==
  \A r \in asked :
    ~r.acked => \/ loop = "tick"
                \/ loop = "stack" /\ now + TickTime < r.due
                \/ loop = "due" /\ now < r.due

IInv == TypeOK /\ PendingInv /\ AckInv

\* The one flag, deadline and kind keep every promise made to any number of
\* clients: the restart comes at the first check after the earliest deadline,
\* it is as strong as the strongest request, and no request gets a second one.
Promise == INSTANCE RestartPromise
  WITH asked <- {[due |-> r.due, kind |-> r.kind] : r \in asked},
       checking <- loop = "due"

KeepsPromise == Promise!Spec

\* A restart only comes when the time of some accepted request has come, and not
\* before the acknowledgement of every such request has left: those clients do
\* not see the device disappear without an answer.
DueIsAcknowledged ==
  [][(loop = "due" /\ answer' # "None") =>
       LET due == {r \in asked : r.due <= now}
       IN  due # {} /\ \A r \in due : r.acked]_vars

\* Every accepted request is followed by a restart, also when more requests keep
\* arriving while it waits.
EventuallyRestarts == pending ~> answer # "None"

\* What CASExampleHelper.h says of the delay ("by which point the ACK has been
\* sent"), for every client that was told its request was accepted.
AllAcknowledged ==
  [][(loop = "due" /\ answer' # "None") => \A r \in asked : r.acked]_vars

=============================================================================
