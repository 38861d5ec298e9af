-------------------------- MODULE CommandArbiter --------------------------
(***************************************************************************)
(* What a set of commandable outputs promises its clients (DS-WP-B): the   *)
(* commands in force form a set with at most one command per output and    *)
(* priority.  An accepted write replaces the command of its priority, an   *)
(* accepted relinquish withdraws it, a refused request changes nothing,    *)
(* and the Present_Value is that of the command with the lowest-numbered   *)
(* priority, or the Relinquish_Default when none is in force.              *)
(*                                                                         *)
(* A priority outside 1..N, which is how "no priority given" arrives,      *)
(* commands at the lowest priority, N.                                     *)
(***************************************************************************)
EXTENDS Integers

CONSTANTS
  Outputs,                 \* the commandable objects
  N,                       \* number of priorities, 16 in BACnet
  Requested,               \* priorities a request may carry
  LegalValues(_),          \* output -> values it may be commanded to
  RelinquishDefault(_),    \* output -> its Relinquish_Default
  Null                     \* the value of a request that relinquishes

VARIABLES
  commands,  \* the commands in force
  answer     \* the request answered last, and how

vars == <<commands, answer>>

Priorities == 1 .. N

Effective(r) == IF r \in Priorities THEN r ELSE N

Refused == [accepted |-> FALSE]
Accepted(o, r, v) ==
  [accepted |-> TRUE, output |-> o, priority |-> r, value |-> v]

\* The commands left when the one of output o at priority p is withdrawn.
Without(o, p) == {c \in commands : c.output # o \/ c.priority # p}

Init ==
  /\ commands = {}
  /\ answer = Refused

Command(o, r, v) ==
  /\ answer' = Accepted(o, r, v)
  /\ commands' = Without(o, Effective(r))
                   \cup {[output |-> o, priority |-> Effective(r), value |-> v]}

Relinquish(o, r) ==
  /\ answer' = Accepted(o, r, Null)
  /\ commands' = Without(o, Effective(r))

Refuse ==
  /\ answer' = Refused
  /\ UNCHANGED commands

Next ==
  \/ \E o \in Outputs, r \in Requested :
       \/ \E v \in LegalValues(o) : Command(o, r, v)
       \/ Relinquish(o, r)
  \/ Refuse

Spec == Init /\ [][Next]_vars

---------------------------------------------------------------------------

\* The commands of output o that no more urgent command overrides.
InForce(o) ==
  {c \in commands :
     /\ c.output = o
     /\ \A d \in commands : d.output = o => c.priority <= d.priority}

PresentValue(o) ==
  IF InForce(o) = {} THEN RelinquishDefault(o)
  ELSE (CHOOSE c \in InForce(o) : TRUE).value

=============================================================================
