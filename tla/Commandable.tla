---------------------------- MODULE Commandable ----------------------------
(***************************************************************************)
(* The commandable outputs of main.cpp: Analog Output 1, Binary Output 1   *)
(* and Multi-State Output 1, each a 16-slot priority array kept as two     *)
(* parallel arrays, isSet and value, of which a relinquish clears only the *)
(* flag.  The stack routes a WriteProperty request to the set callback of  *)
(* the value's datatype, and reads a slot through two get callbacks:       *)
(* GetPropertyBool answers "is this slot NULL?", and the getter of the     *)
(* object's own datatype its value.  It runs them in the application       *)
(* thread, one request at a time.                                          *)
(*                                                                         *)
(* Numbers are abstracted to a small set: only equality and the ranges the *)
(* callbacks check matter.  An address is what a request names: whether    *)
(* the device is this one, the object type, the instance, the property.    *)
(***************************************************************************)
EXTENDS Integers

CONSTANTS
  N,           \* BACNET_PRIORITY_ARRAY_SIZE, 16 in the code
  Addresses,   \* <<this device?, object type, instance, property>> of a request
  Requested,   \* priorities a request may carry (a uint8_t in the code)
  Reals,       \* what a REAL can be written as
  Unsigneds,   \* what an ENUMERATED or UNSIGNED can be written as
  States,      \* MULTI_STATE_OUTPUT_NUMBER_OF_STATES, 3 in the code
  Null         \* a NULL value

AO == "Analog_Output"
BO == "Binary_Output"
MSO == "Multi_State_Output"
AI == "Analog_Input"

Outputs     == {AO, BO, MSO}
ObjectTypes == Outputs \cup {AI}
Properties  == {"Present_Value", "Relinquish_Default"}
Slots       == 1 .. N

ASSUME CommandableAssumption ==
  /\ N \in Nat \ {0}
  /\ Addresses \subseteq BOOLEAN \X ObjectTypes \X Nat \X Properties
  /\ Requested \subseteq Nat
  /\ Unsigneds \subseteq Nat
  /\ States \in Nat \ {0}
  /\ Null \notin Reals \cup Nat

VARIABLES
  isSet,    \* output -> slot -> BOOLEAN
  value,    \* output -> slot -> the last value written there
  answer    \* how the last WriteProperty was answered

vars == <<isSet, value, answer>>

NoOutput == "none"
Refused == [accepted |-> FALSE]
Accepted(o, r, v) ==
  [accepted |-> TRUE, output |-> o, priority |-> r, value |-> v]

---------------------------------------------------------------------------

\* Mutant: the most urgent priority is taken for an absent one.
EffectivePriorityOff(r) == IF r > 1 /\ r <= N THEN r ELSE N

EffectivePriority(r) == IF r >= 1 /\ r <= N THEN r ELSE N

CommandWrite(o, r, v) ==
  /\ isSet' = [isSet EXCEPT ![o][EffectivePriority(r)] = TRUE]
  /\ value' = [value EXCEPT ![o][EffectivePriority(r)] = v]

\* Mutants: a relinquish empties the whole array; a relinquished slot keeps
\* a NULL where its value was.
CommandRelinquishAll(o, r) ==
  /\ isSet' = [isSet EXCEPT ![o] = [s \in Slots |-> FALSE]]
  /\ UNCHANGED value
CommandRelinquishNull(o, r) ==
  /\ isSet' = [isSet EXCEPT ![o][EffectivePriority(r)] = FALSE]
  /\ value' = [value EXCEPT ![o][EffectivePriority(r)] = Null]

CommandRelinquish(o, r) ==
  /\ isSet' = [isSet EXCEPT ![o][EffectivePriority(r)] = FALSE]
  /\ UNCHANGED value

GetCommandable(t, i) == IF t \in Outputs /\ i = 1 THEN t ELSE NoOutput

\* The guard every set callback starts with.
Addressed(a) == a[1] /\ GetCommandable(a[2], a[3]) # NoOutput /\ a[4] = "Present_Value"

---------------------------------------------------------------------------
(* The set callbacks.  Each is total: a request it does not take is        *)
(* declined and leaves every slot alone.                                   *)

Decline ==
  /\ answer' = Refused
  /\ UNCHANGED <<isSet, value>>

SetPropertyReal(a, v, r) ==
  IF Addressed(a) /\ a[2] = AO
  THEN CommandWrite(AO, r, v) /\ answer' = Accepted(AO, r, v)
  ELSE Decline

SetPropertyEnumerated(a, v, r) ==
  IF Addressed(a) /\ a[2] = BO /\ v <= 1
  THEN CommandWrite(BO, r, v) /\ answer' = Accepted(BO, r, v)
  ELSE Decline

SetPropertyUnsignedInteger(a, v, r) ==
  IF Addressed(a) /\ a[2] = MSO /\ v >= 1 /\ v <= States
  THEN CommandWrite(MSO, r, v) /\ answer' = Accepted(MSO, r, v)
  ELSE Decline

SetPropertyNull(a, r) ==
  IF Addressed(a)
  THEN CommandRelinquish(a[2], r) /\ answer' = Accepted(a[2], r, Null)
  ELSE Decline

---------------------------------------------------------------------------
(* The get callbacks on Priority_Array[s] and Relinquish_Default, and the  *)
(* stack's resolution of Present_Value from them.                          *)

RelinquishDefault(o) ==
  CASE o = AO  -> 20
    [] o = BO  -> 0
    [] o = MSO -> 1

\* Mutant: a slot is taken to be NULL when its value is zero.
SlotIsNullByValue(o, s) == value[o][s] = 0

\* GetPropertyBool: is slot s of output o NULL?
SlotIsNull(o, s) == ~isSet[o][s]

\* The output's own typed getter, which declines when the slot is not set.
SlotValue(o, s) == IF isSet[o][s] THEN value[o][s] ELSE Null

\* The stack takes the first slot that is not NULL.
PresentValue(o) ==
  LET taken == {s \in Slots : ~SlotIsNull(o, s)}
  IN  IF taken = {} THEN RelinquishDefault(o)
      ELSE SlotValue(o, CHOOSE s \in taken : \A t \in taken : s <= t)

---------------------------------------------------------------------------

Init ==
  /\ isSet = [o \in Outputs |-> [s \in Slots |-> FALSE]]
  /\ value = [o \in Outputs |-> [s \in Slots |-> 0]]
  /\ answer = Refused

\* The stack hands a request to the set callback of its value's datatype.
WriteProperty(a, r) ==
  \/ \E v \in Reals : SetPropertyReal(a, v, r)
  \/ \E v \in Unsigneds : SetPropertyEnumerated(a, v, r)
  \/ \E v \in Unsigneds : SetPropertyUnsignedInteger(a, v, r)
  \/ SetPropertyNull(a, r)

Next == \E a \in Addresses, r \in Requested : WriteProperty(a, r)

Spec == Init /\ [][Next]_vars

---------------------------------------------------------------------------
(* Properties. *)

\* What each kind of output may be commanded to.
LegalValues(o) ==
  CASE o = AO  -> Reals
    [] o = BO  -> {0, 1}
    [] o = MSO -> 1 .. States

TypeOK ==
  /\ isSet \in [Outputs -> [Slots -> BOOLEAN]]
  /\ value \in [Outputs -> [Slots -> Reals \cup Nat]]

\* The commands in force, read off the two arrays.
CommandAt(o, s) == [output |-> o, priority |-> s, value |-> value[o][s]]
Commands ==
  UNION {{CommandAt(o, s) : s \in {t \in Slots : isSet[o][t]}} : o \in Outputs}

Arbiter == INSTANCE CommandArbiter WITH commands <- Commands

\* The two arrays implement the set of commands in force: an acknowledged
\* write is never lost, never lands in another slot or output, and a value
\* left behind by a relinquish never comes back.
ImplementsArbiter == Arbiter!Spec

\* What the stack resolves from the callbacks is what the commands in force
\* promise, for every output at every moment.
PresentValueArbitrated ==
  \A o \in Outputs : PresentValue(o) = Arbiter!PresentValue(o)

\* A write at a less urgent priority than the one in effect never moves the
\* Present_Value.
Urgency(o) ==
  LET taken == {s \in Slots : ~SlotIsNull(o, s)}
  IN  IF taken = {} THEN N ELSE CHOOSE s \in taken : \A t \in taken : s <= t

MoreUrgentHolds ==
  [][\A o \in Outputs :
       PresentValue(o)' # PresentValue(o)
         => /\ answer'.accepted
            /\ answer'.output = o
            /\ Arbiter!Effective(answer'.priority) <= Urgency(o)]_vars

=============================================================================
