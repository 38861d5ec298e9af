-------------------------- MODULE PropertyServer --------------------------
(***************************************************************************)
(* The property get callbacks of main.cpp, one per datatype, over the      *)
(* state they read: the priority arrays of the commandable outputs (module *)
(* Commandable).  The stack picks the callback of a property's datatype;   *)
(* what a callback declines, the stack makes up ("the stack's decline-and- *)
(* fabricate path", TUTORIAL.md), so an object the dispatch misses looks   *)
(* like a working one with wrong values.                                   *)
(*                                                                         *)
(* A query is what a callback is asked.  What it answers is a set: empty   *)
(* when it declines, otherwise the one value it returns.  A slot's value   *)
(* goes through double unchanged: it holds every float and every uint32_t. *)
(***************************************************************************)
EXTENDS Commandable, Sequences

CONSTANTS
  DeviceId,      \* g_deviceInstance
  UdpPort,       \* Network Port instance -> the port --port and --port2 gave it
  InputStates,   \* MULTI_STATE_INPUT_NUMBER_OF_STATES, 3 in the code
  AnalogInput    \* g_analogInput1Value, which the arrow keys move

BI     == "Binary_Input"
MSI    == "Multi_State_Input"
NP     == "Network_Port"
Device == "Device"

ASSUME ServerAssumption ==
  /\ DeviceId \in Nat
  /\ UdpPort \in [{1, 2} -> Nat]
  /\ InputStates = 3

NoIndex == -1

\* What a callback is asked: whether the device is this one, the object, the
\* property and the array index.
Query(t, i, p, x) == [ours |-> TRUE, type |-> t, inst |-> i, prop |-> p, index |-> x]

Names(q, t, i, p) == q.type = t /\ q.inst = i /\ q.prop = p

Serve(condition, v) == IF condition THEN {v} ELSE {}

---------------------------------------------------------------------------
(* The callbacks. *)

\* Mutant: the index is used as the row of the array, one too high.
NamesSlotOff(q, s) == q.prop = "Priority_Array" /\ q.index = s - 1

\* ReadPrioritySlot: the slot of the array a query names, if any.
NamesSlot(q, s) == q.prop = "Priority_Array" /\ q.index = s

\* What the getter of an output's datatype answers for it: the slot if it is
\* set, or the default.
OutputValue(q, o) ==
  IF GetCommandable(q.type, q.inst) # o THEN {}
  ELSE {value[o][s] : s \in {t \in Slots : NamesSlot(q, t) /\ isSet[o][t]}}
       \cup Serve(q.prop = "Relinquish_Default", RelinquishDefault(o))

GetPropertyReal(q) ==
  IF ~q.ours THEN {}
  ELSE Serve(Names(q, AI, 1, "Present_Value"), AnalogInput)
       \cup OutputValue(q, AO)

PolarityNormal == 0
DegreesCelsius == 62
IpModeNormal   == 0

\* Mutant: Units of the inputs only.
ServesUnitsInputs(q) == Names(q, AI, 1, "Units")

ServesUnits(q) == \E t \in {AI, AO} : Names(q, t, 1, "Units")

GetPropertyEnumerated(q) ==
  IF ~q.ours THEN {}
  ELSE Serve(Names(q, BI, 1, "Present_Value"), 0)
       \cup Serve(\E t \in {BI, BO} : Names(q, t, 1, "Polarity"), PolarityNormal)
       \cup OutputValue(q, BO)
       \cup Serve(ServesUnits(q), DegreesCelsius)
       \cup Serve(q.type = NP /\ q.prop = "BACnet_IP_Mode", IpModeNormal)

VendorIdentifier == 389
MaxApduLength    == 1476
NoReferencePort  == 4194303

GetPropertyUnsignedInteger(q) ==
  IF ~q.ours THEN {}
  ELSE Serve(Names(q, MSI, 1, "Present_Value"), 1)
       \cup Serve(Names(q, MSI, 1, "Number_Of_States"), InputStates)
       \cup Serve(Names(q, MSI, 1, "State_Text") /\ q.index = 0, InputStates)
       \cup Serve(Names(q, Device, DeviceId, "Vendor_Identifier"), VendorIdentifier)
       \cup (UNION {Serve(Names(q, NP, i, "APDU_Length"), MaxApduLength)
                      \cup Serve(Names(q, NP, i, "Reference_Port"), NoReferencePort)
                      \cup Serve(Names(q, NP, i, "BACnet_IP_UDP_Port"), UdpPort[i])
                      : i \in {1, 2}})
       \cup OutputValue(q, MSO)
       \cup Serve(Names(q, MSO, 1, "Number_Of_States"), States)

\* Is the slot NULL?  And every object but the Device is in service.
GetPropertyBool(q) ==
  IF ~q.ours THEN {}
  ELSE LET o == GetCommandable(q.type, q.inst)
       IN  (IF o = NoOutput THEN {}
            ELSE {SlotIsNull(o, s) : s \in {t \in Slots : NamesSlot(q, t)}})
           \cup Serve(q.type # Device /\ q.prop = "Out_Of_Service", FALSE)

\* The four octets of an address, or nothing when they do not all fit.
GetPropertyOctetString(q, room) ==
  Serve(/\ q.ours
        /\ q.type = NP /\ q.inst \in {1, 2}
        /\ q.prop \in {"IP_Address", "IP_Subnet_Mask", "IP_Default_Gateway"}
        /\ room >= 4,
        q.prop)

StateText == <<"On", "Off", "Auto">>

ObjectNames ==
  {<<Device, DeviceId, "Chipkin Example B-RTR">>, <<AI, 1, "Bronze">>,
   <<BI, 1, "Emerald">>, <<MSI, 1, "Hot Pink">>, <<AO, 1, "Chartreuse">>,
   <<BO, 1, "Fuchsia">>, <<MSO, 1, "Indigo">>, <<NP, 1, "Vermilion">>,
   <<NP, 2, "Vermilion 2">>}

DeviceTexts ==
  {"Description", "Vendor_Name", "Model_Name", "Firmware_Revision",
   "Application_Software_Version"}

\* Mutant: the last state is taken to be the one after the range.
HasStateTextShort(x) == x >= 1 /\ x < InputStates

HasStateText(x) == x >= 1 /\ x <= InputStates

\* The text a query names; those of the Device stand for themselves.
Texts(q) ==
  {StateText[i] : i \in {x \in {q.index} : /\ Names(q, MSI, 1, "State_Text")
                                            /\ HasStateText(x)}}
    \cup {n[3] : n \in {m \in ObjectNames : Names(q, m[1], m[2], "Object_Name")}}
    \cup {t \in DeviceTexts : Names(q, Device, DeviceId, t)}

\* ReturnCharacterString cuts a text to the buffer, which is left out here.
GetPropertyCharString(q) == IF ~q.ours THEN {} ELSE Texts(q)

\* The error code GetPropertyCharString sets instead of answering.
InvalidArrayIndex(q) ==
  Names(q, MSI, 1, "State_Text") /\ q.index # NoIndex /\ ~HasStateText(q.index)

---------------------------------------------------------------------------
(* Properties. *)

Objects == {<<n[1], n[2]>> : n \in ObjectNames}

\* The callback of an output's own datatype, which a client's read of a slot
\* reaches only after GetPropertyBool said that it is not NULL.
TypedGetter(o, q) ==
  CASE o = AO  -> GetPropertyReal(q)
    [] o = BO  -> GetPropertyEnumerated(q)
    [] o = MSO -> GetPropertyUnsignedInteger(q)

\* Two callbacks answer for one slot, and a client sees the commands in force,
\* whatever was written and relinquished before: GetPropertyBool says NULL
\* exactly where no command is in force, the typed getter has the value of the
\* one that is, and neither answers for an index that is no slot.
SlotsShowTheCommands ==
  \A o \in Outputs, x \in 0 .. N + 1 :
    LET q     == Query(o, 1, "Priority_Array", x)
        force == {c \in Commands : c.output = o /\ c.priority = x}
    IN  /\ GetPropertyBool(q) = Serve(x \in Slots, force = {})
        /\ TypedGetter(o, q) = {c.value : c \in force}

\* The rows of docs/PICS.md, section 11, marked "app": object type, property and
\* the datatype it is asked as.  Three of the Network Port are apart: no callback
\* of main.cpp names them, and the note above their table has them set at start-up
\* or computed by the stack.
LeftToTheStack == {"Network_Type", "Protocol_Level", "Changes_Pending"}

ServedRows ==
  {<<n[1], "Object_Name", "CharacterString">> : n \in ObjectNames}
    \cup {<<Device, t, "CharacterString">> : t \in DeviceTexts}
    \cup {<<t, "Out_Of_Service", "Boolean">> : t \in {AI, BI, MSI, AO, BO, MSO, NP}}
    \cup {<<Device, "Vendor_Identifier", "Unsigned">>, <<AI, "Present_Value", "Real">>,
          <<AI, "Units", "Enumerated">>, <<BI, "Present_Value", "Enumerated">>,
          <<BI, "Polarity", "Enumerated">>, <<MSI, "Present_Value", "Unsigned">>,
          <<MSI, "Number_Of_States", "Unsigned">>,
          <<MSI, "State_Text", "CharacterString">>, <<AO, "Units", "Enumerated">>,
          <<AO, "Relinquish_Default", "Real">>, <<BO, "Polarity", "Enumerated">>,
          <<BO, "Relinquish_Default", "Enumerated">>,
          <<MSO, "Number_Of_States", "Unsigned">>,
          <<MSO, "Relinquish_Default", "Unsigned">>}

\* The datatypes whose callback answers a query.
AnsweredAs(q) ==
  {d \in {"Real", "Enumerated", "Unsigned", "Boolean", "CharacterString",
          "OctetString"} :
     {} # CASE d = "Real"            -> GetPropertyReal(q)
            [] d = "Enumerated"      -> GetPropertyEnumerated(q)
            [] d = "Unsigned"        -> GetPropertyUnsignedInteger(q)
            [] d = "Boolean"         -> GetPropertyBool(q)
            [] d = "CharacterString" -> GetPropertyCharString(q)
            [] d = "OctetString"     -> GetPropertyOctetString(q, 4)}

\* The indices a property's datatype is asked with: State_Text is served element
\* by element, and its length, which is Unsigned, is left to StateTextComplete.
Indices(p) == IF p = "State_Text" THEN 1 .. InputStates ELSE {NoIndex}

RowServed(row) ==
  \A o \in Objects, x \in Indices(row[2]) : o[1] = row[1] =>
    AnsweredAs(Query(o[1], o[2], row[2], x)) = {row[3]}

\* Every property that docs/PICS.md gives to the application, but three, is served
\* for every object of its type, by the callback of its documented datatype and no
\* other, at every moment.  Network_Type, Protocol_Level and Changes_Pending of the
\* Network Ports, which it gives to the application too, no callback answers: what
\* a client reads there is the stack's.
RowsServed ==
  /\ \A row \in ServedRows : RowServed(row)
  /\ \A i \in {1, 2}, p \in LeftToTheStack : AnsweredAs(Query(NP, i, p, NoIndex)) = {}

\* A client that walks State_Text by its own length, element 0, finds a text for
\* every state of Number_Of_States, an error for every index beyond, and the
\* Present_Value among them; the three are answered by two callbacks.
StateTextComplete ==
  LET element(x) == Query(MSI, 1, "State_Text", x)
      size       == GetPropertyUnsignedInteger(element(0))
  IN  /\ size = GetPropertyUnsignedInteger(Query(MSI, 1, "Number_Of_States", NoIndex))
      /\ \A n \in size, x \in 1 .. InputStates + 1 :
           /\ GetPropertyCharString(element(x)) # {} <=> x <= n
           /\ InvalidArrayIndex(element(x)) <=> x > n
      /\ \A n \in size, v \in GetPropertyUnsignedInteger(
                                Query(MSI, 1, "Present_Value", NoIndex)) : v \in 1 .. n

=============================================================================
