------------------------ MODULE Commandable_proofs ------------------------
(***************************************************************************)
(* Proofs about Commandable and the get callbacks of PropertyServer over   *)
(* it, for every number of priorities, every address and every value a     *)
(* request can carry: type correctness, that the two arrays implement the  *)
(* set of commands in force of CommandArbiter, and that what the callbacks *)
(* answer is what these commands promise.                                  *)
(***************************************************************************)
EXTENDS PropertyServer, WellFoundedInduction, TLAPS

LEMMA EffectiveIsSlot ==
  ASSUME NEW r \in Nat
  PROVE  /\ EffectivePriority(r) \in Slots
         /\ EffectivePriority(r) = Arbiter!Effective(r)
BY CommandableAssumption
   DEF EffectivePriority, Slots, Arbiter!Effective, Arbiter!Priorities

\* What a request can do to the arrays and the answer: decline, command one
\* slot of one output with a value legal there, or relinquish one slot.
LEMMA RequestCases ==
  ASSUME NEW a \in Addresses, NEW r \in Requested, WriteProperty(a, r)
  PROVE  \/ Decline
         \/ \E o \in Outputs : \E v \in LegalValues(o) :
              CommandWrite(o, r, v) /\ answer' = Accepted(o, r, v)
         \/ \E o \in Outputs :
              CommandRelinquish(o, r) /\ answer' = Accepted(o, r, Null)
<1>1. AO \in Outputs /\ BO \in Outputs /\ MSO \in Outputs
  BY DEF Outputs
<1>2. AO # BO /\ AO # MSO /\ BO # MSO
  BY DEF AO, BO, MSO
<1>3. ASSUME NEW v \in Reals, SetPropertyReal(a, v, r)
      PROVE  Decline \/ (CommandWrite(AO, r, v) /\ answer' = Accepted(AO, r, v))
  BY <1>3 DEF SetPropertyReal
<1>4. ASSUME NEW v \in Unsigneds, SetPropertyEnumerated(a, v, r)
      PROVE  Decline \/ (/\ v \in {0, 1}
                         /\ CommandWrite(BO, r, v)
                         /\ answer' = Accepted(BO, r, v))
  <2>1. v \in Nat
    BY CommandableAssumption
  <2> QED
    BY <1>4, <2>1 DEF SetPropertyEnumerated
<1>5. ASSUME NEW v \in Unsigneds, SetPropertyUnsignedInteger(a, v, r)
      PROVE  Decline \/ (/\ v \in 1 .. States
                         /\ CommandWrite(MSO, r, v)
                         /\ answer' = Accepted(MSO, r, v))
  <2>1. v \in Nat /\ States \in Nat
    BY CommandableAssumption
  <2> QED
    BY <1>5, <2>1 DEF SetPropertyUnsignedInteger
<1>6. ASSUME SetPropertyNull(a, r)
      PROVE  Decline \/ (/\ a[2] \in Outputs
                         /\ CommandRelinquish(a[2], r)
                         /\ answer' = Accepted(a[2], r, Null))
  BY <1>6 DEF SetPropertyNull, Addressed, GetCommandable
<1>7. LegalValues(AO) = Reals /\ LegalValues(BO) = {0, 1}
      /\ LegalValues(MSO) = 1 .. States
  BY <1>2 DEF LegalValues
<1> QED
  BY <1>1, <1>3, <1>4, <1>5, <1>6, <1>7 DEF WriteProperty

\* A legal value is one the value array may hold, and never the NULL.
LEMMA LegalValueType ==
  ASSUME NEW o \in Outputs, NEW v \in LegalValues(o)
  PROVE  v \in Reals \cup Nat
BY CommandableAssumption DEF LegalValues, Outputs, AO, BO, MSO

---------------------------------------------------------------------------

\* The arrays stay arrays of flags and of numbers, one slot per priority.
THEOREM TypeCorrect == Spec => []TypeOK
<1>1. Init => TypeOK
  BY DEF Init, TypeOK
<1>2. TypeOK /\ [Next]_vars => TypeOK'
  <2> SUFFICES ASSUME TypeOK, [Next]_vars
               PROVE  TypeOK'
    OBVIOUS
  <2>1. ASSUME NEW a \in Addresses, NEW r \in Requested, WriteProperty(a, r)
        PROVE  TypeOK'
    <3>1. EffectivePriority(r) \in Slots
      BY EffectiveIsSlot, CommandableAssumption
    <3>2. CASE Decline
      BY <3>2 DEF Decline, TypeOK
    <3>3. ASSUME NEW o \in Outputs, NEW v \in LegalValues(o), CommandWrite(o, r, v)
          PROVE  TypeOK'
      <4>1. v \in Reals \cup Nat
        BY LegalValueType
      <4> QED
        BY <3>1, <3>3, <4>1 DEF CommandWrite, TypeOK
    <3>4. ASSUME NEW o \in Outputs, CommandRelinquish(o, r)
          PROVE  TypeOK'
      BY <3>1, <3>4 DEF CommandRelinquish, TypeOK
    <3> QED
      BY <2>1, <3>2, <3>3, <3>4, RequestCases
  <2>2. CASE UNCHANGED vars
    BY <2>2 DEF vars, TypeOK
  <2> QED
    BY <2>1, <2>2 DEF Next
<1> QED
  BY <1>1, <1>2, PTL DEF Spec

---------------------------------------------------------------------------

\* Membership in the set of commands the arrays stand for.
LEMMA CommandsMember ==
  \A c : c \in Commands <=>
    \E o \in Outputs, s \in Slots :
      isSet[o][s] /\ c = [output |-> o, priority |-> s, value |-> value[o][s]]
BY DEF Commands, CommandAt

LEMMA InitRefines == Init => Arbiter!Init
BY CommandsMember DEF Init, Arbiter!Init, Refused, Arbiter!Refused

\* Writing a slot replaces the command of that output and priority.
LEMMA WriteRefines ==
  ASSUME TypeOK, NEW o \in Outputs, NEW r \in Nat, NEW v \in LegalValues(o),
         CommandWrite(o, r, v), answer' = Accepted(o, r, v)
  PROVE  Arbiter!Command(o, r, v)
<1> DEFINE p == EffectivePriority(r)
           new == [output |-> o, priority |-> p, value |-> v]
<1>1. p \in Slots /\ p = Arbiter!Effective(r)
  BY EffectiveIsSlot
<1> HIDE DEF p
<1>2. /\ isSet' = [isSet EXCEPT ![o][p] = TRUE]
      /\ value' = [value EXCEPT ![o][p] = v]
  BY DEF CommandWrite, p
<1>3. \A q \in Outputs, s \in Slots :
        IF q = o /\ s = p
        THEN isSet'[q][s] /\ value'[q][s] = v
        ELSE isSet'[q][s] = isSet[q][s] /\ value'[q][s] = value[q][s]
  BY <1>1, <1>2 DEF TypeOK
<1>4. \A c : c \in Commands' <=> c \in Arbiter!Without(o, p) \cup {new}
  <2>1. \A c : c \in Commands' <=>
          \E q \in Outputs, s \in Slots :
            isSet'[q][s] /\ c = [output |-> q, priority |-> s, value |-> value'[q][s]]
    BY DEF Commands, CommandAt
  <2>2. \A c : c \in Arbiter!Without(o, p) <=>
          \E q \in Outputs, s \in Slots :
            /\ isSet[q][s] /\ (q # o \/ s # p)
            /\ c = [output |-> q, priority |-> s, value |-> value[q][s]]
    BY CommandsMember DEF Arbiter!Without
  <2> QED
    BY <1>1, <1>3, <2>1, <2>2
<1>5. Commands' = Arbiter!Without(o, p) \cup {new}
  BY <1>4
<1> QED
  BY <1>1, <1>5 DEF Arbiter!Command, Accepted, Arbiter!Accepted

\* Clearing a slot's flag withdraws the command, whatever value stays behind.
LEMMA RelinquishRefines ==
  ASSUME TypeOK, NEW o \in Outputs, NEW r \in Nat,
         CommandRelinquish(o, r), answer' = Accepted(o, r, Null)
  PROVE  Arbiter!Relinquish(o, r)
<1> DEFINE p == EffectivePriority(r)
<1>1. p \in Slots /\ p = Arbiter!Effective(r)
  BY EffectiveIsSlot
<1> HIDE DEF p
<1>2. isSet' = [isSet EXCEPT ![o][p] = FALSE] /\ value' = value
  BY DEF CommandRelinquish, p
<1>3. \A q \in Outputs, s \in Slots :
        isSet'[q][s] <=> (isSet[q][s] /\ (q # o \/ s # p))
  BY <1>1, <1>2 DEF TypeOK
<1>4. \A c : c \in Commands' <=> c \in Arbiter!Without(o, p)
  <2>1. \A c : c \in Commands' <=>
          \E q \in Outputs, s \in Slots :
            isSet'[q][s] /\ c = [output |-> q, priority |-> s, value |-> value[q][s]]
    BY <1>2 DEF Commands, CommandAt
  <2>2. \A c : c \in Arbiter!Without(o, p) <=>
          \E q \in Outputs, s \in Slots :
            /\ isSet[q][s] /\ (q # o \/ s # p)
            /\ c = [output |-> q, priority |-> s, value |-> value[q][s]]
    BY CommandsMember DEF Arbiter!Without
  <2> QED
    BY <1>3, <2>1, <2>2
<1>5. Commands' = Arbiter!Without(o, p)
  BY <1>4
<1> QED
  BY <1>1, <1>5 DEF Arbiter!Relinquish, Accepted, Arbiter!Accepted

\* The two arrays implement the set of commands in force.
THEOREM ArraysImplementArbiter == Spec => ImplementsArbiter
<1>1. Init => Arbiter!Init
  BY InitRefines
<1>2. TypeOK /\ [Next]_vars => [Arbiter!Next]_(Arbiter!vars)
  <2> SUFFICES ASSUME TypeOK, [Next]_vars
               PROVE  [Arbiter!Next]_(Arbiter!vars)
    OBVIOUS
  <2>1. ASSUME NEW a \in Addresses, NEW r \in Requested, WriteProperty(a, r)
        PROVE  Arbiter!Next
    <3>1. r \in Nat
      BY CommandableAssumption
    <3>2. CASE Decline
      <4>1. Commands' = Commands
        BY <3>2 DEF Decline, Commands, CommandAt
      <4> QED
        BY <3>2, <4>1 DEF Decline, Refused, Arbiter!Refused, Arbiter!Refuse,
                          Arbiter!Next
    <3>3. ASSUME NEW o \in Outputs, NEW v \in LegalValues(o),
                 CommandWrite(o, r, v), answer' = Accepted(o, r, v)
          PROVE  Arbiter!Next
      BY <3>1, <3>3, WriteRefines DEF Arbiter!Next
    <3>4. ASSUME NEW o \in Outputs,
                 CommandRelinquish(o, r), answer' = Accepted(o, r, Null)
          PROVE  Arbiter!Next
      BY <3>1, <3>4, RelinquishRefines DEF Arbiter!Next
    <3> QED
      BY <2>1, <3>2, <3>3, <3>4, RequestCases
  <2>2. CASE UNCHANGED vars
    BY <2>2 DEF vars, Arbiter!vars, Commands, CommandAt
  <2> QED
    BY <2>1, <2>2 DEF Next
<1> QED
  BY <1>1, <1>2, TypeCorrect, PTL DEF Spec, ImplementsArbiter, Arbiter!Spec

---------------------------------------------------------------------------

\* A slot that is taken has a most urgent one among the taken slots.
LEMMA FirstSlot ==
  ASSUME NEW T, T \subseteq Slots, T # {}
  PROVE  \E s \in T : \A t \in T : s <= t
<1>1. IsWellFoundedOn(OpToRel(<, Nat), Nat)
  BY NatLessThanWellFounded
<1>2. T \subseteq Nat
  BY CommandableAssumption DEF Slots
<1>3. PICK s \in T : \A t \in T : <<t, s>> \notin OpToRel(<, Nat)
  BY <1>1, <1>2, WFMin
<1>4. \A t \in T : ~ (t < s)
  BY <1>2, <1>3 DEF OpToRel
<1> QED
  BY <1>2, <1>4

\* Resolving Present_Value slot by slot finds the command in force.
LEMMA ResolutionArbitrates ==
  ASSUME TypeOK, NEW o \in Outputs
  PROVE  PresentValue(o) = Arbiter!PresentValue(o)
<1> DEFINE taken == {s \in Slots : ~SlotIsNull(o, s)}
<1>1. \A c : c \in Commands /\ c.output = o <=>
        \E s \in taken : c = CommandAt(o, s)
  BY CommandsMember DEF CommandAt, SlotIsNull
<1>2. CASE taken = {}
  <2>1. Arbiter!InForce(o) = {}
    BY <1>1, <1>2 DEF Arbiter!InForce
  <2> QED
    BY <1>2, <2>1 DEF PresentValue, Arbiter!PresentValue
<1>3. CASE taken # {}
  <2> DEFINE first == CHOOSE s \in taken : \A t \in taken : s <= t
  <2>1. first \in taken /\ \A t \in taken : first <= t
    BY <1>3, FirstSlot
  <2>2. PresentValue(o) = value[o][first]
    BY <1>3, <2>1 DEF PresentValue, SlotValue, SlotIsNull
  <2> HIDE DEF first
  <2>3. \A c : c \in Arbiter!InForce(o) <=> c = CommandAt(o, first)
    <3>1. \A s \in taken : CommandAt(o, s).priority = s /\ CommandAt(o, s).output = o
      BY DEF CommandAt
    <3>2. \A s \in taken : s \in Int
      BY CommandableAssumption DEF Slots
    <3>3. CommandAt(o, first) \in Arbiter!InForce(o)
      BY <1>1, <2>1, <3>1 DEF Arbiter!InForce
    <3>4. ASSUME NEW c \in Arbiter!InForce(o)
          PROVE  c = CommandAt(o, first)
      <4>1. PICK s \in taken : c = CommandAt(o, s)
        BY <1>1 DEF Arbiter!InForce
      <4>2. CommandAt(o, first) \in Commands /\ CommandAt(o, first).output = o
        BY <1>1, <2>1
      <4>3. s <= first
        BY <3>1, <4>1, <4>2, <2>1 DEF Arbiter!InForce
      <4> QED
        BY <2>1, <3>2, <4>1, <4>3
    <3> QED
      BY <3>3, <3>4
  <2>4. Arbiter!InForce(o) = {CommandAt(o, first)}
    BY <2>3
  <2>5. (CHOOSE c \in Arbiter!InForce(o) : TRUE) = CommandAt(o, first)
    BY <2>4
  <2> QED
    BY <2>2, <2>4, <2>5 DEF Arbiter!PresentValue, CommandAt
<1> QED
  BY <1>2, <1>3

\* Every Present_Value read through the callbacks is the arbitrated one.
THEOREM ReadsAreArbitrated == Spec => []PresentValueArbitrated
<1>1. TypeOK => PresentValueArbitrated
  BY ResolutionArbitrates DEF PresentValueArbitrated
<1> QED
  BY <1>1, TypeCorrect, PTL

---------------------------------------------------------------------------
(* Which requests move a Present_Value. *)

Taken(o) == {s \in Slots : ~SlotIsNull(o, s)}

\* The Present_Value is that of the most urgent slot taken.
LEMMA UrgencyFacts ==
  ASSUME NEW o \in Outputs
  PROVE  /\ Taken(o) = {} => Urgency(o) = N /\ PresentValue(o) = RelinquishDefault(o)
         /\ Taken(o) # {} =>
              /\ Urgency(o) \in Taken(o)
              /\ \A t \in Taken(o) : Urgency(o) <= t
              /\ PresentValue(o) = value[o][Urgency(o)]
<1>1. CASE Taken(o) = {}
  BY <1>1 DEF Taken, Urgency, PresentValue
<1>2. CASE Taken(o) # {}
  <2> DEFINE first == CHOOSE s \in Taken(o) : \A t \in Taken(o) : s <= t
  <2>1. first \in Taken(o) /\ \A t \in Taken(o) : first <= t
    BY <1>2, FirstSlot DEF Taken
  <2>2. Urgency(o) = first
    BY <1>2, Zenon DEF Urgency, Taken
  <2>3. PresentValue(o) = SlotValue(o, first)
    BY <1>2, Zenon DEF PresentValue, Taken
  <2> HIDE DEF first
  <2>4. SlotValue(o, first) = value[o][first]
    BY <2>1 DEF SlotValue, SlotIsNull, Taken
  <2> QED
    BY <1>2, <2>1, <2>2, <2>3, <2>4
<1> QED
  BY <1>1, <1>2

\* A step that touches one slot of one output moves a Present_Value only when it
\* is that output's, and the slot is as urgent as the one in effect.
LEMMA OneSlotMoves ==
  ASSUME NEW o \in Outputs, NEW q \in Outputs, NEW p \in Slots,
         \A u \in Outputs, s \in Slots : u # q \/ s # p =>
           isSet'[u][s] = isSet[u][s] /\ value'[u][s] = value[u][s],
         PresentValue(o)' # PresentValue(o)
  PROVE  q = o /\ p <= Urgency(o)
<1>1. N \in Nat /\ (\A s \in Slots : s \in Int) /\ p <= N
  BY CommandableAssumption DEF Slots
<1> DEFINE next  == {s \in Slots : isSet'[o][s]}
           first == CHOOSE s \in next : \A t \in next : s <= t
<1>2. PresentValue(o)' = IF next = {} THEN RelinquishDefault(o)
                         ELSE IF isSet'[o][first] THEN value'[o][first] ELSE Null
  BY DEF PresentValue, SlotValue, SlotIsNull
<1>3. \A s : s \in Taken(o) <=> (s \in Slots /\ isSet[o][s])
  BY DEF Taken, SlotIsNull
<1>4. next # {} => first \in next /\ \A t \in next : first <= t
  BY FirstSlot
<1> HIDE DEF first
<1>5. /\ next = {} => PresentValue(o)' = RelinquishDefault(o)
      /\ next # {} => PresentValue(o)' = value'[o][first]
  BY <1>2, <1>4
<1>10. \A s : s \in next <=> (s \in Slots /\ isSet'[o][s])
  OBVIOUS
<1> HIDE DEF next
<1>6. ASSUME \A s \in Slots : isSet'[o][s] = isSet[o][s] /\ value'[o][s] = value[o][s]
      PROVE  FALSE
  <2>1. \A s : s \in next <=> s \in Taken(o)
    BY <1>3, <1>6, <1>10
  <2>2. CASE Taken(o) = {}
    BY <1>5, <2>1, <2>2, UrgencyFacts
  <2>3. CASE Taken(o) # {}
    <3>1. /\ Urgency(o) \in Taken(o)
          /\ \A t \in Taken(o) : Urgency(o) <= t
          /\ PresentValue(o) = value[o][Urgency(o)]
      BY <2>3, UrgencyFacts
    <3>2. /\ next # {} /\ first \in next /\ \A t \in next : first <= t
          /\ first \in Slots /\ Urgency(o) \in Slots
      BY <1>3, <1>4, <2>1, <2>3, <3>1
    <3>3. first <= Urgency(o) /\ Urgency(o) <= first
      BY <2>1, <3>1, <3>2
    <3>4. first = Urgency(o)
      BY <1>1, <3>2, <3>3
    <3> QED
      BY <1>5, <1>6, <3>1, <3>2, <3>4
  <2> QED
    BY <2>2, <2>3
<1>7. q = o
  BY <1>6
<1>8. CASE Taken(o) = {}
  BY <1>1, <1>7, <1>8, UrgencyFacts
<1>9. CASE Taken(o) # {}
  <2>1. SUFFICES ASSUME ~ (p <= Urgency(o)) PROVE FALSE
    BY <1>7
  <2>2. /\ Urgency(o) \in Slots /\ isSet[o][Urgency(o)]
        /\ \A t \in Taken(o) : Urgency(o) <= t
        /\ PresentValue(o) = value[o][Urgency(o)]
    BY <1>3, <1>9, UrgencyFacts
  <2>3. Urgency(o) # p /\ Urgency(o) <= p
    BY <1>1, <2>1, <2>2
  <2>4. /\ Urgency(o) \in next
        /\ value'[o][Urgency(o)] = value[o][Urgency(o)]
    BY <1>10, <2>2, <2>3
  <2>5. \A t \in next : t = p \/ t \in Taken(o)
    BY <1>3, <1>7, <1>10
  <2>6. first = Urgency(o)
    <3>1. first \in next /\ first <= Urgency(o) /\ first \in Slots
      BY <1>4, <1>10, <2>4
    <3>2. Urgency(o) <= first
      BY <2>2, <2>3, <2>5, <3>1
    <3> QED
      BY <1>1, <2>2, <3>1, <3>2
  <2> QED
    BY <1>5, <2>2, <2>4, <2>6
<1> QED
  BY <1>8, <1>9

\* A Present_Value moves only by an accepted request to its own output, at a
\* priority as urgent as the one in effect before it.
THEOREM LessUrgentNeverMoves == Spec => MoreUrgentHolds
<1> DEFINE Moves == \A o \in Outputs :
                      PresentValue(o)' # PresentValue(o)
                        => /\ answer'.accepted
                           /\ answer'.output = o
                           /\ Arbiter!Effective(answer'.priority) <= Urgency(o)
<1>1. TypeOK /\ [Next]_vars => [Moves]_vars
  <2> SUFFICES ASSUME TypeOK, Next PROVE Moves
    OBVIOUS
  <2> SUFFICES ASSUME NEW o \in Outputs, PresentValue(o)' # PresentValue(o)
               PROVE  /\ answer'.accepted
                      /\ answer'.output = o
                      /\ Arbiter!Effective(answer'.priority) <= Urgency(o)
    OBVIOUS
  <2>1. PICK a \in Addresses, r \in Requested : WriteProperty(a, r)
    BY DEF Next
  <2>2. r \in Nat
    BY CommandableAssumption
  <2> DEFINE p == EffectivePriority(r)
  <2>3. p \in Slots /\ p = Arbiter!Effective(r)
    BY <2>2, EffectiveIsSlot
  <2> HIDE DEF p
  <2>4. CASE Decline
    BY <2>4 DEF Decline, PresentValue, SlotValue, SlotIsNull
  <2>5. ASSUME NEW q \in Outputs, NEW v, CommandWrite(q, r, v),
               answer' = Accepted(q, r, v)
        PROVE  /\ answer'.accepted
               /\ answer'.output = o
               /\ Arbiter!Effective(answer'.priority) <= Urgency(o)
    <3>1. \A u \in Outputs, s \in Slots : u # q \/ s # p =>
            isSet'[u][s] = isSet[u][s] /\ value'[u][s] = value[u][s]
      BY <2>3, <2>5 DEF CommandWrite, TypeOK, p
    <3>2. q = o /\ p <= Urgency(o)
      BY <2>3, <3>1, OneSlotMoves
    <3> QED
      BY <2>3, <2>5, <3>2 DEF Accepted
  <2>6. ASSUME NEW q \in Outputs, CommandRelinquish(q, r),
               answer' = Accepted(q, r, Null)
        PROVE  /\ answer'.accepted
               /\ answer'.output = o
               /\ Arbiter!Effective(answer'.priority) <= Urgency(o)
    <3>1. \A u \in Outputs, s \in Slots : u # q \/ s # p =>
            isSet'[u][s] = isSet[u][s] /\ value'[u][s] = value[u][s]
      BY <2>3, <2>6 DEF CommandRelinquish, TypeOK, p
    <3>2. q = o /\ p <= Urgency(o)
      BY <2>3, <3>1, OneSlotMoves
    <3> QED
      BY <2>3, <2>6, <3>2 DEF Accepted
  <2> QED
    BY <2>1, <2>4, <2>5, <2>6, RequestCases
<1> QED
  BY <1>1, TypeCorrect, PTL DEF Spec, MoreUrgentHolds

---------------------------------------------------------------------------
(* What the get callbacks show. *)

\* A slot query names its slot and no other, and no other answer applies to it.
LEMMA SlotAnswers ==
  ASSUME NEW o \in Outputs, NEW x \in 0 .. N + 1
  PROVE  LET q == Query(o, 1, "Priority_Array", x)
         IN  /\ GetPropertyBool(q) = {SlotIsNull(o, s) : s \in {t \in Slots : t = x}}
             /\ TypedGetter(o, q) =
                  {value[o][s] : s \in {t \in Slots : t = x /\ isSet[o][t]}}
<1> DEFINE q == Query(o, 1, "Priority_Array", x)
<1>1. q.ours /\ q.type = o /\ q.inst = 1 /\ q.prop = "Priority_Array" /\ q.index = x
  BY DEF Query
<1> HIDE DEF q
<1>2. GetCommandable(q.type, q.inst) = o /\ o # NoOutput
  BY <1>1 DEF GetCommandable, NoOutput, Outputs, AO, BO, MSO
<1>3. \A s : NamesSlot(q, s) <=> s = x
  BY <1>1 DEF NamesSlot
<1>4. \A t, i, p : Names(q, t, i, p) => p = "Priority_Array"
  BY <1>1 DEF Names
<1>5. \A v : Serve(FALSE, v) = {}
  BY DEF Serve
<1>6. GetPropertyBool(q) = {SlotIsNull(o, s) : s \in {t \in Slots : t = x}}
  <2>1. Serve(q.type # Device /\ q.prop = "Out_Of_Service", FALSE) = {}
    BY <1>1 DEF Serve
  <2>2. GetPropertyBool(q) =
          {SlotIsNull(o, s) : s \in {t \in Slots : NamesSlot(q, t)}}
    BY <1>1, <1>2, <2>1 DEF GetPropertyBool
  <2>3. {t \in Slots : NamesSlot(q, t)} = {t \in Slots : t = x}
    BY <1>3
  <2> QED
    BY <2>2, <2>3
<1>7. OutputValue(q, o) = {value[o][s] : s \in {t \in Slots : t = x /\ isSet[o][t]}}
  <2>1. Serve(q.prop = "Relinquish_Default", RelinquishDefault(o)) = {}
    BY <1>1 DEF Serve
  <2>2. OutputValue(q, o) =
          {value[o][s] : s \in {t \in Slots : NamesSlot(q, t) /\ isSet[o][t]}}
    BY <1>2, <2>1 DEF OutputValue
  <2>3. {t \in Slots : NamesSlot(q, t) /\ isSet[o][t]}
          = {t \in Slots : t = x /\ isSet[o][t]}
    BY <1>3
  <2> QED
    BY <2>2, <2>3
<1>8. TypedGetter(o, q) = OutputValue(q, o)
  <2>1. CASE o = AO
    <3>1. TypedGetter(o, q) = GetPropertyReal(q)
      BY <2>1 DEF TypedGetter, AO, BO, MSO
    <3>2. Serve(Names(q, AI, 1, "Present_Value"), AnalogInput) = {}
      BY <1>4 DEF Serve
    <3> QED
      BY <1>1, <2>1, <3>1, <3>2 DEF GetPropertyReal
  <2>2. CASE o = BO
    <3>1. TypedGetter(o, q) = GetPropertyEnumerated(q)
      BY <2>2 DEF TypedGetter, AO, BO, MSO
    <3>2. /\ Serve(Names(q, BI, 1, "Present_Value"), 0) = {}
          /\ Serve(\E t \in {BI, BO} : Names(q, t, 1, "Polarity"), PolarityNormal) = {}
          /\ Serve(ServesUnits(q), DegreesCelsius) = {}
          /\ Serve(q.type = NP /\ q.prop = "BACnet_IP_Mode", IpModeNormal) = {}
      BY <1>1, <1>4 DEF Serve, ServesUnits
    <3> QED
      BY <1>1, <2>2, <3>1, <3>2 DEF GetPropertyEnumerated
  <2>3. CASE o = MSO
    <3>1. TypedGetter(o, q) = GetPropertyUnsignedInteger(q)
      BY <2>3 DEF TypedGetter, AO, BO, MSO
    <3>2. /\ Serve(Names(q, MSI, 1, "Present_Value"), 1) = {}
          /\ Serve(Names(q, MSI, 1, "Number_Of_States"), InputStates) = {}
          /\ Serve(Names(q, MSI, 1, "State_Text") /\ q.index = 0, InputStates) = {}
          /\ Serve(Names(q, Device, DeviceId, "Vendor_Identifier"), VendorIdentifier) = {}
          /\ Serve(Names(q, MSO, 1, "Number_Of_States"), States) = {}
      BY <1>4 DEF Serve
    <3>3. \A i : /\ Serve(Names(q, NP, i, "APDU_Length"), MaxApduLength) = {}
                 /\ Serve(Names(q, NP, i, "Reference_Port"), NoReferencePort) = {}
                 /\ Serve(Names(q, NP, i, "BACnet_IP_UDP_Port"), UdpPort[i]) = {}
      BY <1>4 DEF Serve
    <3> DEFINE networkPorts ==
                 UNION {Serve(Names(q, NP, i, "APDU_Length"), MaxApduLength)
                          \cup Serve(Names(q, NP, i, "Reference_Port"), NoReferencePort)
                          \cup Serve(Names(q, NP, i, "BACnet_IP_UDP_Port"), UdpPort[i])
                          : i \in {1, 2}}
    <3>4. networkPorts = {}
      BY <3>3
    <3>5. GetPropertyUnsignedInteger(q) =
            Serve(Names(q, MSI, 1, "Present_Value"), 1)
            \cup Serve(Names(q, MSI, 1, "Number_Of_States"), InputStates)
            \cup Serve(Names(q, MSI, 1, "State_Text") /\ q.index = 0, InputStates)
            \cup Serve(Names(q, Device, DeviceId, "Vendor_Identifier"), VendorIdentifier)
            \cup networkPorts
            \cup OutputValue(q, MSO)
            \cup Serve(Names(q, MSO, 1, "Number_Of_States"), States)
      <4>1. q.ours
        BY <1>1
      <4> QED
        BY <4>1, Zenon DEF GetPropertyUnsignedInteger
    <3> HIDE DEF networkPorts
    <3> QED
      BY <2>3, <3>1, <3>2, <3>4, <3>5
  <2> QED
    BY <2>1, <2>2, <2>3 DEF Outputs
<1> QED
  BY <1>6, <1>7, <1>8 DEF q

\* A client sees exactly the commands in force through the two callbacks that
\* answer for a slot, after any sequence of writes and relinquishes.
THEOREM ClientsSeeTheCommands == Spec => []SlotsShowTheCommands
<1>1. ASSUME TypeOK, NEW o \in Outputs, NEW x \in 0 .. N + 1
      PROVE  LET q     == Query(o, 1, "Priority_Array", x)
                 force == {c \in Commands : c.output = o /\ c.priority = x}
             IN  /\ GetPropertyBool(q) = Serve(x \in Slots, force = {})
                 /\ TypedGetter(o, q) = {c.value : c \in force}
  <2> DEFINE q     == Query(o, 1, "Priority_Array", x)
             force == {c \in Commands : c.output = o /\ c.priority = x}
  <2>1. /\ GetPropertyBool(q) = {SlotIsNull(o, s) : s \in {t \in Slots : t = x}}
        /\ TypedGetter(o, q) =
             {value[o][s] : s \in {t \in Slots : t = x /\ isSet[o][t]}}
    BY SlotAnswers
  <2>2. \A c : c \in force <=>
          (x \in Slots /\ isSet[o][x] /\
           c = [output |-> o, priority |-> x, value |-> value[o][x]])
    BY CommandsMember
  <2> HIDE DEF q, force
  <2>3. CASE x \notin Slots
    <3>1. force = {}
      BY <2>2, <2>3
    <3>2. GetPropertyBool(q) = {} /\ TypedGetter(o, q) = {}
      BY <2>1, <2>3
    <3>3. Serve(x \in Slots, force = {}) = {}
      BY <2>3 DEF Serve
    <3>4. {c.value : c \in force} = {}
      BY <3>1
    <3> QED
      BY <3>2, <3>3, <3>4 DEF q, force
  <2>4. CASE x \in Slots /\ isSet[o][x]
    <3> DEFINE c == [output |-> o, priority |-> x, value |-> value[o][x]]
    <3>1. force = {c}
      BY <2>2, <2>4
    <3>2. {d.value : d \in force} = {value[o][x]}
      BY <3>1
    <3>3. TypedGetter(o, q) = {value[o][x]}
      BY <2>1, <2>4
    <3>4. SlotIsNull(o, x) = FALSE
      BY <2>4 DEF SlotIsNull
    <3>5. GetPropertyBool(q) = {FALSE}
      BY <2>1, <2>4, <3>4
    <3>6. Serve(x \in Slots, force = {}) = {FALSE}
      <4>1. (force = {}) = FALSE
        BY <3>1
      <4> QED
        BY <2>4, <4>1 DEF Serve
    <3> QED
      BY <3>2, <3>3, <3>5, <3>6 DEF q, force
  <2>5. CASE x \in Slots /\ ~isSet[o][x]
    <3>1. force = {}
      BY <2>2, <2>5
    <3>2. {d.value : d \in force} = {}
      BY <3>1
    <3>3. TypedGetter(o, q) = {}
      BY <2>1, <2>5
    <3>4. SlotIsNull(o, x) = TRUE
      BY <2>5 DEF SlotIsNull
    <3>5. GetPropertyBool(q) = {TRUE}
      BY <2>1, <2>5, <3>4
    <3>6. Serve(x \in Slots, force = {}) = {TRUE}
      <4>1. (force = {}) = TRUE
        BY <3>1
      <4> QED
        BY <2>5, <4>1 DEF Serve
    <3> QED
      BY <3>2, <3>3, <3>5, <3>6 DEF q, force
  <2> QED
    BY <2>3, <2>4, <2>5
<1>2. TypeOK => SlotsShowTheCommands
  BY <1>1 DEF SlotsShowTheCommands
<1> QED
  BY <1>2, TypeCorrect, PTL

---------------------------------------------------------------------------
(* What each get callback answers, value by value. *)

LEMMA ServeMember ==
  ASSUME NEW condition, NEW v, NEW w
  PROVE  w \in Serve(condition, v) <=> (condition /\ w = v)
BY DEF Serve

LEMMA OutputMember ==
  ASSUME NEW q, NEW o, NEW v
  PROVE  v \in OutputValue(q, o) <=>
           /\ GetCommandable(q.type, q.inst) = o
           /\ \/ \E s \in Slots : NamesSlot(q, s) /\ isSet[o][s] /\ v = value[o][s]
              \/ q.prop = "Relinquish_Default" /\ v = RelinquishDefault(o)
BY DEF OutputValue, Serve

LEMMA RealMember ==
  ASSUME NEW q, q.ours, NEW v
  PROVE  v \in GetPropertyReal(q) <=>
           \/ Names(q, AI, 1, "Present_Value") /\ v = AnalogInput
           \/ v \in OutputValue(q, AO)
BY ServeMember DEF GetPropertyReal

LEMMA EnumeratedMember ==
  ASSUME NEW q, q.ours, NEW v
  PROVE  v \in GetPropertyEnumerated(q) <=>
           \/ Names(q, BI, 1, "Present_Value") /\ v = 0
           \/ (\E t \in {BI, BO} : Names(q, t, 1, "Polarity")) /\ v = PolarityNormal
           \/ v \in OutputValue(q, BO)
           \/ ServesUnits(q) /\ v = DegreesCelsius
           \/ q.type = NP /\ q.prop = "BACnet_IP_Mode" /\ v = IpModeNormal
<1> DEFINE polarity == \E t \in {BI, BO} : Names(q, t, 1, "Polarity")
<1>1. GetPropertyEnumerated(q) =
        Serve(Names(q, BI, 1, "Present_Value"), 0)
        \cup Serve(polarity, PolarityNormal)
        \cup OutputValue(q, BO)
        \cup Serve(ServesUnits(q), DegreesCelsius)
        \cup Serve(q.type = NP /\ q.prop = "BACnet_IP_Mode", IpModeNormal)
  BY Zenon DEF GetPropertyEnumerated
<1>2. v \in Serve(polarity, PolarityNormal) <=> polarity /\ v = PolarityNormal
  BY ServeMember
<1>3. v \in Serve(Names(q, BI, 1, "Present_Value"), 0)
        <=> Names(q, BI, 1, "Present_Value") /\ v = 0
  BY ServeMember
<1>4. v \in Serve(ServesUnits(q), DegreesCelsius)
        <=> ServesUnits(q) /\ v = DegreesCelsius
  BY ServeMember
<1>5. v \in Serve(q.type = NP /\ q.prop = "BACnet_IP_Mode", IpModeNormal)
        <=> q.type = NP /\ q.prop = "BACnet_IP_Mode" /\ v = IpModeNormal
  BY ServeMember
<1> HIDE DEF polarity
<1>6. v \in GetPropertyEnumerated(q) <=>
        \/ v \in Serve(Names(q, BI, 1, "Present_Value"), 0)
        \/ v \in Serve(polarity, PolarityNormal)
        \/ v \in OutputValue(q, BO)
        \/ v \in Serve(ServesUnits(q), DegreesCelsius)
        \/ v \in Serve(q.type = NP /\ q.prop = "BACnet_IP_Mode", IpModeNormal)
  BY <1>1, Zenon
<1> QED
  BY <1>2, <1>3, <1>4, <1>5, <1>6 DEF polarity

LEMMA UnsignedMember ==
  ASSUME NEW q, q.ours, NEW v
  PROVE  v \in GetPropertyUnsignedInteger(q) <=>
           \/ Names(q, MSI, 1, "Present_Value") /\ v = 1
           \/ Names(q, MSI, 1, "Number_Of_States") /\ v = InputStates
           \/ Names(q, MSI, 1, "State_Text") /\ q.index = 0 /\ v = InputStates
           \/ Names(q, Device, DeviceId, "Vendor_Identifier") /\ v = VendorIdentifier
           \/ \E i \in {1, 2} :
                \/ Names(q, NP, i, "APDU_Length") /\ v = MaxApduLength
                \/ Names(q, NP, i, "Reference_Port") /\ v = NoReferencePort
                \/ Names(q, NP, i, "BACnet_IP_UDP_Port") /\ v = UdpPort[i]
           \/ v \in OutputValue(q, MSO)
           \/ Names(q, MSO, 1, "Number_Of_States") /\ v = States
<1> DEFINE each(i) == Serve(Names(q, NP, i, "APDU_Length"), MaxApduLength)
                        \cup Serve(Names(q, NP, i, "Reference_Port"), NoReferencePort)
                        \cup Serve(Names(q, NP, i, "BACnet_IP_UDP_Port"), UdpPort[i])
           all == UNION {each(i) : i \in {1, 2}}
<1>1. v \in all <=> \E i \in {1, 2} : v \in each(i)
  OBVIOUS
<1>2. \A i : v \in each(i) <=>
        \/ Names(q, NP, i, "APDU_Length") /\ v = MaxApduLength
        \/ Names(q, NP, i, "Reference_Port") /\ v = NoReferencePort
        \/ Names(q, NP, i, "BACnet_IP_UDP_Port") /\ v = UdpPort[i]
  BY ServeMember
<1>3. GetPropertyUnsignedInteger(q) =
        Serve(Names(q, MSI, 1, "Present_Value"), 1)
        \cup Serve(Names(q, MSI, 1, "Number_Of_States"), InputStates)
        \cup Serve(Names(q, MSI, 1, "State_Text") /\ q.index = 0, InputStates)
        \cup Serve(Names(q, Device, DeviceId, "Vendor_Identifier"), VendorIdentifier)
        \cup all
        \cup OutputValue(q, MSO)
        \cup Serve(Names(q, MSO, 1, "Number_Of_States"), States)
  BY Zenon DEF GetPropertyUnsignedInteger
<1>4. v \in GetPropertyUnsignedInteger(q) <=>
        \/ v \in Serve(Names(q, MSI, 1, "Present_Value"), 1)
        \/ v \in Serve(Names(q, MSI, 1, "Number_Of_States"), InputStates)
        \/ v \in Serve(Names(q, MSI, 1, "State_Text") /\ q.index = 0, InputStates)
        \/ v \in Serve(Names(q, Device, DeviceId, "Vendor_Identifier"),
                       VendorIdentifier)
        \/ \E i \in {1, 2} : v \in each(i)
        \/ v \in OutputValue(q, MSO)
        \/ v \in Serve(Names(q, MSO, 1, "Number_Of_States"), States)
  <2> HIDE DEF all, each
  <2> QED
    BY <1>1, <1>3, Zenon
<1>5. /\ v \in Serve(Names(q, MSI, 1, "Present_Value"), 1)
           <=> Names(q, MSI, 1, "Present_Value") /\ v = 1
      /\ v \in Serve(Names(q, MSI, 1, "Number_Of_States"), InputStates)
           <=> Names(q, MSI, 1, "Number_Of_States") /\ v = InputStates
      /\ v \in Serve(Names(q, MSI, 1, "State_Text") /\ q.index = 0, InputStates)
           <=> Names(q, MSI, 1, "State_Text") /\ q.index = 0 /\ v = InputStates
  BY ServeMember
<1>6. /\ v \in Serve(Names(q, Device, DeviceId, "Vendor_Identifier"),
                     VendorIdentifier)
           <=> Names(q, Device, DeviceId, "Vendor_Identifier") /\ v = VendorIdentifier
      /\ v \in Serve(Names(q, MSO, 1, "Number_Of_States"), States)
           <=> Names(q, MSO, 1, "Number_Of_States") /\ v = States
  BY ServeMember
<1> HIDE DEF all, each
<1> QED
  BY <1>2, <1>4, <1>5, <1>6

\* A client that walks State_Text finds a text for every state and no more.
THEOREM StateTextIsComplete == Spec => []StateTextComplete
<1> DEFINE element(x) == Query(MSI, 1, "State_Text", x)
           states     == Query(MSI, 1, "Number_Of_States", NoIndex)
           present    == Query(MSI, 1, "Present_Value", NoIndex)
<1>1. InputStates = 3
  BY ServerAssumption
<1>2. \A t, i : t = MSI => GetCommandable(t, i) \notin Outputs
  BY DEF GetCommandable, NoOutput, Outputs, AO, BO, MSO, MSI
<1>3. GetPropertyUnsignedInteger(element(0)) = {3}
  <2> DEFINE q == element(0)
  <2>1. q.ours /\ q.type = MSI /\ q.inst = 1 /\ q.prop = "State_Text" /\ q.index = 0
    BY DEF Query
  <2> HIDE DEF q
  <2>2. \A v : v \notin OutputValue(q, MSO)
    BY <1>2, <2>1, OutputMember DEF Outputs
  <2>3. \A v : v \in GetPropertyUnsignedInteger(q) <=> v = 3
    BY <1>1, <2>1, <2>2, UnsignedMember DEF Names
  <2> QED
    BY <2>3 DEF q
<1>4. GetPropertyUnsignedInteger(states) = {3}
  <2> DEFINE q == states
  <2>1. q.ours /\ q.type = MSI /\ q.inst = 1 /\ q.prop = "Number_Of_States"
    BY DEF Query
  <2> HIDE DEF q
  <2>2. \A v : v \notin OutputValue(q, MSO)
    BY <1>2, <2>1, OutputMember DEF Outputs
  <2>3. MSI # MSO /\ MSI # Device /\ MSI # NP
    BY DEF MSI, MSO, Device, NP
  <2>4. \A v : v \in GetPropertyUnsignedInteger(q) <=> v = 3
    BY <1>1, <2>1, <2>2, <2>3, UnsignedMember DEF Names
  <2> QED
    BY <2>4 DEF q
<1>5. GetPropertyUnsignedInteger(present) = {1}
  <2> DEFINE q == present
  <2>1. q.ours /\ q.type = MSI /\ q.inst = 1 /\ q.prop = "Present_Value"
    BY DEF Query
  <2> HIDE DEF q
  <2>2. \A v : v \notin OutputValue(q, MSO)
    BY <1>2, <2>1, OutputMember DEF Outputs
  <2>3. MSI # MSO /\ MSI # Device /\ MSI # NP
    BY DEF MSI, MSO, Device, NP
  <2>4. \A v : v \in GetPropertyUnsignedInteger(q) <=> v = 1
    BY <1>1, <2>1, <2>2, <2>3, UnsignedMember DEF Names
  <2> QED
    BY <2>4 DEF q
<1>6. ASSUME NEW x \in 1 .. InputStates + 1
      PROVE  /\ GetPropertyCharString(element(x)) # {} <=> x <= 3
             /\ InvalidArrayIndex(element(x)) <=> x > 3
  <2> DEFINE q == element(x)
  <2>1. q.ours /\ q.type = MSI /\ q.inst = 1 /\ q.prop = "State_Text" /\ q.index = x
    BY DEF Query
  <2> HIDE DEF q
  <2>2. Names(q, MSI, 1, "State_Text") /\ x \in Nat /\ x > 0 /\ x # NoIndex
    BY <1>1, <2>1 DEF Names, NoIndex
  <2>3. HasStateText(x) <=> x <= 3
    BY <1>1, <2>2 DEF HasStateText
  <2>4. InvalidArrayIndex(q) <=> x > 3
    BY <2>1, <2>2, <2>3 DEF InvalidArrayIndex
  <2>5. {n[3] : n \in {m \in ObjectNames : Names(q, m[1], m[2], "Object_Name")}} = {}
    BY <2>1 DEF Names
  <2>6. {t \in DeviceTexts : Names(q, Device, DeviceId, t)} = {}
    BY <2>1 DEF Names, Device, MSI
  <2>7. Texts(q) =
          {StateText[i] : i \in {y \in {q.index} : /\ Names(q, MSI, 1, "State_Text")
                                                    /\ HasStateText(y)}}
    BY <2>5, <2>6 DEF Texts
  <2>8. Texts(q) # {} <=> HasStateText(x)
    BY <2>1, <2>2, <2>7
  <2> QED
    BY <2>1, <2>3, <2>4, <2>8 DEF GetPropertyCharString, q
<1> HIDE DEF element, states, present
<1>7. StateTextComplete <=>
        /\ GetPropertyUnsignedInteger(element(0)) = GetPropertyUnsignedInteger(states)
        /\ \A n \in GetPropertyUnsignedInteger(element(0)), x \in 1 .. InputStates + 1 :
             /\ GetPropertyCharString(element(x)) # {} <=> x <= n
             /\ InvalidArrayIndex(element(x)) <=> x > n
        /\ \A n \in GetPropertyUnsignedInteger(element(0)),
              v \in GetPropertyUnsignedInteger(present) : v \in 1 .. n
  BY Zenon DEF StateTextComplete, element, states, present
<1>8. StateTextComplete
  BY <1>3, <1>4, <1>5, <1>6, <1>7
<1> QED
  BY <1>8, PTL

---------------------------------------------------------------------------
(* Which callback answers the query of a whole property.  A query of the   *)
(* kind that docs/PICS.md lists has no array index, State_Text apart, and  *)
(* its property is not the priority array.                                 *)

LEMMA OutputServed ==
  ASSUME NEW q, NEW o, q.prop # "Priority_Array"
  PROVE  OutputValue(q, o) # {}
           <=> GetCommandable(q.type, q.inst) = o /\ q.prop = "Relinquish_Default"
<1>1. \A v : v \in OutputValue(q, o) <=>
               /\ GetCommandable(q.type, q.inst) = o
               /\ q.prop = "Relinquish_Default" /\ v = RelinquishDefault(o)
  BY OutputMember DEF NamesSlot
<1> QED
  BY <1>1

LEMMA NumbersServed ==
  ASSUME NEW q, q.ours, q.prop # "Priority_Array"
  PROVE  /\ GetPropertyReal(q) # {} <=>
              \/ Names(q, AI, 1, "Present_Value")
              \/ /\ GetCommandable(q.type, q.inst) = AO
                 /\ q.prop = "Relinquish_Default"
         /\ GetPropertyEnumerated(q) # {} <=>
              \/ Names(q, BI, 1, "Present_Value")
              \/ \E t \in {BI, BO} : Names(q, t, 1, "Polarity")
              \/ /\ GetCommandable(q.type, q.inst) = BO
                 /\ q.prop = "Relinquish_Default"
              \/ ServesUnits(q)
              \/ q.type = NP /\ q.prop = "BACnet_IP_Mode"
<1>1. (\E v : v \in GetPropertyReal(q)) <=>
        \/ Names(q, AI, 1, "Present_Value")
        \/ \E v : v \in OutputValue(q, AO)
  BY RealMember, Zenon
<1>2. (\E v : v \in GetPropertyEnumerated(q)) <=>
        \/ Names(q, BI, 1, "Present_Value")
        \/ \E t \in {BI, BO} : Names(q, t, 1, "Polarity")
        \/ \E v : v \in OutputValue(q, BO)
        \/ ServesUnits(q)
        \/ q.type = NP /\ q.prop = "BACnet_IP_Mode"
  BY EnumeratedMember, Zenon
<1>3. \A S : S # {} <=> \E v : v \in S
  OBVIOUS
<1>4. \A o : (\E v : v \in OutputValue(q, o)) <=>
        GetCommandable(q.type, q.inst) = o /\ q.prop = "Relinquish_Default"
  BY <1>3, OutputServed, Zenon
<1> QED
  BY <1>1, <1>2, <1>3, <1>4, Zenon

LEMMA UnsignedServed ==
  ASSUME NEW q, q.ours, q.prop # "Priority_Array"
  PROVE  GetPropertyUnsignedInteger(q) # {} <=>
           \/ Names(q, MSI, 1, "Present_Value")
           \/ Names(q, MSI, 1, "Number_Of_States")
           \/ Names(q, MSI, 1, "State_Text") /\ q.index = 0
           \/ Names(q, Device, DeviceId, "Vendor_Identifier")
           \/ \E i \in {1, 2} :
                \/ Names(q, NP, i, "APDU_Length")
                \/ Names(q, NP, i, "Reference_Port")
                \/ Names(q, NP, i, "BACnet_IP_UDP_Port")
           \/ /\ GetCommandable(q.type, q.inst) = MSO
              /\ q.prop = "Relinquish_Default"
           \/ Names(q, MSO, 1, "Number_Of_States")
<1>1. \A S : S # {} <=> \E v : v \in S
  OBVIOUS
<1>2. (\E v : v \in OutputValue(q, MSO)) <=>
        GetCommandable(q.type, q.inst) = MSO /\ q.prop = "Relinquish_Default"
  BY <1>1, OutputServed, Zenon
<1>3. (\E v : v \in GetPropertyUnsignedInteger(q)) <=>
        \/ Names(q, MSI, 1, "Present_Value")
        \/ Names(q, MSI, 1, "Number_Of_States")
        \/ Names(q, MSI, 1, "State_Text") /\ q.index = 0
        \/ Names(q, Device, DeviceId, "Vendor_Identifier")
        \/ \E i \in {1, 2} :
             \/ Names(q, NP, i, "APDU_Length")
             \/ Names(q, NP, i, "Reference_Port")
             \/ Names(q, NP, i, "BACnet_IP_UDP_Port")
        \/ \E v : v \in OutputValue(q, MSO)
        \/ Names(q, MSO, 1, "Number_Of_States")
  BY UnsignedMember, Zenon
<1> QED
  BY <1>1, <1>2, <1>3, Zenon

LEMMA OthersServed ==
  ASSUME NEW q, q.ours, q.prop # "Priority_Array", q.index = NoIndex
  PROVE  /\ GetPropertyBool(q) # {} <=> q.type # Device /\ q.prop = "Out_Of_Service"
         /\ GetPropertyCharString(q) # {} <=>
              \/ \E m \in ObjectNames : Names(q, m[1], m[2], "Object_Name")
              \/ \E t \in DeviceTexts : Names(q, Device, DeviceId, t)
         /\ GetPropertyOctetString(q, 4) # {} <=>
              /\ q.type = NP /\ q.inst \in {1, 2}
              /\ q.prop \in {"IP_Address", "IP_Subnet_Mask", "IP_Default_Gateway"}
<1>1. \A s : ~NamesSlot(q, s)
  BY DEF NamesSlot
<1>2. ~HasStateText(NoIndex)
  BY DEF HasStateText, NoIndex
<1>3. GetPropertyBool(q) # {} <=> q.type # Device /\ q.prop = "Out_Of_Service"
  BY <1>1 DEF GetPropertyBool, Serve
<1>4. Texts(q) = {n[3] : n \in {m \in ObjectNames : Names(q, m[1], m[2], "Object_Name")}}
                   \cup {t \in DeviceTexts : Names(q, Device, DeviceId, t)}
  BY <1>2 DEF Texts
<1>5. Texts(q) # {} <=>
        \/ \E m \in ObjectNames : Names(q, m[1], m[2], "Object_Name")
        \/ \E t \in DeviceTexts : Names(q, Device, DeviceId, t)
  BY <1>4
<1>6. GetPropertyOctetString(q, 4) # {} <=>
        /\ q.type = NP /\ q.inst \in {1, 2}
        /\ q.prop \in {"IP_Address", "IP_Subnet_Mask", "IP_Default_Gateway"}
  BY DEF GetPropertyOctetString, Serve
<1> QED
  BY <1>3, <1>5, <1>6 DEF GetPropertyCharString

LEMMA AnsweredMember ==
  ASSUME NEW q, NEW d
  PROVE  d \in AnsweredAs(q) <=>
           \/ d = "Real" /\ GetPropertyReal(q) # {}
           \/ d = "Enumerated" /\ GetPropertyEnumerated(q) # {}
           \/ d = "Unsigned" /\ GetPropertyUnsignedInteger(q) # {}
           \/ d = "Boolean" /\ GetPropertyBool(q) # {}
           \/ d = "CharacterString" /\ GetPropertyCharString(q) # {}
           \/ d = "OctetString" /\ GetPropertyOctetString(q, 4) # {}
BY DEF AnsweredAs

LEMMA ObjectsAre ==
  ASSUME NEW o \in Objects
  PROVE  /\ o[1] \in {Device, AI, BI, MSI, AO, BO, MSO, NP}
         /\ o[1] = Device => o[2] = DeviceId
         /\ o[1] = NP => o[2] \in {1, 2}
         /\ o[1] \notin {Device, NP} => o[2] = 1
         /\ \E m \in ObjectNames : m[1] = o[1] /\ m[2] = o[2]
<1>1. PICK m \in ObjectNames : o = <<m[1], m[2]>>
  BY DEF Objects
<1>2. o[1] = m[1] /\ o[2] = m[2]
  BY <1>1
<1>3. /\ m[1] \in {Device, AI, BI, MSI, AO, BO, MSO, NP}
      /\ m[1] = Device => m[2] = DeviceId
      /\ m[1] = NP => m[2] \in {1, 2}
      /\ m[1] \notin {Device, NP} => m[2] = 1
  <2>1. \/ \E x : m = <<Device, DeviceId, x>>
        \/ \E t \in {AI, BI, MSI, AO, BO, MSO} : \E x : m = <<t, 1, x>>
        \/ \E i \in {1, 2} : \E x : m = <<NP, i, x>>
    BY Zenon DEF ObjectNames
  <2>2. CASE \E x : m = <<Device, DeviceId, x>>
    BY <2>2 DEF Device, NP
  <2>3. CASE \E t \in {AI, BI, MSI, AO, BO, MSO} : \E x : m = <<t, 1, x>>
    BY <2>3 DEF Device, AI, BI, MSI, AO, BO, MSO, NP
  <2>4. CASE \E i \in {1, 2} : \E x : m = <<NP, i, x>>
    BY <2>4 DEF Device, NP
  <2> QED
    BY <2>1, <2>2, <2>3, <2>4
<1> QED
  BY <1>2, <1>3

\* The datatypes whose callbacks answer for a whole property p of an object of type t.
Answers(t, p, d) ==
  \/ /\ d = "Real"
     /\ \/ t = AI /\ p = "Present_Value"
        \/ t = AO /\ p = "Relinquish_Default"
  \/ /\ d = "Enumerated"
     /\ \/ t = BI /\ p = "Present_Value"
        \/ t \in {BI, BO} /\ p = "Polarity"
        \/ t = BO /\ p = "Relinquish_Default"
        \/ t \in {AI, AO} /\ p = "Units"
        \/ t = NP /\ p = "BACnet_IP_Mode"
  \/ /\ d = "Unsigned"
     /\ \/ t = MSI /\ p = "Present_Value"
        \/ t \in {MSI, MSO} /\ p = "Number_Of_States"
        \/ t = Device /\ p = "Vendor_Identifier"
        \/ /\ t = NP
           /\ p \in {"APDU_Length", "Reference_Port", "BACnet_IP_UDP_Port"}
        \/ t = MSO /\ p = "Relinquish_Default"
  \/ d = "Boolean" /\ t # Device /\ p = "Out_Of_Service"
  \/ /\ d = "CharacterString"
     /\ p = "Object_Name" \/ (t = Device /\ p \in DeviceTexts)
  \/ /\ d = "OctetString" /\ t = NP
     /\ p \in {"IP_Address", "IP_Subnet_Mask", "IP_Default_Gateway"}

\* They do so for every object of that type, whatever its instance.
LEMMA AnsweredWhen ==
  ASSUME NEW o \in Objects, NEW p, p # "Priority_Array", NEW d
  PROVE  d \in AnsweredAs(Query(o[1], o[2], p, NoIndex)) <=> Answers(o[1], p, d)
<1> DEFINE q == Query(o[1], o[2], p, NoIndex)
<1>1. q.ours /\ q.type = o[1] /\ q.inst = o[2] /\ q.prop = p /\ q.index = NoIndex
  BY DEF Query
<1> HIDE DEF q
<1>2. /\ o[1] \in {Device, AI, BI, MSI, AO, BO, MSO, NP}
      /\ o[1] = Device => o[2] = DeviceId
      /\ o[1] = NP => o[2] \in {1, 2}
      /\ o[1] \notin {Device, NP} => o[2] = 1
  BY ObjectsAre
<1>3. /\ GetCommandable(q.type, q.inst) = AO <=> o[1] = AO
      /\ GetCommandable(q.type, q.inst) = BO <=> o[1] = BO
      /\ GetCommandable(q.type, q.inst) = MSO <=> o[1] = MSO
  BY <1>1, <1>2
     DEF GetCommandable, Outputs, NoOutput, Device, AI, BI, MSI, AO, BO, MSO, NP
<1>4. GetPropertyReal(q) # {} <=>
        \/ o[1] = AI /\ p = "Present_Value"
        \/ o[1] = AO /\ p = "Relinquish_Default"
  BY <1>1, <1>2, <1>3, NumbersServed DEF Names, Device, NP, AI
<1>5. GetPropertyEnumerated(q) # {} <=>
        \/ o[1] = BI /\ p = "Present_Value"
        \/ o[1] \in {BI, BO} /\ p = "Polarity"
        \/ o[1] = BO /\ p = "Relinquish_Default"
        \/ o[1] \in {AI, AO} /\ p = "Units"
        \/ o[1] = NP /\ p = "BACnet_IP_Mode"
  BY <1>1, <1>2, <1>3, NumbersServed
     DEF Names, ServesUnits, Device, NP, AI, AO, BI, BO
<1>6. GetPropertyUnsignedInteger(q) # {} <=>
        \/ o[1] = MSI /\ p = "Present_Value"
        \/ o[1] \in {MSI, MSO} /\ p = "Number_Of_States"
        \/ o[1] = Device /\ p = "Vendor_Identifier"
        \/ o[1] = NP /\ p \in {"APDU_Length", "Reference_Port", "BACnet_IP_UDP_Port"}
        \/ o[1] = MSO /\ p = "Relinquish_Default"
  BY <1>1, <1>2, <1>3, UnsignedServed DEF Names, Device, NP, MSI, MSO, NoIndex
<1>7. \E m \in ObjectNames : m[1] = o[1] /\ m[2] = o[2]
  BY ObjectsAre
<1>8. GetPropertyBool(q) # {} <=> o[1] # Device /\ p = "Out_Of_Service"
  BY <1>1, OthersServed
<1>9. GetPropertyCharString(q) # {} <=>
        p = "Object_Name" \/ (o[1] = Device /\ p \in DeviceTexts)
  BY <1>1, <1>2, <1>7, OthersServed DEF Names
<1>10. GetPropertyOctetString(q, 4) # {} <=>
         /\ o[1] = NP
         /\ p \in {"IP_Address", "IP_Subnet_Mask", "IP_Default_Gateway"}
  BY <1>1, <1>2, OthersServed
<1> QED
  BY <1>4, <1>5, <1>6, <1>8, <1>9, <1>10, AnsweredMember, Zenon DEF q, Answers

\* What the callbacks answer for an element of State_Text.
LEMMA StateTextAnswered ==
  ASSUME NEW x \in 1 .. InputStates, NEW d
  PROVE  d \in AnsweredAs(Query(MSI, 1, "State_Text", x)) <=> d = "CharacterString"
<1> DEFINE q == Query(MSI, 1, "State_Text", x)
<1>1. q.ours /\ q.type = MSI /\ q.inst = 1 /\ q.prop = "State_Text" /\ q.index = x
  BY DEF Query
<1> HIDE DEF q
<1>2. x \in Nat /\ x >= 1 /\ x <= InputStates
  BY ServerAssumption
<1>3. /\ GetCommandable(q.type, q.inst) # AO
      /\ GetCommandable(q.type, q.inst) # BO
      /\ GetCommandable(q.type, q.inst) # MSO
  BY <1>1 DEF GetCommandable, NoOutput, Outputs, AO, BO, MSO, MSI
<1>4. GetPropertyReal(q) = {} /\ GetPropertyEnumerated(q) = {}
  BY <1>1, <1>3, NumbersServed DEF Names, ServesUnits, MSI, NP
<1>5. GetPropertyUnsignedInteger(q) = {}
  BY <1>1, <1>2, <1>3, UnsignedServed DEF Names
<1>6. GetPropertyBool(q) = {}
  BY <1>1 DEF GetPropertyBool, Serve, NamesSlot
<1>7. GetPropertyCharString(q) # {}
  <2>1. Names(q, MSI, 1, "State_Text") /\ HasStateText(q.index)
    BY <1>1, <1>2 DEF Names, HasStateText
  <2>2. StateText[q.index] \in Texts(q)
    BY <2>1 DEF Texts
  <2> QED
    BY <1>1, <2>2 DEF GetPropertyCharString
<1>8. GetPropertyOctetString(q, 4) = {}
  BY <1>1 DEF GetPropertyOctetString, Serve, MSI, NP
<1> QED
  BY <1>4, <1>5, <1>6, <1>7, <1>8, AnsweredMember, Zenon DEF q

\* The three Network Port rows no callback answers.
LEMMA NoneAnswers ==
  ASSUME NEW i \in {1, 2}, NEW p \in LeftToTheStack
  PROVE  AnsweredAs(Query(NP, i, p, NoIndex)) = {}
<1> DEFINE o == <<NP, i>>
<1>1. o \in Objects
  BY DEF Objects, ObjectNames
<1>2. o[1] = NP /\ o[2] = i
  OBVIOUS
<1>3. NP \notin {AI, AO, BI, BO, MSI, MSO, Device}
  BY DEF AI, AO, BI, BO, MSI, MSO, NP, Device
<1>4. /\ p \notin {"Priority_Array", "Object_Name", "Out_Of_Service", "BACnet_IP_Mode",
                   "APDU_Length", "Reference_Port", "BACnet_IP_UDP_Port",
                   "IP_Address", "IP_Subnet_Mask", "IP_Default_Gateway"}
  BY DEF LeftToTheStack
<1> HIDE DEF o
<1>5. \A d : d \notin AnsweredAs(Query(o[1], o[2], p, NoIndex))
  BY <1>1, <1>2, <1>3, <1>4, AnsweredWhen DEF Answers
<1> QED
  BY <1>2, <1>5

\* Of every documented row but State_Text, exactly the documented datatype.
LEMMA RowAnswers ==
  ASSUME NEW row \in ServedRows, row[2] # "State_Text", NEW d
  PROVE  Answers(row[1], row[2], d) <=> d = row[3]
<1>1. CASE \E t : row = <<t, "Object_Name", "CharacterString">>
  BY <1>1 DEF Answers, DeviceTexts
<1>2. CASE \E t \in DeviceTexts : row = <<Device, t, "CharacterString">>
  <2>1. PICK t \in DeviceTexts : row = <<Device, t, "CharacterString">>
    BY <1>2
  <2>2. /\ row[1] = Device /\ row[2] = t /\ row[3] = "CharacterString"
        /\ t \notin {"Object_Name", "Out_Of_Service", "Vendor_Identifier"}
    BY <2>1 DEF DeviceTexts
  <2>3. Device \notin {AI, AO, BI, BO, MSI, MSO, NP}
    BY DEF Device, AI, AO, BI, BO, MSI, MSO, NP
  <2> QED
    BY <2>2, <2>3, Zenon DEF Answers
<1>3. CASE \E t \in {AI, BI, MSI, AO, BO, MSO, NP} : row = <<t, "Out_Of_Service", "Boolean">>
  BY <1>3 DEF Answers, DeviceTexts, Device, AI, AO, BI, BO, MSI, MSO, NP
<1>4. CASE \/ row = <<Device, "Vendor_Identifier", "Unsigned">>
           \/ row = <<MSI, "Present_Value", "Unsigned">>
           \/ row = <<MSI, "Number_Of_States", "Unsigned">>
           \/ row = <<MSO, "Number_Of_States", "Unsigned">>
           \/ row = <<MSO, "Relinquish_Default", "Unsigned">>
  BY <1>4 DEF Answers, DeviceTexts, Device, AI, AO, BI, BO, MSI, MSO, NP
<1>5. CASE \/ row = <<AI, "Present_Value", "Real">>
           \/ row = <<AO, "Relinquish_Default", "Real">>
  BY <1>5 DEF Answers, DeviceTexts, Device, AI, AO, BI, BO, MSI, MSO, NP
<1>6. CASE \/ row = <<BI, "Present_Value", "Enumerated">>
           \/ row = <<AI, "Units", "Enumerated">>
           \/ row = <<AO, "Units", "Enumerated">>
           \/ row = <<BI, "Polarity", "Enumerated">>
           \/ row = <<BO, "Polarity", "Enumerated">>
           \/ row = <<BO, "Relinquish_Default", "Enumerated">>
  BY <1>6 DEF Answers, DeviceTexts, Device, AI, AO, BI, BO, MSI, MSO, NP
<1> QED
  BY <1>1, <1>2, <1>3, <1>4, <1>5, <1>6 DEF ServedRows

\* Every property that docs/PICS.md gives to the application is served, by the
\* callback of its datatype alone, but for three of the Network Ports, which the
\* application leaves to the stack altogether.
THEOREM AllButThreeRowsServed == Spec => []RowsServed
<1>1. ASSUME NEW row \in ServedRows, row[2] # "State_Text",
             NEW o \in Objects, o[1] = row[1]
      PROVE  AnsweredAs(Query(o[1], o[2], row[2], NoIndex)) = {row[3]}
  <2>1. row[2] # "Priority_Array"
    BY DEF ServedRows, DeviceTexts
  <2>2. \A d : d \in AnsweredAs(Query(o[1], o[2], row[2], NoIndex)) <=> d = row[3]
    BY <1>1, <2>1, AnsweredWhen, RowAnswers, Zenon
  <2> QED
    BY <2>2
<1>2. ASSUME NEW row \in ServedRows, row[2] = "State_Text",
             NEW o \in Objects, o[1] = row[1], NEW x \in 1 .. InputStates
      PROVE  AnsweredAs(Query(o[1], o[2], row[2], x)) = {row[3]}
  <2>1. row[1] = MSI /\ row[3] = "CharacterString"
    BY <1>2 DEF ServedRows, DeviceTexts
  <2>2. o[1] = MSI /\ o[2] = 1
    BY <1>2, <2>1, ObjectsAre DEF MSI, NP, Device
  <2>3. \A d : d \in AnsweredAs(Query(MSI, 1, "State_Text", x)) <=> d = "CharacterString"
    BY StateTextAnswered
  <2> QED
    BY <1>2, <2>1, <2>2, <2>3
<1>3. ASSUME NEW row \in ServedRows PROVE RowServed(row)
  BY <1>1, <1>2 DEF RowServed, Indices
<1>4. RowsServed
  BY <1>3, NoneAnswers DEF RowsServed
<1> QED
  BY <1>4, PTL

=============================================================================
