----------------------- MODULE DeferredRestart_proofs ----------------------
(***************************************************************************)
(* Proofs about DeferredRestart, for every set of delays longer than a     *)
(* Tick, every sleep and every bound on the clock.                         *)
(*                                                                         *)
(* PendingInv is what makes the three variables of the code stand for the  *)
(* set of requests; AckInv is what orders the acknowledgement before the   *)
(* deadline.  Both need TypeOK, and nothing else.                          *)
(***************************************************************************)
EXTENDS DeferredRestart, TLAPS

\* The clock never runs backwards and stays inside its bound.
LEMMA ElapseForward ==
  ASSUME NEW least \in Nat, NEW most \in Nat, now \in 0 .. MaxTime,
         Elapse(least, most)
  PROVE  /\ now' \in 0 .. MaxTime
         /\ now <= now'
         /\ now' <= now + most
BY RestartAssumption, SMT DEF Elapse

\* Acknowledging requests changes neither their deadlines nor their kinds.
LEMMA AckedAlike ==
  ASSUME asked \subseteq Requests,
         asked' = {[r EXCEPT !.acked = TRUE] : r \in asked}
  PROVE  /\ asked' \subseteq Requests
         /\ \A r \in asked' : r.acked
         /\ \A r \in asked' : \E q \in asked : q.due = r.due /\ q.kind = r.kind
         /\ \A q \in asked : \E r \in asked' : q.due = r.due /\ q.kind = r.kind
         /\ asked # {} <=> asked' # {}
<1> DEFINE A(r) == [r EXCEPT !.acked = TRUE]
<1>1. \A r \in asked : /\ A(r) \in Requests
                       /\ A(r).acked
                       /\ A(r).due = r.due
                       /\ A(r).kind = r.kind
  BY DEF Requests
<1>2. asked' = {A(r) : r \in asked}
  OBVIOUS
<1> HIDE DEF A
<1> QED
  BY <1>1, <1>2

\* The inductive invariant holds at the start and every step keeps it.
LEMMA Inductive ==
  /\ Init => IInv
  /\ IInv /\ [Next]_vars => IInv'
<1>1. ASSUME Init PROVE IInv
  <2>1. TypeOK
    <3>1. now \in 0 .. MaxTime /\ dueAt \in 0 .. MaxTime
      BY <1>1, RestartAssumption DEF Init
    <3>2. pending \in BOOLEAN /\ asked \subseteq Requests
      BY <1>1 DEF Init
    <3>3. /\ kind \in Kinds
          /\ loop \in {"tick", "stack", "due"}
          /\ answer \in Kinds \cup {"None"}
      BY <1>1 DEF Init, Kinds
    <3> QED
      BY <3>1, <3>2, <3>3 DEF TypeOK
  <2>2. PendingInv
    BY <1>1 DEF Init, PendingInv
  <2>3. AckInv
    BY <1>1 DEF Init, AckInv
  <2> QED
    BY <2>1, <2>2, <2>3 DEF IInv
<1>2. ASSUME IInv, [Next]_vars
      PROVE  IInv'
  <2> USE <1>2
  <2> USE DEF IInv, Kinds
  <2>1. CASE TickSends
    <3>1. /\ asked' \subseteq Requests
          /\ \A r \in asked' : r.acked
          /\ \A r \in asked' : \E q \in asked : q.due = r.due /\ q.kind = r.kind
          /\ \A q \in asked : \E r \in asked' : q.due = r.due /\ q.kind = r.kind
          /\ asked # {} <=> asked' # {}
      BY <2>1, AckedAlike DEF TickSends, TypeOK
    <3>2. UNCHANGED <<now, pending, dueAt, kind, answer>> /\ loop' = "stack"
      BY <2>1 DEF TickSends
    <3>3. TypeOK'
      BY <3>1, <3>2 DEF TypeOK
    <3>4. PendingInv'
      BY <3>1, <3>2 DEF PendingInv
    <3>5. AckInv'
      BY <3>1, <3>2 DEF AckInv
    <3> QED
      BY <3>3, <3>4, <3>5
  <2>2. ASSUME NEW k \in Kinds, NEW delay \in Delays,
               ReinitializeDevice(k, delay)
        PROVE  IInv'
    <3> DEFINE new == [due |-> now + delay, kind |-> k, acked |-> FALSE]
    <3> USE <2>2
    <3>1. /\ new \in Requests
          /\ new.due = now + delay
          /\ new.kind = k
          /\ ~new.acked
      BY RestartAssumption DEF TypeOK, Requests
    <3>2. asked' = asked \cup {new}
      BY DEF ReinitializeDevice
    <3> HIDE DEF new
    <3>3. delay \in Nat /\ delay > TickTime /\ TickTime \in Nat /\ now \in Nat
      BY RestartAssumption DEF TypeOK
    <3>4. TypeOK'
      BY <3>1, <3>2, <3>3, RestartAssumption
         DEF ReinitializeDevice, RequestRestart, DueAt, Deadline, Upgraded, TypeOK
    <3>5. PendingInv'
      <4>1. pending' /\ asked' # {}
        BY <3>2 DEF ReinitializeDevice, RequestRestart
      <4>2. \E r \in asked' : r.due = dueAt'
        BY <3>1, <3>2 DEF ReinitializeDevice, RequestRestart, DueAt, Deadline, PendingInv
      <4>3. \A r \in asked' : dueAt' <= r.due
        <5> SUFFICES ASSUME NEW r \in asked' PROVE dueAt' <= r.due
          OBVIOUS
        <5>1. CASE ~pending
          BY <5>1, <3>1, <3>2, <3>3
             DEF ReinitializeDevice, RequestRestart, DueAt, Deadline, PendingInv
        <5>2. CASE pending /\ r \in asked
          <6>1. dueAt <= r.due /\ r.due \in Nat /\ dueAt \in Nat
            BY <5>2 DEF PendingInv, TypeOK, Requests
          <6> QED
            BY <6>1, <5>2, <3>3
               DEF ReinitializeDevice, RequestRestart, DueAt, Deadline
        <5>3. CASE pending /\ r = new
          BY <5>3, <3>1, <3>3
             DEF ReinitializeDevice, RequestRestart, DueAt, Deadline, TypeOK
        <5> QED
          BY <5>1, <5>2, <5>3, <3>2
      <4>4. kind' = "Cold" <=> \E r \in asked' : r.kind = "Cold"
        BY <3>1, <3>2 DEF ReinitializeDevice, RequestRestart, Upgraded, PendingInv
      <4> QED
        BY <4>1, <4>2, <4>3, <4>4 DEF PendingInv
    <3>6. AckInv'
      BY <3>1, <3>2, <3>3 DEF ReinitializeDevice, AckInv
    <3> QED
      BY <3>4, <3>5, <3>6
  <2>3. CASE TickReturns
    <3>1. now' \in 0 .. MaxTime /\ now' <= now + TickTime
      BY <2>3, ElapseForward, RestartAssumption DEF TickReturns, TypeOK
    <3>2. TypeOK' /\ PendingInv'
      BY <2>3, <3>1 DEF TickReturns, TypeOK, PendingInv
    <3>3. AckInv'
      <4> SUFFICES ASSUME NEW r \in asked, ~r.acked PROVE now' < r.due
        BY <2>3 DEF TickReturns, AckInv
      <4>1. now + TickTime < r.due
        BY <2>3 DEF TickReturns, AckInv
      <4>2. r.due \in Nat
        BY DEF TypeOK, Requests
      <4> QED
        BY <3>1, <4>1, <4>2, RestartAssumption DEF TypeOK
    <3> QED
      BY <3>2, <3>3
  <2>4. CASE RestartDue
    <3>1. now' \in 0 .. MaxTime
      BY <2>4, ElapseForward, RestartAssumption DEF RestartDue, TypeOK
    <3>2. CASE NotDue
      BY <2>4, <3>1, <3>2
         DEF RestartDue, NotDue, TypeOK, PendingInv, AckInv
    <3>3. CASE Fires
      BY <2>4, <3>1, <3>3
         DEF RestartDue, Fires, ClearPending, TypeOK, PendingInv, AckInv
    <3> QED
      BY <2>4, <3>2, <3>3 DEF RestartDue
  <2>5. CASE UNCHANGED vars
    BY <2>5 DEF vars, TypeOK, PendingInv, AckInv
  <2> QED
    BY <2>1, <2>2, <2>3, <2>4, <2>5 DEF Next, Loop
<1> QED
  BY <1>1, <1>2

\* In every reachable state the variables have their types and stand for the
\* requests they were set by.
THEOREM Invariance == Spec => []IInv
<1>1. Init => IInv
  BY Inductive
<1>2. IInv /\ [Next]_vars => IInv'
  BY Inductive
<1> QED
  BY <1>1, <1>2, PTL DEF Spec

THEOREM TypeCorrect == Spec => []TypeOK
<1>1. IInv => TypeOK
  BY DEF IInv
<1> QED
  BY <1>1, Invariance, PTL

\* A restart comes only when some request is due, and not before the
\* acknowledgement of one that is: PendingInv makes the deadline that of a
\* request, and AckInv keeps an unacknowledged request from being due when
\* RestartDue is called.
THEOREM NeverBeforeAcknowledgement == Spec => DueIsAcknowledged
<1>1. ASSUME IInv, loop = "due", NEW r \in asked, r.due <= now
      PROVE  r.acked
  <2>1. ~r.acked => now < r.due
    BY <1>1 DEF IInv, AckInv
  <2>2. now \in Nat /\ r.due \in Nat
    BY <1>1, RestartAssumption DEF IInv, TypeOK, Requests
  <2> QED
    BY <1>1, <2>1, <2>2
<1>2. ASSUME IInv, Next, loop = "due", answer' # "None"
      PROVE  \E r \in asked : r.due <= now
  <2>1. RestartDue
    BY <1>2 DEF Next, Loop, TickSends, TickReturns, ReinitializeDevice
  <2>2. Fires
    BY <1>2, <2>1 DEF RestartDue, NotDue
  <2>3. PICK r \in asked : r.due = dueAt
    BY <1>2, <2>2 DEF Fires, IInv, PendingInv
  <2> QED
    BY <2>2, <2>3 DEF Fires
<1>3. IInv /\ [Next]_vars =>
        [(loop = "due" /\ answer' # "None") =>
           LET due == {r \in asked : r.due <= now}
           IN  due # {} /\ \A r \in due : r.acked]_vars
  <2> SUFFICES ASSUME IInv, Next, loop = "due", answer' # "None"
               PROVE  LET due == {r \in asked : r.due <= now}
                      IN  due # {} /\ \A r \in due : r.acked
    OBVIOUS
  <2> QED
    BY <1>1, <1>2
<1> QED
  BY <1>3, Invariance, PTL DEF Spec, DueIsAcknowledged

---------------------------------------------------------------------------
(* The implementation of RestartPromise. *)

Promised == {[due |-> r.due, kind |-> r.kind] : r \in asked}

\* A request is due exactly when the one deadline the code keeps has come.
LEMMA DueMeansDeadline ==
  ASSUME IInv
  PROVE  /\ Promise!Due <=> pending /\ dueAt <= now
         /\ pending => Promise!Strongest(Promised) = kind
         /\ pending <=> Promised # {}
<1> USE DEF IInv
<1>1. now \in Nat /\ dueAt \in Nat /\ \A r \in asked : r.due \in Nat
  BY RestartAssumption DEF TypeOK, Requests
<1>2. \A q \in Promised : \E r \in asked : q.due = r.due /\ q.kind = r.kind
  BY DEF Promised
<1>3. \A r \in asked : \E q \in Promised : q.due = r.due /\ q.kind = r.kind
  <2> TAKE r \in asked
  <2> DEFINE q == [due |-> r.due, kind |-> r.kind]
  <2>1. q \in Promised /\ q.due = r.due /\ q.kind = r.kind
    BY DEF Promised
  <2> HIDE DEF q
  <2> QED
    BY <2>1
<1>4. pending <=> Promised # {}
  BY DEF Promised, PendingInv
<1>5. Promise!Due <=> \E q \in Promised : q.due <= now
  BY DEF Promise!Due, Promised
<1>6. Promise!Due <=> pending /\ dueAt <= now
  <2>1. ASSUME pending, dueAt <= now PROVE Promise!Due
    BY <2>1, <1>3, <1>5 DEF PendingInv
  <2>2. ASSUME Promise!Due PROVE pending /\ dueAt <= now
    <3>1. PICK q \in Promised : q.due <= now
      BY <2>2, <1>5
    <3>2. PICK r \in asked : q.due = r.due
      BY <1>2
    <3>3. pending /\ dueAt <= r.due
      BY DEF PendingInv
    <3> QED
      BY <1>1, <3>1, <3>2, <3>3
  <2> QED
    BY <2>1, <2>2
<1>7. ASSUME pending PROVE Promise!Strongest(Promised) = kind
  <2>1. kind = "Cold" <=> \E q \in Promised : q.kind = "Cold"
    BY <1>7, <1>2, <1>3 DEF PendingInv
  <2>2. kind \in {"Warm", "Cold"}
    BY DEF TypeOK, Kinds
  <2> QED
    BY <2>1, <2>2 DEF Promise!Strongest
<1> QED
  BY <1>4, <1>6, <1>7

\* The flag, the deadline and the kind implement the promise to every client.
THEOREM PromiseKept == Spec => KeepsPromise
<1>1. ASSUME Init PROVE Promise!Init
  <2>1. now = 0 /\ asked = {} /\ answer = "None"
    BY <1>1 DEF Init
  <2>2. {[due |-> r.due, kind |-> r.kind] : r \in asked} = {}
    BY <2>1
  <2> QED
    BY <1>1, <2>1, <2>2 DEF Init, Promise!Init
<1>2. ASSUME IInv, [Next]_vars
      PROVE  [Promise!Next]_(Promise!vars)
  <2> USE <1>2
  <2>0. now \in 0 .. MaxTime /\ now \in Nat
    BY RestartAssumption DEF IInv, TypeOK
  <2>1. CASE TickSends
    <3>1. Promised' = Promised
      <4> DEFINE A(r) == [r EXCEPT !.acked = TRUE]
      <4>1. \A r \in asked : A(r).due = r.due /\ A(r).kind = r.kind
        BY DEF IInv, TypeOK, Requests
      <4>2. asked' = {A(r) : r \in asked}
        BY <2>1 DEF TickSends
      <4> HIDE DEF A
      <4>3. Promised' = {[due |-> r.due, kind |-> r.kind] : r \in asked'}
        BY DEF Promised
      <4> QED
        BY <4>1, <4>2, <4>3 DEF Promised
    <3> QED
      BY <2>1, <3>1 DEF TickSends, Promised, Promise!vars
  <2>2. ASSUME NEW k \in Kinds, NEW delay \in Delays,
               ReinitializeDevice(k, delay)
        PROVE  Promise!Next
    <3> DEFINE new == [due |-> now + delay, kind |-> k, acked |-> FALSE]
    <3>1. asked' = asked \cup {new}
      BY <2>2 DEF ReinitializeDevice
    <3>2. [due |-> new.due, kind |-> new.kind]
            = [due |-> now + delay, kind |-> k]
      OBVIOUS
    <3> HIDE DEF new
    <3>3. Promised' = {[due |-> r.due, kind |-> r.kind] : r \in asked'}
      BY DEF Promised
    <3>4. Promised' = Promised \cup {[due |-> now + delay, kind |-> k]}
      BY <3>1, <3>2, <3>3 DEF Promised
    <3>5. Promise!Ask(k, delay)
      BY <2>2, <3>4 DEF ReinitializeDevice, Promise!Ask, Promised
    <3> QED
      BY <3>5 DEF Promise!Next, Kinds, Promise!Kinds
  <2>3. CASE TickReturns
    <3>1. now' \in Nat /\ now' >= now
      BY <2>3, <2>0, ElapseForward, RestartAssumption DEF TickReturns
    <3> QED
      BY <2>3, <3>1 DEF TickReturns, Promise!Next, Promise!Pass
  <2>4. CASE RestartDue
    <3>1. now' \in Nat /\ now' >= now
      BY <2>4, <2>0, ElapseForward, RestartAssumption DEF RestartDue
    <3>2. dueAt \in Nat
      BY RestartAssumption DEF IInv, TypeOK
    <3>3. loop = "due" /\ (loop = "due")' = FALSE
      BY <2>4 DEF RestartDue
    <3>4. CASE NotDue
      <4>1. ~Promise!Due
        BY <3>2, <3>4, <2>0, DueMeansDeadline DEF NotDue
      <4>2. Promise!Check
        BY <4>1, <3>1, <3>4, <3>3 DEF NotDue, Promise!Check
      <4> QED
        BY <4>2 DEF Promise!Next
    <3>5. CASE Fires
      <4>1. Promise!Due /\ Promise!Strongest(Promised) = kind
        BY <3>2, <3>5, <2>0, DueMeansDeadline DEF Fires
      <4>2. Promised' = {}
        BY <3>5 DEF Fires, Promised
      <4>3. Promise!Check
        BY <4>1, <4>2, <3>1, <3>5, <3>3 DEF Fires, Promise!Check, Promised
      <4> QED
        BY <4>3 DEF Promise!Next
    <3> QED
      BY <2>4, <3>4, <3>5 DEF RestartDue
  <2>5. CASE UNCHANGED vars
    BY <2>5 DEF vars, Promise!vars
  <2> QED
    BY <2>1, <2>2, <2>3, <2>4, <2>5 DEF Next, Loop
<1> QED
  BY <1>1, <1>2, Invariance, PTL DEF Spec, KeepsPromise, Promise!Spec

=============================================================================
