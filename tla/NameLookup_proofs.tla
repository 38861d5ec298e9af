------------------------- MODULE NameLookup_proofs -------------------------
(***************************************************************************)
(* Theorems of NameLookup, for every table, sorted or not as stated, and   *)
(* every number.                                                           *)
(***************************************************************************)
EXTENDS NameLookup, TLAPS

\* Every search makes progress: a turn that does not return leaves fewer rows.
Shrinks == [][Turn /\ pc' = "search" => hi' - lo' < hi - lo]_vars

\* The row in the middle is one of those left.
LEMMA MiddleIsLeft ==
  ASSUME NEW l \in Nat, NEW h \in Nat, l < h
  PROVE  /\ l + (h - l) \div 2 \in Nat
         /\ l <= l + (h - l) \div 2
         /\ l + (h - l) \div 2 < h
  <1>1. h - l \in Nat /\ h - l > 0
    OBVIOUS
  <1>2. \A d \in Nat : d > 0 => d \div 2 \in Nat /\ d \div 2 < d
    OBVIOUS
  <1> QED BY <1>1, <1>2

\* A row of a searched table has an id.
LEMMA CountIsNat ==
  ASSUME NEW t \in DOMAIN Searched \cup DOMAIN Indexed
  PROVE  Count(t) \in Nat
  BY LookupAssumption DEF Count

LEMMA RowHasId ==
  ASSUME NEW t \in DOMAIN Searched, NEW row \in 0 .. Count(t) - 1
  PROVE  Id(t, row) \in Nat
  <1>1. Searched[t] \in Seq(Nat) /\ Count(t) = Len(Searched[t])
    BY LookupAssumption DEF Count
  <1> QED BY <1>1 DEF Id

IInv == TypeOK /\ ReadsOnlyTheTable

LEMMA InitInv == Init => IInv
  <1> SUFFICES ASSUME Init PROVE IInv
    OBVIOUS
  <1>1. Count(table) \in Nat
    BY CountIsNat DEF Init
  <1> QED BY <1>1 DEF Init, IInv, TypeOK, ReadsOnlyTheTable, NULL

\* What a turn of the loop reads, stated once.
LEMMA TurnReads ==
  ASSUME TypeOK, Turn
  PROVE  /\ table \in DOMAIN Searched
         /\ lo \in Nat /\ hi \in Nat /\ lo < hi
         /\ Middle \in lo .. hi - 1
         /\ Middle \in 0 .. Count(table) - 1
         /\ Id(table, Middle) \in Nat
         /\ id \in Nat
  <1>1. /\ table \in DOMAIN Searched
        /\ Count(table) \in Nat
        /\ lo \in 0 .. Count(table) /\ hi \in lo .. Count(table) /\ lo < hi
    BY CountIsNat DEF TypeOK, Turn, Left
  <1>2. Middle \in lo .. hi - 1
    BY <1>1, MiddleIsLeft DEF Middle
  <1>3. Middle \in 0 .. Count(table) - 1
    BY <1>1, <1>2
  <1>4. id \in Nat
    <2>1. Ids[table] \in SUBSET Nat
      BY <1>1, LookupAssumption
    <2> QED BY <2>1 DEF TypeOK
  <1> QED BY <1>1, <1>2, <1>3, <1>4, RowHasId

LEMMA StepInv == IInv /\ [Next]_vars => IInv'
  <1> SUFFICES ASSUME IInv, [Next]_vars PROVE IInv'
    OBVIOUS
  <1> USE DEF IInv
  <1>1. CASE Turn
    <2> DEFINE m == Middle
    <2>1. /\ m \in lo .. hi - 1 /\ m \in 0 .. Count(table) - 1
          /\ lo \in Nat /\ hi \in Nat
      BY <1>1, TurnReads
    <2>2. table' = table /\ id' = id /\ read' = read \cup {m}
      BY <1>1 DEF Turn, Return
    <2>3. ReadsOnlyTheTable'
      BY <2>1, <2>2 DEF ReadsOnlyTheTable, Count
    <2>4. CASE Return(m)
      <3>1. TypeOK'
        BY <1>1, <2>1, <2>2, <2>4 DEF TypeOK, Return, Turn, Count
      <3> QED BY <2>3, <3>1
    <2>5. CASE UNCHANGED <<pc, table, id, result>> /\ (Above(m) \/ Below(m))
      <3>1. lo' \in 0 .. Count(table) /\ hi' \in lo' .. Count(table)
        <4>1. hi <= Count(table) /\ Count(table) \in Nat
          BY CountIsNat DEF TypeOK
        <4> QED BY <4>1, <2>1, <2>5 DEF Above, Below
      <3>2. read' \subseteq Nat
        BY <2>1, <2>2 DEF TypeOK
      <3> QED BY <2>2, <2>3, <2>5, <3>1, <3>2 DEF TypeOK, Count
    <2> QED BY <1>1, <2>4, <2>5 DEF Turn
  <1>2. CASE NotListed
    BY <1>2 DEF NotListed, Return, TypeOK, ReadsOnlyTheTable, Count
  <1>3. CASE Index
    <2>1. table \in DOMAIN Indexed /\ table \notin DOMAIN Searched
      BY <1>3, LookupAssumption DEF Index, TypeOK
    <2>2. Count(table) = Indexed[table] /\ Count(table) \in Nat
      BY <2>1, CountIsNat DEF Count
    <2>3. id \in Nat
      BY <2>1, LookupAssumption DEF TypeOK
    <2>4. InTable => id \in 0 .. Count(table) - 1
      BY <2>2, <2>3 DEF InTable
    <2> QED BY <1>3, <2>1, <2>2, <2>3, <2>4
            DEF Index, Return, TypeOK, ReadsOnlyTheTable, Count
  <1>4. CASE Returned \/ UNCHANGED vars
    BY <1>4 DEF Returned, vars, TypeOK, ReadsOnlyTheTable, Count
  <1> QED BY <1>1, <1>2, <1>3, <1>4 DEF Next, Look

LEMMA Invariance == Spec => []IInv
  BY InitInv, StepInv, PTL DEF Spec

\* The variables keep their types: in particular the range of a search stays
\* within its table (lo + (hi - lo) / 2 never leaves it).
THEOREM TypeCorrect == Spec => []TypeOK
  BY Invariance, PTL DEF IInv

\* No lookup reads outside its table, in whatever order the rows are.
THEOREM NeverOutside == Spec => []ReadsOnlyTheTable
  BY Invariance, PTL DEF IInv

\* Each turn of LookUpIdName's loop that does not return leaves fewer rows, so
\* there are at most as many turns as rows, in whatever order they are.
THEOREM SearchShrinks == Spec => Shrinks
  <1>1. IInv /\ [Next]_vars => [Turn /\ pc' = "search" => hi' - lo' < hi - lo]_vars
    <2> SUFFICES ASSUME IInv, Turn, pc' = "search" PROVE hi' - lo' < hi - lo
      OBVIOUS
    <2>1. Middle \in lo .. hi - 1 /\ lo \in Nat /\ hi \in Nat
      BY TurnReads DEF IInv
    <2>2. Above(Middle) \/ Below(Middle)
      BY DEF Turn, Return
    <2> QED BY <2>1, <2>2 DEF Above, Below
  <1> QED BY <1>1, Invariance, PTL DEF Spec, Shrinks

---------------------------------------------------------------------------
(* Sorted tables. *)

AllSorted == \A t \in DOMAIN Searched : Sorted(t)

SortedInv == IInv /\ ExcludesOnlyOthers /\ NamesExactlyTheListed

LEMMA SortedInit == Init => SortedInv
  <1> SUFFICES ASSUME Init PROVE SortedInv
    OBVIOUS
  <1>1. IInv
    BY InitInv
  <1>2. ExcludesOnlyOthers
    BY CountIsNat DEF Init, ExcludesOnlyOthers
  <1>3. NamesExactlyTheListed
    BY DEF Init, NamesExactlyTheListed
  <1> QED BY <1>1, <1>2, <1>3 DEF SortedInv

\* In a sorted table a turn excludes no row of the id asked for.
LEMMA TurnExcludes ==
  ASSUME AllSorted, IInv, ExcludesOnlyOthers, Turn
  PROVE  ExcludesOnlyOthers'
  <1> DEFINE m == Middle
  <1>1. /\ table \in DOMAIN Searched /\ id \in Nat
        /\ m \in lo .. hi - 1 /\ m \in 0 .. Count(table) - 1
        /\ lo \in Nat /\ hi \in Nat /\ Id(table, m) \in Nat
    BY TurnReads DEF IInv
  <1>2. table' = table /\ id' = id
    BY DEF Turn, Return
  <1> SUFFICES ASSUME NEW row \in 0 .. Count(table) - 1
               PROVE  /\ row < lo' => Id(table, row) < id
                      /\ row >= hi' => id < Id(table, row)
    BY <1>1, <1>2 DEF ExcludesOnlyOthers, Count, Id
  <1>3. /\ row < lo => Id(table, row) < id
        /\ row >= hi => id < Id(table, row)
    BY <1>1 DEF ExcludesOnlyOthers
  <1>4. /\ row < m => Id(table, row) < Id(table, m)
        /\ m < row => Id(table, m) < Id(table, row)
    BY <1>1 DEF AllSorted, Sorted
  <1>5. Id(table, row) \in Nat /\ row \in Int
    BY <1>1, RowHasId
  <1>6. CASE UNCHANGED <<lo, hi>>
    BY <1>3, <1>6
  <1>7. CASE Id(table, m) < id /\ Above(m)
    BY <1>1, <1>3, <1>4, <1>5, <1>7 DEF Above
  <1>8. CASE id < Id(table, m) /\ Below(m)
    BY <1>1, <1>3, <1>4, <1>5, <1>8 DEF Below
  <1> QED BY <1>1, <1>6, <1>7, <1>8 DEF Turn, Return

LEMMA SortedStep ==
  ASSUME AllSorted
  PROVE  SortedInv /\ [Next]_vars => SortedInv'
  <1> SUFFICES ASSUME SortedInv, [Next]_vars PROVE SortedInv'
    OBVIOUS
  <1> USE DEF SortedInv
  <1>1. IInv'
    BY StepInv
  <1>2. CASE Turn
    <2>1. ExcludesOnlyOthers'
      BY <1>2, TurnExcludes
    <2>2. NamesExactlyTheListed'
      <3>1. CASE Return(Middle) /\ Id(table, Middle) = id
        <4>1. table \in DOMAIN Searched /\ Middle \in 0 .. Count(table) - 1
          BY <1>2, TurnReads DEF IInv
        <4>2. Middle # NULL
          BY <4>1, CountIsNat DEF NULL
        <4> QED BY <3>1, <4>1, <4>2
                DEF Return, NamesExactlyTheListed, Listed, Count, Id
      <3>2. CASE pc' = pc
        BY <1>2, <3>2 DEF Turn, NamesExactlyTheListed
      <3> QED BY <1>2, <3>1, <3>2 DEF Turn
    <2> QED BY <1>1, <2>1, <2>2
  <1>3. CASE NotListed
    <2>1. /\ table \in DOMAIN Searched /\ lo \in Nat /\ hi \in Nat /\ lo >= hi
      BY <1>3, CountIsNat DEF NotListed, Left, IInv, TypeOK
    <2>2. ~Listed(table, id)
      <3> SUFFICES ASSUME NEW row \in 0 .. Count(table) - 1, Id(table, row) = id
                   PROVE  FALSE
        BY <2>1 DEF Listed
      <3>1. row < lo \/ row >= hi
        BY <2>1, CountIsNat
      <3>2. Id(table, row) < id \/ id < Id(table, row)
        BY <2>1, <3>1 DEF ExcludesOnlyOthers
      <3>3. Id(table, row) \in Nat
        BY <2>1, RowHasId
      <3> QED BY <3>2, <3>3
    <2>3. NamesExactlyTheListed'
      BY <1>3, <2>2 DEF NotListed, Return, NamesExactlyTheListed, Listed, Count, Id
    <2>4. ExcludesOnlyOthers'
      BY <1>3 DEF NotListed, Return, ExcludesOnlyOthers, Count, Id
    <2> QED BY <1>1, <2>3, <2>4
  <1>4. CASE Index
    <2>1. table \in DOMAIN Indexed /\ table \notin DOMAIN Searched
      BY <1>4, LookupAssumption DEF Index, IInv, TypeOK
    <2>2. id \in Nat /\ Count(table) = Indexed[table] /\ Indexed[table] \in Nat
      BY <2>1, LookupAssumption DEF IInv, TypeOK, Count
    <2>3. InTable <=> Listed(table, id)
      BY <2>1, <2>2 DEF InTable, Listed
    <2>4. id # NULL
      BY <2>2 DEF NULL
    <2>5. table' = table /\ id' = id /\ result' = IF InTable THEN id ELSE NULL
      BY <1>4 DEF Index, Return
    <2>6. NamesExactlyTheListed'
      BY <2>1, <2>3, <2>4, <2>5 DEF NamesExactlyTheListed, Listed, Count, Id
    <2>7. ExcludesOnlyOthers'
      BY <2>1, <2>5 DEF ExcludesOnlyOthers
    <2> QED BY <1>1, <2>6, <2>7
  <1>5. CASE Returned \/ UNCHANGED vars
    BY <1>1, <1>5 DEF Returned, vars, NamesExactlyTheListed, ExcludesOnlyOthers,
                      Listed, Count, Id
  <1> QED BY <1>2, <1>3, <1>4, <1>5 DEF Next, Look

\* In sorted tables the search never passes over the row of the id asked for.
THEOREM SearchIsSound ==
  ASSUME AllSorted
  PROVE  Spec => []ExcludesOnlyOthers
  BY SortedInit, SortedStep, PTL DEF Spec, SortedInv

\* In sorted tables, and in all indexed ones, a number gets a name exactly when
\* it is listed, and its own.
THEOREM NamesAreRight ==
  ASSUME AllSorted
  PROVE  Spec => []NamesExactlyTheListed
  BY SortedInit, SortedStep, PTL DEF Spec, SortedInv

=============================================================================
