---------------------------- MODULE NameLookup ----------------------------
(***************************************************************************)
(* How common/CASExampleHelper.cpp turns a number of a frame into a name:  *)
(* LookUpIdName's binary search in a table of (id, name) rows, and the     *)
(* direct index, behind a bound check, in a table of names only.  Rows are *)
(* numbered from 0, as in the code.  The search is split at each turn of   *)
(* its loop, so that the row it reads and the range it has left can be     *)
(* spoken about.                                                           *)
(***************************************************************************)
EXTENDS Integers, Sequences

CONSTANTS
  Searched,   \* table -> the ids of its rows, in the order of the table
  Indexed,    \* table -> how many names it has
  Ids         \* table -> the numbers that are looked up in it

ASSUME LookupAssumption ==
  /\ \A t \in DOMAIN Searched : Searched[t] \in Seq(Nat)
  /\ \A t \in DOMAIN Indexed : Indexed[t] \in Nat
  /\ DOMAIN Searched \cap DOMAIN Indexed = {}
  /\ Ids \in [DOMAIN Searched \cup DOMAIN Indexed -> SUBSET Nat]

VARIABLES
  pc,       \* "search", "index" or "returned"
  table,    \* the table of the call
  id,       \* the number asked for
  lo, hi,   \* the rows left to the search are lo .. hi - 1
  read,     \* rows read so far
  result    \* the row of the name returned, or NULL

vars == <<pc, table, id, lo, hi, read, result>>

NULL == -1

Id(t, row) == Searched[t][row + 1]
Count(t) == IF t \in DOMAIN Searched THEN Len(Searched[t]) ELSE Indexed[t]

Init ==
  /\ table \in DOMAIN Searched \cup DOMAIN Indexed
  /\ pc = IF table \in DOMAIN Searched THEN "search" ELSE "index"
  /\ id \in Ids[table]
  /\ lo = 0
  /\ hi = Count(table)
  /\ read = {}
  /\ result = NULL

Return(row) ==
  /\ pc' = "returned"
  /\ result' = row
  /\ UNCHANGED <<table, id, lo, hi>>

\* Mutants: the row just read stays in the range; the last row of the range is
\* kept in hi, not the one after it.
AboveKept(mid) == lo' = mid /\ UNCHANGED hi
BelowClosed(mid) == hi' = mid - 1 /\ UNCHANGED lo

Left == lo < hi
Middle == lo + (hi - lo) \div 2
Above(mid) == lo' = mid + 1 /\ UNCHANGED hi
Below(mid) == hi' = mid /\ UNCHANGED lo

\* One turn of the loop of LookUpIdName.
Turn ==
  /\ pc = "search"
  /\ Left
  /\ read' = read \cup {Middle}
  /\ \/ Id(table, Middle) = id /\ Return(Middle)
     \/ /\ Id(table, Middle) # id
        /\ IF Id(table, Middle) < id THEN Above(Middle) ELSE Below(Middle)
        /\ UNCHANGED <<pc, table, id, result>>

NotListed ==
  /\ pc = "search"
  /\ ~Left
  /\ Return(NULL)
  /\ UNCHANGED read

\* Mutant: the bound check lets the row after the last one through.
InTableOff == id <= Indexed[table]

InTable == id < Indexed[table]

\* ConfirmedServiceName and the other tables indexed by the number itself.
Index ==
  /\ pc = "index"
  /\ IF InTable
     THEN Return(id) /\ read' = read \cup {id}
     ELSE Return(NULL) /\ UNCHANGED read

Look == Turn \/ NotListed \/ Index

\* A lookup that has returned is over.
Returned == pc = "returned" /\ UNCHANGED vars

Next == Look \/ Returned

Spec == Init /\ [][Next]_vars

\* The loop runs on; it has no other way out than those above.
FairSpec == Spec /\ WF_vars(Look)

---------------------------------------------------------------------------
(* Properties. *)

TypeOK ==
  /\ table \in DOMAIN Searched \cup DOMAIN Indexed
  /\ pc \in {"search", "index", "returned"}
  /\ pc = "search" => table \in DOMAIN Searched
  /\ pc = "index" => table \in DOMAIN Indexed
  /\ id \in Ids[table]
  /\ lo \in 0 .. Count(table)
  /\ hi \in lo .. Count(table)
  /\ read \subseteq Nat
  /\ result \in 0 .. Count(table) - 1 \cup {NULL}

Listed(t, n) ==
  IF t \in DOMAIN Searched THEN \E row \in 0 .. Count(t) - 1 : Id(t, row) = n
  ELSE n \in 0 .. Count(t) - 1

\* What the search has excluded in a sorted table: the rows before lo have
\* smaller ids, those from hi on larger ones.
Sorted(t) == \A r, s \in 0 .. Count(t) - 1 : r < s => Id(t, r) < Id(t, s)

ExcludesOnlyOthers ==
  table \in DOMAIN Searched =>
    \A row \in 0 .. Count(table) - 1 :
      /\ row < lo => Id(table, row) < id
      /\ row >= hi => id < Id(table, row)

\* A number gets a name exactly when its table has one, and it is the name of
\* its own row.  It is true of a search only in a table sorted by id, which
\* nothing but the comment on the tables asks for ("a hand-edit that breaks the
\* ordering breaks every lookup after it silently (no runtime check)").
NamesExactlyTheListed ==
  pc = "returned" =>
    /\ (result # NULL) <=> Listed(table, id)
    /\ result # NULL =>
         IF table \in DOMAIN Searched THEN Id(table, result) = id
         ELSE result = id

\* No lookup reads a row its table does not have, whatever the number and in
\* whatever order the rows are.
ReadsOnlyTheTable == read \subseteq 0 .. Count(table) - 1

\* Every lookup returns, whatever the number and in whatever order the rows
\* are: a decoder that looped on an unknown property would stop the device.
Returns == <>(pc = "returned")

=============================================================================
