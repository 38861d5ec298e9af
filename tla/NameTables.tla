---------------------------- MODULE NameTables ----------------------------
(***************************************************************************)
(* The identifier tables of common/CASExampleHelper.cpp: the ids of        *)
(* OBJECT_TYPE_NAMES and PROPERTY_NAMES row by row, in the order of the    *)
(* file, which is all that a lookup depends on, and the number of names in *)
(* each table that is indexed by the wire value.  A name is the row it is  *)
(* in.                                                                     *)
(***************************************************************************)
EXTENDS Integers, Sequences

\* The rows of consecutive ids.
Rows(first, last) == [i \in 1 .. last - first + 1 |-> first + i - 1]

OBJECT_TYPE_NAMES == Rows(0, 64)

PropertyNames1 ==
  Rows(0, 17) \o Rows(19, 54) \o Rows(56, 94) \o Rows(96, 100)
    \o Rows(102, 128) \o Rows(130, 137)

\* Mutant: two rows added at the place where their names belong, not their ids.
PropertyNames2ByName ==
  Rows(139, 193) \o Rows(195, 197) \o Rows(218, 222) \o Rows(202, 215)
    \o Rows(226, 235) \o Rows(244, 283) \o Rows(285, 292) \o Rows(294, 298)

PropertyNames2 ==
  Rows(139, 193) \o Rows(195, 197) \o Rows(202, 215) \o Rows(218, 222)
    \o Rows(226, 235) \o Rows(244, 283) \o Rows(285, 292) \o Rows(294, 298)

PropertyNames3 ==
  Rows(300, 311) \o Rows(317, 323) \o Rows(326, 336) \o Rows(338, 437)

PropertyNames4 ==
  Rows(438, 465) \o Rows(467, 511) \o Rows(4194304, 4194349)

PROPERTY_NAMES ==
  PropertyNames1 \o PropertyNames2 \o PropertyNames3 \o PropertyNames4

\* The tables indexed by a service choice or a reason.
ConfirmedServiceNames   == 32
UnconfirmedServiceNames == 12
RejectReasonNames       == 10
AbortReasonNames        == 12

=============================================================================
