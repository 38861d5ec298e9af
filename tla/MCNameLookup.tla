--------------------------- MODULE MCNameLookup ---------------------------
(* NameLookup on the tables of the program, at their full size. *)
EXTENDS NameLookup, NameTables

MCSearched == [objectType |-> OBJECT_TYPE_NAMES, property |-> PROPERTY_NAMES]

MCIndexed ==
  [confirmed |-> ConfirmedServiceNames, unconfirmed |-> UnconfirmedServiceNames,
   reject |-> RejectReasonNames, abort |-> AbortReasonNames]

\* An object type is ten bits of an object identifier, a service choice and a
\* reason one octet.  For properties, every number up to the first one after
\* the standard range, those around the extension at 2^22, and the largest
\* number of TLC.
MCIds ==
  [t \in DOMAIN MCSearched \cup DOMAIN MCIndexed |->
     CASE t = "objectType" -> 0 .. 1023
       [] t = "property"   -> 0 .. 513 \cup 4194302 .. 4194351 \cup {2147483647}
       [] OTHER            -> 0 .. 255]

=============================================================================
