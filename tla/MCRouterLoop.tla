--------------------------- MODULE MCRouterLoop ---------------------------
(* RouterLoop with the two networks of the program. *)
EXTENDS RouterLoop

MCPortOf == <<7, 8>>

=============================================================================
