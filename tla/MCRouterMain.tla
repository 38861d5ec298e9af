--------------------------- MODULE MCRouterMain ---------------------------
(* Instances of RouterMain for TLC: the command lines of the program. *)
EXTENDS RouterMain

\* Every command line of up to four tokens whose first one is an option with a
\* value.
MCNumbers == {0, 1, 47808, 65535, 4194303}
MCCommandLines ==
  {<<>>} \cup
  {a \in UNION {[1 .. n -> Tokens] : n \in {2, 4}} :
     a[1] \in {PortFlag, Port2Flag, DeviceFlag}}

\* Started without arguments.
MCNoArguments == {<<>>}
MCNoNumbers == {}
MCEphemeral == {40000}

=============================================================================
