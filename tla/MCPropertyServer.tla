-------------------------- MODULE MCPropertyServer --------------------------
(* PropertyServer and Commandable with two priorities instead of sixteen. *)
EXTENDS PropertyServer

(* Each output addressed properly, then every way to miss one of them. *)
MCAddresses ==
  {<<TRUE, o, 1, "Present_Value">> : o \in ObjectTypes}
    \cup {<<TRUE, AO, 2, "Present_Value">>, <<FALSE, AO, 1, "Present_Value">>,
          <<TRUE, BO, 1, "Relinquish_Default">>}

MCUdpPort == <<47808, 47809>>

=============================================================================
