--------------------------- MODULE MCHostNetwork ---------------------------
(* HostNetwork with the loopback and two links. *)
EXTENDS HostNetwork

MCInterfaces == <<"lo", "eth0", "wlan0">>

\* Two addresses of one subnet, one of another, and one without a netmask.
MCConfigs ==
  {[ip |-> <<0, 0>>, mask |-> <<1, 0>>], [ip |-> <<1, 0>>, mask |-> <<1, 0>>],
   [ip |-> <<1, 0>>, mask |-> <<0, 0>>]}

=============================================================================
