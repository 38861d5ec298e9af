-------------------------- MODULE MCUdpTransport --------------------------
(* UdpTransport on small instances. *)
EXTENDS UdpTransport, TLC

HandleSymmetry == Permutations(Handles)

=============================================================================
