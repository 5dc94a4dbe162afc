--------------------------- MODULE MCDiscoveryLink ---------------------------
(***************************************************************************)
(* DiscoveryLink with the intervals of the code, in seconds.               *)
(***************************************************************************)
EXTENDS DiscoveryLink

MCSettings == {-30, 60}
=============================================================================
