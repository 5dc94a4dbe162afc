---------------------------- MODULE MCUdpClient ----------------------------
(***************************************************************************)
(* UdpClient with the two threads of asio_context.                         *)
(***************************************************************************)
EXTENDS UdpClient
=============================================================================
