------------------------- MODULE MCSocksUdpGwClient -------------------------
(* Both methods, a short password and an address of the longer kind; a few  *)
(* bytes of traffic, written in any pieces.                                *)
EXTENDS SocksUdpGwClient
=============================================================================
