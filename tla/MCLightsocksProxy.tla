------------------------- MODULE MCLightsocksProxy -------------------------
(* Model checking of LightsocksProxy: three bytes, and a table that moves  *)
(* each of them and is not its own inverse.                                *)
EXTENDS LightsocksProxy

MCByte  == 0..2
MCTable == [b \in MCByte |-> (b + 1) % 3]
=============================================================================
