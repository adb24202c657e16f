----------------------------- MODULE MCFairQueue -----------------------------
(* Model checking of FairQueue: packets of up to MTU, and a clock so short  *)
(* that it is brought back every few packets.                              *)
EXTENDS FairQueue
=============================================================================
