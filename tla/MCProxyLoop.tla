----------------------------- MODULE MCProxyLoop -----------------------------
(* Model checking of ProxyLoop: the service stops it from the binder and   *)
(* again from onDestroy, hence two stops.                                  *)
EXTENDS ProxyLoop
=============================================================================
