---------------------------- MODULE SocksPromise ----------------------------
(***************************************************************************)
(* The contract of BSocksClient.h: a client tells of its connection, then   *)
(* that it is up, once each; an error ends it at any time, a close by the   *)
(* server only once it was up.  "The object must be freed from the job      *)
(* closure of the handler": after an error there is no client.             *)
(***************************************************************************)
VARIABLES
    phase,   \* "none", "connecting", "connected" or "up"
    event    \* the last event

PromiseInit == phase = "none" /\ event = "none"

Start  == phase = "none" /\ phase' = "connecting" /\ event' = "none"
TellConnected ==
    phase = "connecting" /\ phase' = "connected" /\ event' = "CONNECTED"
(* The user may free the client as soon as it hears.                       *)
TellUp == phase = "connected" /\ phase' \in {"up", "none"} /\ event' = "UP"
TellError  == phase # "none" /\ phase' = "none" /\ event' = "ERROR"
TellClosed == phase = "up" /\ phase' = "none" /\ event' = "ERROR_CLOSED"
FreeIt     == phase # "none" /\ phase' = "none" /\ event' = event

PromiseNext == Start \/ TellConnected \/ TellUp \/ TellError \/ TellClosed \/ FreeIt

Spec == PromiseInit /\ [][PromiseNext]_<<phase, event>>
=============================================================================
