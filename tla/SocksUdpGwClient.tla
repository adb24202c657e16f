-------------------------- MODULE SocksUdpGwClient --------------------------
(***************************************************************************)
(* SocksUdpGwClient.c: keeps the udpgw client connected to the udpgw server *)
(* through the SOCKS proxy, with one SOCKS client or the reconnect timer.   *)
(* Every handler is a step: the reactor runs them one at a time, and only   *)
(* the continue job of the SOCKS client is between two of them.  A handler  *)
(* of the SOCKS client and what socks_client_handler does with its event    *)
(* are one step.                                                           *)
(***************************************************************************)
EXTENDS BSocksClient

CONSTANT Data   \* the bytes of udpgw traffic on one connection, at most

ASSUME DataAssumption == Data \in Nat

VARIABLES
    init,         \* between Init and Free
    have_socks, socks_up,
    timer,        \* reconnect_timer is running
    have_server,  \* of the udpgw client
    got,          \* bytes of traffic its decoder has read on this connection
    gw_ok         \* no ASSERT of this file or UdpGwClient.c has failed

gw == <<init, have_socks, socks_up, timer, have_server, got, gw_ok>>
vars == <<socks, event, proxy, taken, ok, gw>>

-----------------------------------------------------------------------------
(* free_socks, but for BSocksClient_Free.                                  *)
free_socks(assert) ==
    /\ gw_ok' = (gw_ok /\ assert /\ have_socks /\ (socks_up => have_server))
    /\ have_server' = (have_server /\ ~socks_up)
    /\ have_socks' = FALSE /\ got' = 0 /\ UNCHANGED <<init, socks_up>>

(* BSocksClient_Init may fail.  Mutant: then the timer is not armed.        *)
try_connect_once ==
    \/ /\ BSocksClient_Init /\ UNCHANGED ok
       /\ have_socks' = TRUE /\ socks_up' = FALSE /\ timer' = FALSE
    \/ /\ have_socks' = FALSE /\ timer' = FALSE
       /\ UNCHANGED <<socks, event, proxy, taken, ok, socks_up>>
try_connect ==
    \/ /\ BSocksClient_Init /\ UNCHANGED ok
       /\ have_socks' = TRUE /\ socks_up' = FALSE /\ timer' = FALSE
    \/ /\ have_socks' = FALSE /\ timer' = TRUE
       /\ UNCHANGED <<socks, event, proxy, taken, ok, socks_up>>

(* The reactor clears a timer before it calls the handler.                 *)
reconnect_timer_handler ==
    /\ timer /\ try_connect /\ gw_ok' = (gw_ok /\ ~have_socks)
    /\ UNCHANGED <<init, have_server, got>>

(* What socks_client_handler does with the event of the step: the client is *)
(* up, and the udpgw client is connected to it or cannot be; or it is lost. *)
(* Mutant: the timer is armed only in the second case.                     *)
socks_client_handler_lost ==
    IF state' = "none"
    THEN free_socks(event' = "UP" => ~socks_up)
         /\ timer' = (timer \/ event' # "UP")
    ELSE IF event' = "UP" /\ event # "UP"
    THEN /\ gw_ok' = (gw_ok /\ have_socks /\ ~socks_up /\ ~have_server)
         /\ have_server' = TRUE /\ socks_up' = TRUE
         /\ UNCHANGED <<init, have_socks, timer, got>>
    ELSE UNCHANGED gw
socks_client_handler ==
    IF state' = "none"
    THEN free_socks(event' = "UP" => ~socks_up) /\ timer' = TRUE
    ELSE IF event' = "UP" /\ event # "UP"
    THEN /\ gw_ok' = (gw_ok /\ have_socks /\ ~socks_up /\ ~have_server)
         /\ have_server' = TRUE /\ socks_up' = TRUE
         /\ UNCHANGED <<init, have_socks, timer, got>>
    ELSE UNCHANGED gw

Connector  == connector_handler /\ socks_client_handler
Continue   == continue_job_handler /\ socks_client_handler
Connection == connection_handler /\ socks_client_handler
SendDone   == send_handler_done /\ socks_client_handler
RecvDone   == recv_handler_done /\ socks_client_handler

(* The udpgw client reads its traffic, and finds an error in it perhaps.    *)
Receive == /\ have_server
           /\ \E n \in 1..(sent - taken) : taken' = taken + n /\ got' = got + n
           /\ UNCHANGED <<socks, event, proxy, ok, init, have_socks, socks_up, timer,
                          have_server, gw_ok>>

(* Mutant: the udpgw client keeps the connection it has reported.           *)
udpgw_handler_servererror_kept ==
    /\ have_server /\ BSocksClient_Free(Whole(state, io))
    /\ have_socks' = FALSE /\ timer' = TRUE /\ got' = 0
    /\ UNCHANGED <<event, taken, init, socks_up, have_server, gw_ok>>
udpgw_handler_servererror ==
    /\ have_server /\ BSocksClient_Free(Whole(state, io)) /\ free_socks(socks_up)
    /\ timer' = TRUE
    /\ UNCHANGED <<event, taken>>

(* tun2socks frees the client when its loop has ended, whatever job is set, *)
(* and may start again.                                                    *)
SocksUdpGwClient_Free ==
    /\ init
    /\ \/ have_socks /\ BSocksClient_Free(Whole(state, io)) /\ free_socks(TRUE)
       \/ ~have_socks /\ UNCHANGED <<socks, proxy, ok, have_socks, socks_up, have_server, got, gw_ok>>
    /\ init' = FALSE /\ timer' = FALSE
    /\ UNCHANGED <<event, taken>>
SocksUdpGwClient_Init ==
    /\ ~init /\ init' = TRUE /\ have_server' = FALSE /\ try_connect
    /\ gw_ok' = (gw_ok /\ ~timer) /\ UNCHANGED got

Init ==
    /\ init = FALSE /\ have_socks = FALSE /\ socks_up = FALSE /\ timer = FALSE
    /\ have_server = FALSE /\ got = 0 /\ gw_ok = TRUE
    /\ state = "none" /\ io = "none" /\ buffer = 0 /\ recv_len = 0 /\ recv_total = 0
    /\ continue_job = FALSE /\ event = "none" /\ ok = TRUE
    /\ sent = 0 /\ taken = 0 /\ answer \in Answer

Next == \/ Connector \/ Continue \/ Connection \/ SendDone \/ RecvDone \/ Receive
        \/ reconnect_timer_handler \/ udpgw_handler_servererror
        \/ SocksUdpGwClient_Init \/ SocksUdpGwClient_Free
        \/ (Proxy(Data) /\ UNCHANGED gw)

(* The reactor runs what is due.  The kernel ends each connect, takes the   *)
(* few bytes of a request, and delivers what the proxy has written; that    *)
(* the proxy writes anything is not assumed.                               *)
Fairness == /\ WF_vars(Connector) /\ WF_vars(Continue) /\ WF_vars(SendDone)
            /\ WF_vars(RecvDone) /\ WF_vars(reconnect_timer_handler)

Spec == Init /\ [][Next]_vars /\ Fairness

-----------------------------------------------------------------------------
(* The variables have their types.                                         *)
SocksTypeOK ==
    /\ state \in State \cup {"none"} /\ io \in {"none", "control", "up"}
    /\ buffer \in 0..513 /\ recv_len \in 0..18 /\ recv_total \in 0..18
    /\ continue_job \in BOOLEAN
    /\ event \in {"none", "CONNECTED", "UP", "ERROR", "ERROR_CLOSED"}
    /\ answer \in Answer /\ sent \in Nat /\ taken \in Nat
    /\ init \in BOOLEAN /\ have_socks \in BOOLEAN /\ socks_up \in BOOLEAN
    /\ timer \in BOOLEAN /\ have_server \in BOOLEAN /\ got \in Nat
    /\ ok \in BOOLEAN /\ gw_ok \in BOOLEAN

(* The ASSERTs of both files hold whatever fails when, and what a SOCKS     *)
(* client is freed with is what it has: also when it is freed in the        *)
(* handler that says it is up.                                             *)
SocksAsserts == ok /\ gw_ok

(* From Init to Free there is always one of the SOCKS client and the timer, *)
(* never both: UDP does not stop for good, no second client overwrites the *)
(* first.  The udpgw client uses a connection exactly while that is up.    *)
ClientOrTimer ==
    /\ init => (have_socks <=> ~timer)
    /\ ~init => ~have_socks /\ ~timer
    /\ have_socks <=> state # "none"
    /\ have_server <=> have_socks /\ socks_up
    /\ have_server <=> state = "UP"

(* However the stream is cut up, the handshake takes the proxy's answer and *)
(* not a byte of the traffic behind it, and it stays within its buffer.    *)
Offset == IF state = "RECEIVED_REPLY_HEADER" THEN ReplyHeader ELSE 0
HandshakeBytes ==
    /\ state = "UP" => taken = HandshakeEnd + got
    /\ state \in State \ {"UP"} => taken <= HandshakeEnd
    /\ state \in Receiving => recv_len < recv_total /\ Offset + recv_total <= buffer

(* What BSocksClient.h promises its user about the order of the events.     *)
Phase == CASE state = "none" -> "none" [] state = "CONNECTING" -> "connecting"
           [] state = "UP" -> "up" [] OTHER -> "connected"
Promise == INSTANCE SocksPromise WITH phase <- Phase
KeepsPromise == Promise!Spec

(* The client comes back after every loss, and is up once a proxy has       *)
(* granted the request, unless the connection or memory fails.             *)
Recovers ==
    /\ init /\ ~have_socks ~> have_socks \/ ~init
    /\ have_socks /\ Granted /\ sent >= HandshakeEnd ~> have_server \/ ~have_socks
=============================================================================
