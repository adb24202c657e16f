------------------------ MODULE SocksUdpGwClientProofs ------------------------
(***************************************************************************)
(* The safety properties of SocksUdpGwClient, for every set of methods and  *)
(* every size of password, request and traffic, and that BSocksClient keeps *)
(* the contract of SocksPromise.                                           *)
(*                                                                         *)
(* The inductive invariant says where in the proxy's answer each state of   *)
(* the client is: what it reads next is what it takes it for.              *)
(***************************************************************************)
EXTENDS SocksUdpGwClient, TLAPS

Aligned ==
    /\ state \in {"CONNECTING", "CONNECTED_HANDLER", "SENDING_HELLO"} => taken = 0
    /\ state = "SENT_HELLO" => taken = recv_len /\ recv_total = Hello
    /\ state = "SENDING_PASSWORD" => taken = Hello
    /\ state = "SENT_PASSWORD" => taken = Hello + recv_len /\ recv_total = PasswordReply
    /\ state \in {"SENDING_PASSWORD", "SENT_PASSWORD"} => answer.method = "password"
    /\ state = "SENDING_REQUEST" => taken = AuthEnd
    /\ state = "SENT_REQUEST" => taken = AuthEnd + recv_len /\ recv_total = ReplyHeader
    /\ state = "RECEIVED_REPLY_HEADER" =>
          taken = HeaderEnd + recv_len /\ recv_total = AddrSize(answer.atyp)
    /\ state = "UP" => taken = HandshakeEnd + got

Equipped ==
    /\ state # "none" => Whole(state, io)
    /\ state \in Sending => buffer > 0
    /\ continue_job <=> state = "CONNECTED_HANDLER"
    /\ state # "UP" => got = 0
    /\ state \in Receiving => recv_len < recv_total /\ Offset + recv_total <= buffer
    /\ state # "none" => (event = "UP" <=> state = "UP")
    /\ state = "SENT_REQUEST" => buffer = 22

IInv == SocksTypeOK /\ SocksAsserts /\ ClientOrTimer /\ Aligned /\ Equipped

-----------------------------------------------------------------------------
LEMMA Sizes ==
    ASSUME answer \in Answer
    PROVE  /\ AddrSize("ipv4") = 6 /\ AddrSize("ipv6") = 18
           /\ AddrSize(answer.atyp) \in {1, 6, 18}
           /\ Hello = 2 /\ PasswordReply = 2 /\ ReplyHeader = 4
           /\ AuthEnd \in {2, 4} /\ HeaderEnd = AuthEnd + 4
           /\ HandshakeEnd = HeaderEnd + AddrSize(answer.atyp)
           /\ AuthEnd = IF answer.method = "password" THEN 4 ELSE 2
BY DEF Answer, AddrSize, Hello, PasswordReply, ReplyHeader, AuthEnd, HeaderEnd, HandshakeEnd

Events == {"none", "CONNECTED", "UP", "ERROR", "ERROR_CLOSED"}

(* A step that loses the client, however it is lost.                        *)
LEMMA LostInv ==
    ASSUME IInv, init, have_socks, state' = "none", io' = "none", buffer' = 0,
           recv_len' = 0, recv_total' = 0, continue_job' = FALSE, answer' = answer,
           sent' = sent, taken' \in Nat, event' \in Events, ok' = TRUE, gw_ok' = TRUE,
           have_server' = FALSE, have_socks' = FALSE, got' = 0, init' = init,
           socks_up' = socks_up, timer' = TRUE
    PROVE  IInv'
<1>1. SocksTypeOK'
    <2>1. /\ answer' \in Answer /\ sent' \in Nat /\ init' \in BOOLEAN /\ socks_up' \in BOOLEAN
        BY DEF IInv, SocksTypeOK
    <2>2. state' \in State \cup {"none"} /\ io' \in {"none", "control", "up"}
        OBVIOUS
    <2>3. /\ buffer' \in 0..513 /\ recv_len' \in 0..18 /\ recv_total' \in 0..18
          /\ got' \in Nat
        OBVIOUS
    <2> QED
        BY <2>1, <2>2, <2>3 DEF SocksTypeOK, Events
<1>2. SocksAsserts'
    BY DEF SocksAsserts
<1>3. ClientOrTimer'
    BY DEF ClientOrTimer
<1>4. Aligned' /\ Equipped'
    BY DEF Aligned, Equipped, Sending, Receiving
<1> QED
    BY <1>1, <1>2, <1>3, <1>4 DEF IInv

(* The user hears of an error in a handler of the SOCKS client.             *)
LEMMA FailInv ==
    ASSUME IInv, state # "none", NEW e \in {"ERROR", "ERROR_CLOSED"}, event' = e,
           BSocksClient_Free(Whole(state, io)), socks_client_handler, taken' \in Nat
    PROVE  IInv'
<1>1. init /\ have_socks /\ ok = TRUE /\ gw_ok = TRUE /\ Whole(state, io)
    BY DEF IInv, SocksTypeOK, ClientOrTimer, SocksAsserts, Equipped
<1>2. /\ state' = "none" /\ io' = "none" /\ buffer' = 0 /\ recv_len' = 0
      /\ recv_total' = 0 /\ continue_job' = FALSE /\ answer' = answer /\ sent' = sent
      /\ ok' = TRUE
    BY <1>1 DEF BSocksClient_Free
<1>3. free_socks(TRUE) /\ timer' = TRUE
    BY <1>2 DEF socks_client_handler
<1>4. socks_up => have_server
    BY <1>1 DEF IInv, ClientOrTimer
<1>5. /\ gw_ok' = TRUE /\ have_socks' = FALSE /\ got' = 0 /\ init' = init
      /\ socks_up' = socks_up
    BY <1>1, <1>3, <1>4 DEF free_socks
<1>6. have_server' = FALSE
    BY <1>1, <1>3 DEF free_socks, IInv, ClientOrTimer
<1> QED
    BY <1>1, <1>2, <1>3, <1>5, <1>6, LostInv DEF Events

(* In a step of the SOCKS client that tells nothing, or only that it is     *)
(* connected, its user does nothing.                                       *)
LEMMA Quiet ==
    ASSUME socks_client_handler, state' # "none", event' = "UP" => event = "UP"
    PROVE  UNCHANGED gw
BY DEF socks_client_handler

LEMMA ConnectorInv == IInv /\ Connector => IInv'
<1> SUFFICES ASSUME IInv, Connector PROVE IInv'
    OBVIOUS
<1>1. state = "CONNECTING" /\ SocksTypeOK /\ answer \in Answer
    BY DEF Connector, connector_handler, IInv, SocksTypeOK
<1>2. CASE Error("ERROR", TRUE)
    <2>1. taken' \in Nat /\ event' = "ERROR" /\ BSocksClient_Free(Whole(state, io))
        BY <1>1, <1>2 DEF Error, Fail, BSocksClient_Free, SocksTypeOK
    <2> QED
        BY <1>1, <2>1, FailInv DEF Connector
<1>3. CASE /\ state' = "CONNECTED_HANDLER" /\ io' = "control" /\ continue_job' = TRUE
           /\ event' = "CONNECTED"
           /\ UNCHANGED <<buffer, recv_len, recv_total, taken, ok>> /\ UNCHANGED proxy
    <2>1. UNCHANGED gw
        BY <1>3, Quiet DEF Connector
    <2>2. SocksTypeOK'
        BY <1>1, <1>3, <2>1 DEF SocksTypeOK, gw, proxy, State
    <2>3. SocksAsserts' /\ ClientOrTimer'
        BY <1>1, <1>3, <2>1 DEF IInv, SocksAsserts, ClientOrTimer, gw
    <2>4. Aligned'
        BY <1>1, <1>3 DEF IInv, Aligned
    <2>5. Equipped'
        BY <1>1, <1>3, <2>1 DEF IInv, Equipped, Whole, Sending, Receiving, gw
    <2> QED
        BY <2>2, <2>3, <2>4, <2>5 DEF IInv
<1> QED
    BY <1>2, <1>3 DEF Connector, connector_handler

LEMMA ContinueInv == IInv /\ Continue => IInv'
<1> SUFFICES ASSUME IInv, Continue PROVE IInv'
    OBVIOUS
<1>1. state = "CONNECTED_HANDLER" /\ SocksTypeOK /\ continue_job = TRUE
    BY DEF Continue, continue_job_handler, IInv, SocksTypeOK, Equipped
<1>2. CASE Error("ERROR", state = "CONNECTED_HANDLER")
    <2>1. taken' \in Nat /\ event' = "ERROR" /\ BSocksClient_Free(Whole(state, io))
        BY <1>1, <1>2 DEF Error, Fail, BSocksClient_Free, SocksTypeOK
    <2> QED
        BY <1>1, <2>1, FailInv DEF Continue
<1>3. CASE /\ state' = "SENDING_HELLO" /\ buffer' = 2 + (IF auth_info = {"none", "password"}
                                                       THEN 2 ELSE 1)
           /\ continue_job' = FALSE /\ ok' = (ok /\ state = "CONNECTED_HANDLER")
           /\ UNCHANGED <<io, recv_len, recv_total, event, taken>> /\ UNCHANGED proxy
    <2>1. UNCHANGED gw
        BY <1>3, Quiet DEF Continue
    <2>2. buffer' \in 3..4 /\ ok' = ok
        BY <1>1, <1>3 DEF IInv, SocksTypeOK
    <2>3. SocksTypeOK'
        <3>1. state' \in State /\ buffer' \in 0..513 /\ ok' \in BOOLEAN
            BY <1>1, <1>3, <2>2 DEF State, SocksTypeOK
        <3> QED
            BY <1>1, <1>3, <2>1, <3>1, ZenonT(60) DEF SocksTypeOK, gw, proxy
    <2>4. SocksAsserts' /\ ClientOrTimer'
        BY <1>1, <1>3, <2>1, <2>2 DEF IInv, SocksAsserts, ClientOrTimer, gw
    <2>5. Aligned'
        BY <1>1, <1>3 DEF IInv, Aligned
    <2>6. Equipped'
        BY <1>1, <1>3, <2>1, <2>2 DEF IInv, Equipped, Whole, Sending, Receiving, gw
    <2> QED
        BY <2>3, <2>4, <2>5, <2>6 DEF IInv
<1> QED
    BY <1>2, <1>3 DEF Continue, continue_job_handler

LEMMA ConnectionInv == IInv /\ Connection => IInv'
<1> SUFFICES ASSUME IInv, Connection PROVE IInv'
    OBVIOUS
<1>1. state # "none" /\ SocksTypeOK /\ socks_client_handler
    BY DEF Connection, connection_handler, IInv, State
<1>2. PICK closed \in BOOLEAN :
         Error(IF state = "UP" /\ closed THEN "ERROR_CLOSED" ELSE "ERROR", TRUE)
    BY DEF Connection, connection_handler
<1>3. /\ taken' \in Nat /\ event' \in {"ERROR", "ERROR_CLOSED"}
      /\ BSocksClient_Free(Whole(state, io))
    BY <1>1, <1>2 DEF Error, Fail, BSocksClient_Free, SocksTypeOK
<1> QED
    BY <1>1, <1>3, FailInv

LEMMA SendDoneInv == IInv /\ SendDone => IInv'
<1> SUFFICES ASSUME IInv, SendDone PROVE IInv'
    OBVIOUS
<1>1. state \in Sending /\ SocksTypeOK /\ buffer > 0 /\ answer \in Answer
    BY DEF SendDone, send_handler_done, IInv, SocksTypeOK, Equipped
<1>2. CASE Error("ERROR", buffer > 0)
    <2>1. taken' \in Nat /\ event' = "ERROR" /\ BSocksClient_Free(Whole(state, io))
        BY <1>1, <1>2 DEF Error, Fail, BSocksClient_Free, SocksTypeOK
    <2>2. state # "none" /\ socks_client_handler
        BY <1>1 DEF Sending, SendDone
    <2> QED
        BY <2>1, <2>2, FailInv
<1>3. CASE ~Error("ERROR", buffer > 0)
    <2>1. /\ ok' = (ok /\ buffer > 0) /\ recv_len' = 0
          /\ UNCHANGED <<io, continue_job, event, taken>> /\ UNCHANGED proxy
        BY <1>3 DEF SendDone, send_handler_done, start_receive
    <2>2. \/ /\ state = "SENDING_HELLO" /\ state' = "SENT_HELLO"
             /\ recv_total' = 2 /\ buffer' = 2
          \/ /\ state = "SENDING_PASSWORD" /\ state' = "SENT_PASSWORD"
             /\ recv_total' = 2 /\ buffer' = 2
          \/ /\ state = "SENDING_REQUEST" /\ state' = "SENT_REQUEST"
             /\ recv_total' = 4 /\ buffer' = 22
        BY <1>1, <1>3, Sizes DEF SendDone, send_handler_done, start_receive, Sending
    <2>3. UNCHANGED gw
        BY <1>3, <2>1, <2>2, Quiet DEF SendDone
    <2>4. SocksTypeOK'
        <3>1. /\ state' \in State /\ buffer' \in 0..513 /\ recv_len' \in 0..18
              /\ recv_total' \in 0..18
            BY <2>1, <2>2 DEF State
        <3>2. ok' \in BOOLEAN
            BY <2>1
        <3> QED
            BY <1>1, <2>1, <2>3, <3>1, <3>2 DEF SocksTypeOK, gw, proxy
    <2>5. SocksAsserts' /\ ClientOrTimer'
        BY <1>1, <2>1, <2>2, <2>3 DEF IInv, SocksAsserts, ClientOrTimer, gw
    <2>6. Aligned'
        <3>1. AuthEnd' = AuthEnd /\ Hello = 2 /\ PasswordReply = 2 /\ ReplyHeader = 4
            BY <1>1, <2>1, Sizes DEF AuthEnd, proxy
        <3>2. CASE state = "SENDING_HELLO"
            BY <2>1, <2>2, <3>1, <3>2 DEF IInv, Aligned
        <3>3. CASE state = "SENDING_PASSWORD"
            BY <2>1, <2>2, <3>1, <3>3 DEF IInv, Aligned, proxy
        <3>4. CASE state = "SENDING_REQUEST"
            <4>1. taken' = AuthEnd' + recv_len' /\ recv_total' = ReplyHeader
                BY <1>1, <2>1, <2>2, <3>1, <3>4, Sizes DEF IInv, Aligned
            <4> QED
                BY <2>2, <3>4, <4>1 DEF Aligned
        <3> QED
            BY <2>2, <3>2, <3>3, <3>4
    <2>7. Equipped'
        <3>1. state' # "UP" /\ state # "UP" /\ state' \notin Sending /\ got' = got
            BY <2>2, <2>3 DEF Sending, gw
        <3>2. Offset' = 0
            BY <2>2 DEF Offset
        <3>3. Whole(state, io) => Whole(state', io')
            BY <2>1, <2>2 DEF Whole
        <3>4. recv_len' < recv_total' /\ 0 + recv_total' <= buffer'
            BY <2>1, <2>2
        <3> QED
            BY <2>1, <2>2, <3>1, <3>2, <3>3, <3>4 DEF IInv, Equipped
    <2> QED
        BY <2>4, <2>5, <2>6, <2>7 DEF IInv
<1> QED
    BY <1>2, <1>3

(* The parts of the answer, one after the other.                            *)
LEMMA RecvDoneInv == IInv /\ RecvDone => IInv'
<1> SUFFICES ASSUME IInv, RecvDone PROVE IInv'
    OBVIOUS
<1>1. /\ state \in Receiving /\ SocksTypeOK /\ answer \in Answer /\ ok = TRUE /\ gw_ok = TRUE
      /\ have_socks /\ init /\ ~socks_up /\ ~have_server /\ Whole(state, io)
      /\ recv_len < recv_total /\ Offset + recv_total <= buffer /\ event # "UP"
      /\ continue_job = FALSE /\ got = 0 /\ taken \in Nat /\ socks_client_handler
    BY DEF RecvDone, recv_handler_done, IInv, SocksTypeOK, SocksAsserts, ClientOrTimer,
           Equipped, Receiving
<1>2. PICK n \in 1..(recv_total - recv_len) :
         /\ taken' = taken + n
         /\ IF recv_len + n < recv_total
             THEN /\ recv_len' = recv_len + n
                  /\ UNCHANGED <<state, io, buffer, recv_total, continue_job, event, ok>>
                  /\ UNCHANGED proxy
             ELSE received_hello \/ received_password \/ received_reply_header
                  \/ received_reply_rest
    BY DEF RecvDone, recv_handler_done
<1>3. n \in Nat /\ recv_len \in 0..18 /\ recv_total \in 0..18 /\ taken' \in Nat
    BY <1>1, <1>2 DEF SocksTypeOK
<1>4. CASE Fail("ERROR", TRUE)
    <2>1. event' = "ERROR" /\ BSocksClient_Free(Whole(state, io))
        BY <1>4 DEF Fail, BSocksClient_Free
    <2> QED
        BY <1>1, <1>3, <2>1, FailInv DEF Receiving
<1>5. CASE recv_len + n < recv_total
    <2>1. /\ recv_len' = recv_len + n
          /\ UNCHANGED <<state, io, buffer, recv_total, continue_job, event, ok>>
          /\ UNCHANGED proxy
        BY <1>2, <1>5
    <2>2. UNCHANGED gw
        BY <1>1, <2>1, Quiet DEF Receiving
    <2>3. recv_len' \in 0..18
        BY <1>3, <1>5, <2>1
    <2>4. SocksTypeOK'
        BY <1>1, <1>3, <2>1, <2>2, <2>3 DEF SocksTypeOK, gw, proxy
    <2>5. SocksAsserts' /\ ClientOrTimer'
        BY <2>1, <2>2 DEF IInv, SocksAsserts, ClientOrTimer, gw
    <2>6. Aligned'
        <3>1. AuthEnd' = AuthEnd /\ HeaderEnd' = HeaderEnd
            BY <2>1 DEF proxy, AuthEnd, HeaderEnd
        <3>2. AuthEnd \in Nat /\ HeaderEnd \in Nat /\ Hello = 2
            BY <1>1, Sizes
        <3>3. CASE state = "SENT_HELLO"
            BY <1>1, <1>2, <1>3, <2>1, <3>3 DEF IInv, Aligned
        <3>4. CASE state = "SENT_PASSWORD"
            BY <1>1, <1>2, <1>3, <2>1, <3>2, <3>4 DEF IInv, Aligned, proxy
        <3>5. CASE state = "SENT_REQUEST"
            BY <1>1, <1>2, <1>3, <2>1, <3>1, <3>2, <3>5 DEF IInv, Aligned
        <3>6. CASE state = "RECEIVED_REPLY_HEADER"
            BY <1>1, <1>2, <1>3, <2>1, <3>1, <3>2, <3>6 DEF IInv, Aligned, proxy
        <3> QED
            BY <1>1, <3>3, <3>4, <3>5, <3>6 DEF Receiving
    <2>7. Equipped'
        <3>1. Offset' = Offset /\ Whole(state, io)' = Whole(state, io) /\ got' = got
            BY <2>1, <2>2 DEF Offset, Whole, gw
        <3>2. recv_len' < recv_total'
            BY <1>5, <2>1
        <3> QED
            BY <2>1, <3>1, <3>2 DEF IInv, Equipped
    <2> QED
        BY <2>4, <2>5, <2>6, <2>7 DEF IInv
<1>6. CASE ~(recv_len + n < recv_total) /\ ~Fail("ERROR", TRUE)
    <2>1. taken' = taken + (recv_total - recv_len)
        BY <1>2, <1>3, <1>6
    <2>2. received_hello \/ received_password \/ received_reply_header \/ received_reply_rest
        BY <1>2, <1>6
    <2>3. CASE received_hello \/ received_password
        <3>1. /\ UNCHANGED <<io, continue_job, event, recv_total, ok>> /\ UNCHANGED proxy
              /\ recv_len' = recv_total
            BY <1>6, <2>3 DEF received_hello, received_password, auth_finished
        <3>2. \/ /\ state = "SENT_HELLO" /\ state' = "SENDING_REQUEST" /\ answer.method = "none"
                 /\ buffer' = RequestSize
              \/ /\ state = "SENT_HELLO" /\ state' = "SENDING_PASSWORD"
                 /\ answer.method = "password" /\ buffer' = PasswordSize
              \/ /\ state = "SENT_PASSWORD" /\ state' = "SENDING_REQUEST"
                 /\ buffer' = RequestSize
            BY <1>6, <2>3 DEF received_hello, received_password, auth_finished
        <3>3. UNCHANGED gw
            BY <1>1, <3>1, <3>2, Quiet
        <3>4. buffer' \in 1..513
            BY <3>2, SocksAssumption
        <3>5. SocksTypeOK'
            <4>1. state' \in State /\ recv_len' \in 0..18 /\ buffer' \in 0..513
                BY <1>3, <3>1, <3>2, <3>4 DEF State
            <4> QED
                BY <1>1, <1>3, <3>1, <3>3, <4>1 DEF SocksTypeOK, gw, proxy
        <3>6. SocksAsserts' /\ ClientOrTimer'
            BY <1>1, <3>1, <3>2, <3>3 DEF IInv, SocksAsserts, ClientOrTimer, gw
        <3>7. Aligned'
            <4>1. AuthEnd' = AuthEnd /\ Hello = 2 /\ PasswordReply = 2
                  /\ AuthEnd = IF answer.method = "password" THEN 4 ELSE 2
                BY <1>1, <3>1, Sizes DEF proxy, AuthEnd
            <4>2. CASE state = "SENT_HELLO"
                <5>1. taken' = 2
                    BY <1>3, <2>1, <4>1, <4>2 DEF IInv, Aligned
                <5> QED
                    BY <3>1, <3>2, <4>1, <4>2, <5>1 DEF Aligned, proxy
            <4>3. CASE state = "SENT_PASSWORD"
                <5>1. taken' = 4 /\ answer.method = "password"
                    BY <1>3, <2>1, <4>1, <4>3 DEF IInv, Aligned
                <5> QED
                    BY <3>1, <3>2, <4>1, <4>3, <5>1 DEF Aligned, proxy
            <4> QED
                BY <3>2, <4>2, <4>3
        <3>8. Equipped'
            <4>1. Whole(state, io) => Whole(state', io')
                BY <3>1, <3>2 DEF Whole
            <4>2. got' = got /\ state' \in Sending /\ state' \notin Receiving
                BY <3>2, <3>3 DEF gw, Sending, Receiving
            <4>3. /\ buffer' > 0 /\ event' # "UP"
                  /\ state' \notin {"CONNECTED_HANDLER", "UP", "SENT_REQUEST"}
                BY <1>1, <3>1, <3>2, <3>4
            <4> QED
                BY <1>1, <3>1, <4>1, <4>2, <4>3 DEF Equipped
        <3> QED
            BY <3>5, <3>6, <3>7, <3>8 DEF IInv
    <2>4. CASE received_reply_header
        <3>1. /\ state = "SENT_REQUEST" /\ state' = "RECEIVED_REPLY_HEADER"
              /\ recv_len' = 0 /\ recv_total' = AddrSize(answer.atyp)
              /\ answer.atyp # "other"
              /\ UNCHANGED <<io, buffer, continue_job, event, ok>> /\ UNCHANGED proxy
            BY <1>6, <2>4 DEF received_reply_header, start_receive
        <3>2. UNCHANGED gw
            BY <1>1, <3>1, Quiet
        <3>3. recv_total' \in {6, 18} /\ AddrSize(answer.atyp) \in {6, 18}
            BY <1>1, <3>1 DEF AddrSize, Answer
        <3>4. SocksTypeOK'
            <4>1. state' \in State /\ recv_len' \in 0..18 /\ recv_total' \in 0..18
                BY <3>1, <3>3 DEF State
            <4> QED
                BY <1>1, <1>3, <3>1, <3>2, <4>1 DEF SocksTypeOK, gw, proxy
        <3>5. SocksAsserts' /\ ClientOrTimer'
            BY <1>1, <3>1, <3>2 DEF IInv, SocksAsserts, ClientOrTimer, gw
        <3>6. Aligned'
            <4>1. /\ HeaderEnd' = HeaderEnd /\ HeaderEnd = AuthEnd + 4 /\ AuthEnd \in Nat
                  /\ ReplyHeader = 4 /\ answer' = answer
                BY <1>1, <3>1, Sizes DEF proxy, HeaderEnd, AuthEnd
            <4>2. taken' = HeaderEnd
                BY <1>1, <1>3, <2>1, <3>1, <4>1 DEF IInv, Aligned
            <4>3. taken' = HeaderEnd' + recv_len' /\ recv_total' = AddrSize(answer.atyp)'
                BY <3>1, <4>1, <4>2
            <4> QED
                BY <3>1, <4>3 DEF Aligned
        <3>7. Equipped'
            <4>1. Whole(state, io) => Whole(state', io')
                BY <3>1 DEF Whole
            <4>2. buffer = 22
                BY <3>1 DEF IInv, Equipped
            <4>3. Offset' = 4
                BY <3>1 DEF Offset, ReplyHeader
            <4>4. recv_len' < recv_total' /\ Offset' + recv_total' <= buffer'
                BY <3>1, <3>3, <4>2, <4>3
            <4>5. got' = got /\ state' \notin Sending
                BY <3>1, <3>2 DEF gw, Sending
            <4> QED
                BY <1>1, <3>1, <4>1, <4>4, <4>5 DEF Equipped
        <3> QED
            BY <3>4, <3>5, <3>6, <3>7 DEF IInv
    <2>5. CASE received_reply_rest
        <3>1. state = "RECEIVED_REPLY_HEADER" /\ event' = "UP" /\ event # "UP"
            BY <1>1, <2>5 DEF received_reply_rest
        <3>2. CASE BSocksClient_Free(Whole(Told.state, Told.io))
            <4>1. /\ state' = "none" /\ io' = "none" /\ buffer' = 0 /\ recv_len' = 0
                  /\ recv_total' = 0 /\ continue_job' = FALSE /\ answer' = answer
                  /\ sent' = sent /\ ok' = TRUE
                BY <1>1, <3>2 DEF BSocksClient_Free, Whole, Told
            <4>2. free_socks(event' = "UP" => ~socks_up) /\ timer' = TRUE
                BY <1>1, <4>1 DEF socks_client_handler
            <4>3. /\ gw_ok' = TRUE /\ have_socks' = FALSE /\ got' = 0 /\ init' = init
                  /\ socks_up' = socks_up /\ have_server' = FALSE
                BY <1>1, <4>2 DEF free_socks
            <4> QED
                BY <1>1, <1>3, <3>1, <4>1, <4>2, <4>3, LostInv DEF Events
        <3>3. CASE ~BSocksClient_Free(Whole(Told.state, Told.io))
            <4>1. /\ state' = "UP" /\ io' = "up" /\ buffer' = 0 /\ recv_len' = recv_total
                  /\ UNCHANGED <<recv_total, continue_job, ok>> /\ UNCHANGED proxy
                BY <2>5, <3>3 DEF received_reply_rest, Told
            <4>2. /\ gw_ok' = (gw_ok /\ have_socks /\ ~socks_up /\ ~have_server)
                  /\ have_server' = TRUE /\ socks_up' = TRUE
                  /\ UNCHANGED <<init, have_socks, timer, got>>
                BY <1>1, <3>1, <4>1 DEF socks_client_handler
            <4>3. gw_ok' = TRUE
                BY <1>1, <4>2
            <4>4. SocksTypeOK'
                <5>1. state' \in State /\ recv_len' \in 0..18 /\ buffer' \in 0..513
                    BY <1>3, <4>1 DEF State
                <5> QED
                    BY <1>1, <1>3, <3>1, <4>1, <4>2, <4>3, <5>1 DEF SocksTypeOK, proxy
            <4>5. SocksAsserts' /\ ClientOrTimer'
                BY <1>1, <4>1, <4>2, <4>3 DEF IInv, SocksAsserts, ClientOrTimer
            <4>6. Aligned'
                <5>1. HandshakeEnd' = HandshakeEnd
                    BY <4>1 DEF proxy, HandshakeEnd, HeaderEnd, AuthEnd
                <5>2. taken' = HeaderEnd + recv_total /\ recv_total = AddrSize(answer.atyp)
                    <6>1. HeaderEnd \in Nat
                        BY <1>1, Sizes
                    <6> QED
                        BY <1>1, <1>3, <2>1, <3>1, <6>1 DEF IInv, Aligned
                <5>3. taken' = HandshakeEnd + got'
                    BY <1>1, <1>3, <4>2, <5>2, Sizes
                <5> QED
                    BY <4>1, <5>1, <5>3 DEF Aligned
            <4>7. Equipped'
                BY <1>1, <3>1, <4>1, <4>2 DEF Equipped, Whole, Sending, Receiving
            <4> QED
                BY <4>4, <4>5, <4>6, <4>7 DEF IInv
        <3> QED
            BY <3>2, <3>3
    <2> QED
        BY <2>2, <2>3, <2>4, <2>5
<1> QED
    BY <1>4, <1>5, <1>6

(* The steps of the udpgw client and of tun2socks.                          *)
LEMMA ReceiveInv == IInv /\ Receive => IInv'
<1> SUFFICES ASSUME IInv, Receive PROVE IInv'
    OBVIOUS
<1>1. /\ state = "UP" /\ SocksTypeOK /\ answer \in Answer
      /\ taken \in Nat /\ got \in Nat /\ taken = HandshakeEnd + got
    BY DEF IInv, ClientOrTimer, Receive, SocksTypeOK, Aligned
<1>2. /\ UNCHANGED <<socks, event, proxy, ok, init, have_socks, socks_up, timer,
                     have_server, gw_ok>>
      /\ sent \in Nat
    BY <1>1 DEF Receive, SocksTypeOK
<1>0. PICK n \in 1..(sent - taken) : taken' = taken + n /\ got' = got + n
    BY DEF Receive
<1>3. taken' \in Nat /\ got' \in Nat /\ n \in Nat
    BY <1>0, <1>1, <1>2
<1>4. SocksTypeOK'
    BY <1>1, <1>2, <1>3 DEF SocksTypeOK, socks, proxy
<1>5. SocksAsserts' /\ ClientOrTimer'
    BY <1>1, <1>2 DEF IInv, SocksAsserts, ClientOrTimer, socks
<1>6. Aligned'
    <2>1. HandshakeEnd' = HandshakeEnd
        BY <1>2 DEF proxy, HandshakeEnd, HeaderEnd, AuthEnd
    <2>2. HandshakeEnd \in Nat
        BY <1>1, Sizes
    <2>3. taken' = HandshakeEnd' + got'
        <3>1. taken' = HandshakeEnd + (got + n)
            BY <1>0, <1>1, <1>3, <2>2
        <3> QED
            BY <1>0, <2>1, <3>1
    <2>4. state' = "UP"
        BY <1>1, <1>2 DEF socks
    <2> QED
        BY <2>3, <2>4 DEF Aligned
<1>7. Equipped'
    BY <1>1, <1>2 DEF IInv, Equipped, socks, Whole, Sending, Receiving
<1> QED
    BY <1>4, <1>5, <1>6, <1>7 DEF IInv

LEMMA ServerErrorInv == IInv /\ udpgw_handler_servererror => IInv'
<1> SUFFICES ASSUME IInv, udpgw_handler_servererror PROVE IInv'
    OBVIOUS
<1>1. /\ state = "UP" /\ SocksTypeOK /\ Whole(state, io) /\ ok = TRUE /\ gw_ok = TRUE
      /\ have_socks /\ socks_up /\ have_server /\ init
    BY DEF IInv, ClientOrTimer, udpgw_handler_servererror, SocksTypeOK, Equipped, SocksAsserts
<1>2. BSocksClient_Free(Whole(state, io)) /\ free_socks(socks_up) /\ timer' = TRUE
      /\ UNCHANGED <<event, taken>>
    BY DEF udpgw_handler_servererror
<1>3. /\ state' = "none" /\ io' = "none" /\ buffer' = 0 /\ recv_len' = 0
      /\ recv_total' = 0 /\ continue_job' = FALSE /\ answer' = answer /\ sent' = sent
      /\ ok' = TRUE
    BY <1>1, <1>2 DEF BSocksClient_Free
<1>4. /\ gw_ok' = TRUE /\ have_socks' = FALSE /\ got' = 0 /\ init' = init
      /\ socks_up' = socks_up /\ have_server' = FALSE
    BY <1>1, <1>2 DEF free_socks
<1>5. taken' \in Nat /\ event' \in Events
    BY <1>1, <1>2 DEF SocksTypeOK, Events
<1>6. init /\ have_socks /\ timer' = TRUE
    BY <1>1, <1>2
<1> QED
    BY <1>3, <1>4, <1>5, <1>6, LostInv

(* A client is made, or the timer armed, where there was neither.           *)
LEMMA ConnectInv ==
    ASSUME IInv, ~have_socks, try_connect, init' = TRUE, have_server' = FALSE,
           got' = got, gw_ok' = TRUE
    PROVE  IInv'
<1>1. /\ SocksTypeOK /\ state = "none" /\ got = 0 /\ ok = TRUE
    BY DEF IInv, ClientOrTimer, SocksTypeOK, SocksAsserts, Equipped
<1>2. CASE /\ BSocksClient_Init /\ UNCHANGED ok
           /\ have_socks' = TRUE /\ socks_up' = FALSE /\ timer' = FALSE
    <2>1. SocksTypeOK'
        <3>1. state' \in State
            BY <1>2 DEF BSocksClient_Init, State
        <3>2. /\ io' = "none" /\ buffer' = 0 /\ recv_len' = 0 /\ recv_total' = 0
              /\ continue_job' = FALSE /\ event' = "none" /\ sent' = 0 /\ taken' = 0
              /\ answer' \in Answer
            BY <1>2 DEF BSocksClient_Init
        <3>3. /\ buffer' \in 0..513 /\ recv_len' \in 0..18 /\ recv_total' \in 0..18
              /\ sent' \in Nat /\ taken' \in Nat
            BY <1>2 DEF BSocksClient_Init
        <3>5. /\ io' \in {"none", "control", "up"} /\ continue_job' \in BOOLEAN
              /\ event' \in {"none", "CONNECTED", "UP", "ERROR", "ERROR_CLOSED"}
            BY <1>2 DEF BSocksClient_Init
        <3>4. /\ init' \in BOOLEAN /\ have_socks' \in BOOLEAN /\ socks_up' \in BOOLEAN
              /\ timer' \in BOOLEAN /\ have_server' \in BOOLEAN /\ got' \in Nat
              /\ ok' \in BOOLEAN /\ gw_ok' \in BOOLEAN
            BY <1>1, <1>2
        <3> QED
            BY <3>1, <3>2, <3>3, <3>4, <3>5 DEF SocksTypeOK
    <2>2. SocksAsserts' /\ ClientOrTimer'
        BY <1>1, <1>2 DEF BSocksClient_Init, SocksAsserts, ClientOrTimer
    <2>3. Aligned' /\ Equipped'
        BY <1>1, <1>2 DEF BSocksClient_Init, Aligned, Equipped, Whole, Sending, Receiving
    <2> QED
        BY <2>1, <2>2, <2>3 DEF IInv
<1>3. CASE /\ have_socks' = FALSE /\ timer' = TRUE
           /\ UNCHANGED <<socks, event, proxy, taken, ok, socks_up>>
    <2>1. SocksTypeOK'
        BY <1>1, <1>3 DEF SocksTypeOK, socks, proxy
    <2>2. SocksAsserts' /\ ClientOrTimer'
        BY <1>1, <1>3 DEF SocksAsserts, ClientOrTimer, socks
    <2>3. Aligned' /\ Equipped'
        BY <1>1, <1>3 DEF IInv, Aligned, Equipped, socks, Sending, Receiving
    <2> QED
        BY <2>1, <2>2, <2>3 DEF IInv
<1> QED
    BY <1>2, <1>3 DEF try_connect

LEMMA TimerInv == IInv /\ reconnect_timer_handler => IInv'
<1> SUFFICES ASSUME IInv, reconnect_timer_handler PROVE IInv'
    OBVIOUS
<1>1. ~have_socks /\ init /\ ~have_server /\ gw_ok = TRUE
    BY DEF IInv, ClientOrTimer, reconnect_timer_handler, SocksAsserts, SocksTypeOK
<1>2. init' = TRUE /\ have_server' = FALSE /\ got' = got /\ gw_ok' = TRUE /\ try_connect
    BY <1>1 DEF reconnect_timer_handler, IInv, SocksTypeOK
<1> QED
    BY <1>1, <1>2, ConnectInv

LEMMA InitAgainInv == IInv /\ SocksUdpGwClient_Init => IInv'
<1> SUFFICES ASSUME IInv, SocksUdpGwClient_Init PROVE IInv'
    OBVIOUS
<1>1. ~have_socks /\ ~timer /\ gw_ok = TRUE
    BY DEF IInv, ClientOrTimer, SocksUdpGwClient_Init, SocksAsserts, SocksTypeOK
<1>2. init' = TRUE /\ have_server' = FALSE /\ got' = got /\ gw_ok' = TRUE /\ try_connect
    BY <1>1 DEF SocksUdpGwClient_Init
<1> QED
    BY <1>1, <1>2, ConnectInv

LEMMA FreeInv == IInv /\ SocksUdpGwClient_Free => IInv'
<1> SUFFICES ASSUME IInv, SocksUdpGwClient_Free PROVE IInv'
    OBVIOUS
<1>1. SocksTypeOK /\ ok = TRUE /\ gw_ok = TRUE
    BY DEF IInv, SocksTypeOK, SocksAsserts
<1>2. init' = FALSE /\ timer' = FALSE /\ UNCHANGED <<event, taken>>
    BY DEF SocksUdpGwClient_Free
<1>3. CASE have_socks
    <2>1. free_socks(TRUE) /\ BSocksClient_Free(Whole(state, io)) /\ Whole(state, io)
        BY <1>3 DEF SocksUdpGwClient_Free, IInv, Equipped, ClientOrTimer
    <2>2. /\ state' = "none" /\ io' = "none" /\ buffer' = 0 /\ recv_len' = 0
          /\ recv_total' = 0 /\ continue_job' = FALSE /\ answer' = answer /\ sent' = sent
          /\ ok' = TRUE
        BY <1>1, <2>1 DEF BSocksClient_Free
    <2>3. /\ gw_ok' = TRUE /\ have_socks' = FALSE /\ got' = 0
          /\ socks_up' = socks_up /\ have_server' = FALSE
        BY <1>1, <1>3, <2>1 DEF free_socks, IInv, ClientOrTimer
    <2>4. SocksTypeOK'
        <3>1. state' \in State \cup {"none"} /\ io' \in {"none", "control", "up"}
              /\ buffer' \in 0..513 /\ recv_len' \in 0..18 /\ recv_total' \in 0..18
              /\ got' \in Nat
            BY <2>2, <2>3
        <3> QED
            BY <1>1, <1>2, <2>2, <2>3, <3>1 DEF SocksTypeOK
    <2>5. SocksAsserts' /\ ClientOrTimer'
        BY <1>2, <2>2, <2>3 DEF SocksAsserts, ClientOrTimer
    <2>6. Aligned' /\ Equipped'
        BY <2>2, <2>3 DEF Aligned, Equipped, Sending, Receiving
    <2> QED
        BY <2>4, <2>5, <2>6 DEF IInv
<1>4. CASE ~have_socks
    <2>1. UNCHANGED <<socks, proxy, ok, have_socks, socks_up, have_server, got, gw_ok>>
        BY <1>4 DEF SocksUdpGwClient_Free
    <2>2. state = "none"
        BY <1>4 DEF IInv, ClientOrTimer
    <2>3. SocksTypeOK'
        BY <1>1, <1>2, <2>1, ZenonT(60) DEF SocksTypeOK, socks, proxy
    <2>4. SocksAsserts' /\ ClientOrTimer'
        BY <1>1, <1>2, <1>4, <2>1 DEF IInv, SocksAsserts, ClientOrTimer, socks
    <2>5. Aligned' /\ Equipped'
        BY <2>1, <2>2 DEF IInv, Aligned, Equipped, socks, Sending, Receiving
    <2> QED
        BY <2>3, <2>4, <2>5 DEF IInv
<1> QED
    BY <1>3, <1>4

LEMMA ProxyInv == IInv /\ Proxy(Data) /\ UNCHANGED gw => IInv'
<1> SUFFICES ASSUME IInv, Proxy(Data), UNCHANGED gw PROVE IInv'
    OBVIOUS
<1>1. UNCHANGED <<socks, event, answer, taken, ok, gw>>
    BY DEF Proxy
<1>2. SocksTypeOK /\ answer \in Answer
    BY DEF IInv, SocksTypeOK
<1>3. sent' \in Nat
    <2>1. sent' \in {Hello, AuthEnd, HeaderEnd, HandshakeEnd}
                      \cup HandshakeEnd + 1 .. HandshakeEnd + Data
        BY DEF Proxy
    <2> QED
        BY <1>2, <2>1, Sizes, DataAssumption
<1>4. SocksTypeOK'
    BY <1>1, <1>2, <1>3 DEF SocksTypeOK, socks, gw
<1>5. SocksAsserts' /\ ClientOrTimer'
    BY <1>1 DEF IInv, SocksAsserts, ClientOrTimer, socks, gw
<1>6. Aligned' /\ Equipped'
    BY <1>1 DEF IInv, Aligned, Equipped, socks, gw, AuthEnd, HeaderEnd, HandshakeEnd,
                Whole, Offset
<1> QED
    BY <1>4, <1>5, <1>6 DEF IInv

-----------------------------------------------------------------------------
LEMMA InitInv == Init => IInv
<1> SUFFICES ASSUME Init PROVE IInv
    OBVIOUS
<1>1. buffer \in 0..513 /\ recv_len \in 0..18 /\ recv_total \in 0..18
    BY DEF Init
<1>2. SocksTypeOK
    BY <1>1 DEF Init, SocksTypeOK
<1> QED
    BY <1>2 DEF Init, IInv, SocksAsserts, ClientOrTimer, Aligned, Equipped, Sending, Receiving

LEMMA NextInv == IInv /\ [Next]_vars => IInv'
<1> SUFFICES ASSUME IInv, [Next]_vars PROVE IInv'
    OBVIOUS
<1>1. CASE Connector
    BY <1>1, ConnectorInv
<1>2. CASE Continue
    BY <1>2, ContinueInv
<1>3. CASE Connection
    BY <1>3, ConnectionInv
<1>4. CASE SendDone
    BY <1>4, SendDoneInv
<1>5. CASE RecvDone
    BY <1>5, RecvDoneInv
<1>6. CASE Receive
    BY <1>6, ReceiveInv
<1>7. CASE reconnect_timer_handler
    BY <1>7, TimerInv
<1>8. CASE udpgw_handler_servererror
    BY <1>8, ServerErrorInv
<1>9. CASE SocksUdpGwClient_Init
    BY <1>9, InitAgainInv
<1>10. CASE SocksUdpGwClient_Free
    BY <1>10, FreeInv
<1>11. CASE Proxy(Data) /\ UNCHANGED gw
    BY <1>11, ProxyInv
<1>12. CASE UNCHANGED vars
    <2>1. SocksTypeOK'
        BY <1>12 DEF IInv, vars, socks, proxy, gw, SocksTypeOK
    <2>2. SocksAsserts' /\ ClientOrTimer'
        BY <1>12 DEF IInv, vars, socks, proxy, gw, SocksAsserts, ClientOrTimer
    <2>3. Aligned' /\ Equipped'
        BY <1>12 DEF IInv, vars, socks, proxy, gw, Aligned, Equipped, AuthEnd, HeaderEnd,
                     HandshakeEnd, Whole, Offset
    <2> QED
        BY <2>1, <2>2, <2>3 DEF IInv
<1> QED
    BY <1>1, <1>2, <1>3, <1>4, <1>5, <1>6, <1>7, <1>8, <1>9, <1>10, <1>11, <1>12 DEF Next

LEMMA Invariance == Spec => []IInv
BY InitInv, NextInv, PTL DEF Spec

(* What the invariant says of the stream in the words of HandshakeBytes.    *)
LEMMA AlignedIsEnough == IInv => HandshakeBytes
<1> SUFFICES ASSUME IInv PROVE HandshakeBytes
    OBVIOUS
<1>1. /\ answer \in Answer /\ taken \in Nat
      /\ recv_len \in 0..18 /\ recv_total \in 0..18 /\ state \in State \cup {"none"}
    BY DEF IInv, SocksTypeOK
<1>2. state \in Receiving => recv_len < recv_total /\ Offset + recv_total <= buffer
    BY DEF IInv, Equipped
<1>3. /\ Hello = 2 /\ PasswordReply = 2 /\ ReplyHeader = 4
      /\ AuthEnd = (IF answer.method = "password" THEN 4 ELSE 2)
      /\ HeaderEnd = AuthEnd + 4 /\ AddrSize(answer.atyp) \in {1, 6, 18}
      /\ HandshakeEnd = HeaderEnd + AddrSize(answer.atyp)
    BY <1>1, Sizes
<1>4. state = "UP" => taken = HandshakeEnd + got
    BY DEF IInv, Aligned
<1>5. ASSUME state \in State \ {"UP"} PROVE taken <= HandshakeEnd
    <2>1. CASE state \in {"CONNECTING", "CONNECTED_HANDLER", "SENDING_HELLO"}
        BY <1>3, <2>1 DEF IInv, Aligned
    <2>2. CASE state = "SENT_HELLO"
        <3>1. taken = recv_len /\ recv_len < 2
            BY <1>2, <1>3, <2>2 DEF IInv, Aligned, Receiving
        <3> QED
            BY <1>1, <1>3, <3>1
    <2>3. CASE state = "SENDING_PASSWORD"
        BY <1>3, <2>3 DEF IInv, Aligned
    <2>4. CASE state = "SENT_PASSWORD"
        <3>1. taken = 2 + recv_len /\ recv_len < 2
            BY <1>2, <1>3, <2>4 DEF IInv, Aligned, Receiving
        <3> QED
            BY <1>1, <1>3, <3>1
    <2>5. CASE state = "SENDING_REQUEST"
        <3>1. taken = AuthEnd
            BY <2>5 DEF IInv, Aligned
        <3> QED
            BY <1>1, <1>3, <3>1
    <2>6. CASE state = "SENT_REQUEST"
        <3>1. taken = AuthEnd + recv_len /\ recv_len < 4
            BY <1>2, <1>3, <2>6 DEF IInv, Aligned, Receiving
        <3> QED
            BY <1>1, <1>3, <3>1
    <2>7. CASE state = "RECEIVED_REPLY_HEADER"
        <3>1. taken = HeaderEnd + recv_len /\ recv_len < AddrSize(answer.atyp)
            BY <1>2, <2>7 DEF IInv, Aligned, Receiving
        <3> QED
            BY <1>1, <1>3, <3>1
    <2> QED
        BY <1>5, <2>1, <2>2, <2>3, <2>4, <2>5, <2>6, <2>7 DEF State
<1> QED
    BY <1>2, <1>4, <1>5 DEF HandshakeBytes

-----------------------------------------------------------------------------
(* Every step is one of the contract's, or tells nothing.                   *)
LEMMA ErrorStep ==
    ASSUME NEW e, event' = e, state' = "none", state # "none",
           e = "ERROR" \/ (e = "ERROR_CLOSED" /\ state = "UP")
    PROVE  Promise!PromiseNext
<1>1. event' = e /\ Phase' = "none" /\ Phase # "none"
    BY DEF Phase
<1>2. CASE e = "ERROR"
    BY <1>1, <1>2 DEF Promise!PromiseNext, Promise!TellError
<1>3. CASE e = "ERROR_CLOSED" /\ state = "UP"
    BY <1>1, <1>3 DEF Promise!PromiseNext, Promise!TellClosed, Phase
<1> QED
    BY <1>2, <1>3

LEMMA FreeStep ==
    ASSUME state' = "none", event' = event, state # "none"
    PROVE  Promise!PromiseNext
BY DEF Phase, Promise!PromiseNext, Promise!FreeIt

LEMMA StartStep ==
    ASSUME IInv, ~have_socks, try_connect
    PROVE  Promise!PromiseNext \/ UNCHANGED <<Phase, event>>
<1>1. state = "none"
    BY DEF IInv, ClientOrTimer
<1>2. CASE BSocksClient_Init
    BY <1>1, <1>2 DEF BSocksClient_Init, Phase, Promise!PromiseNext, Promise!Start
<1>3. CASE UNCHANGED <<socks, event, proxy, taken, ok, socks_up>>
    BY <1>3 DEF socks, Phase
<1> QED
    BY <1>2, <1>3 DEF try_connect

LEMMA PromiseStep == IInv /\ [Next]_vars => [Promise!PromiseNext]_<<Phase, event>>
<1> SUFFICES ASSUME IInv, Next PROVE Promise!PromiseNext \/ UNCHANGED <<Phase, event>>
    BY DEF vars, socks, Phase
<1>0. state \in State \cup {"none"}
    BY DEF IInv, SocksTypeOK
<1>1. CASE Connector
    <2>1. state = "CONNECTING"
        BY <1>1 DEF Connector, connector_handler
    <2>2. CASE state' = "CONNECTED_HANDLER" /\ event' = "CONNECTED"
        BY <2>1, <2>2 DEF Phase, Promise!PromiseNext, Promise!TellConnected
    <2>3. CASE Error("ERROR", TRUE)
        <3>1. event' = "ERROR" /\ state' = "none" /\ state # "none"
            BY <2>1, <2>3 DEF Error, Fail, BSocksClient_Free
        <3> QED
            BY <3>1, ErrorStep
    <2> QED
        BY <1>1, <2>2, <2>3 DEF Connector, connector_handler
<1>2. CASE Continue
    <2>1. state = "CONNECTED_HANDLER"
        BY <1>2 DEF Continue, continue_job_handler, IInv, Equipped
    <2>2. CASE state' = "SENDING_HELLO" /\ event' = event
        BY <2>1, <2>2 DEF Phase
    <2>3. CASE Error("ERROR", state = "CONNECTED_HANDLER")
        <3>1. event' = "ERROR" /\ state' = "none" /\ state # "none"
            BY <2>1, <2>3 DEF Error, Fail, BSocksClient_Free
        <3> QED
            BY <3>1, ErrorStep
    <2> QED
        BY <1>2, <2>2, <2>3 DEF Continue, continue_job_handler
<1>3. CASE Connection
    <2>1. state \in State \ {"CONNECTING", "CONNECTED_HANDLER"} /\ state # "none"
        BY <1>3 DEF Connection, connection_handler, State
    <2>2. PICK closed \in BOOLEAN :
             Error(IF state = "UP" /\ closed THEN "ERROR_CLOSED" ELSE "ERROR", TRUE)
        BY <1>3 DEF Connection, connection_handler
    <2>3. PICK e : e = (IF state = "UP" /\ closed THEN "ERROR_CLOSED" ELSE "ERROR")
        OBVIOUS
    <2>4. event' = e /\ state' = "none" /\ (e = "ERROR" \/ (e = "ERROR_CLOSED" /\ state = "UP"))
        BY <2>2, <2>3 DEF Error, Fail, BSocksClient_Free
    <2> QED
        BY <2>1, <2>4, ErrorStep
<1>4. CASE SendDone
    <2>1. state \in Sending
        BY <1>4 DEF SendDone, send_handler_done
    <2>2. CASE Error("ERROR", buffer > 0)
        <3>1. event' = "ERROR" /\ state' = "none" /\ state # "none"
            BY <2>1, <2>2 DEF Error, Fail, BSocksClient_Free, Sending
        <3> QED
            BY <3>1, ErrorStep
    <2>3. CASE /\ state' \in {"SENT_HELLO", "SENT_PASSWORD", "SENT_REQUEST"} /\ event' = event
        BY <2>1, <2>3 DEF Phase, Sending
    <2> QED
        BY <1>4, <2>1, <2>2, <2>3 DEF SendDone, send_handler_done, Sending
<1>5. CASE RecvDone
    <2>1. PICK data_len \in 1..(recv_total - recv_len) :
             IF recv_len + data_len < recv_total
             THEN UNCHANGED <<state, event>>
             ELSE received_hello \/ received_password \/ received_reply_header
                  \/ received_reply_rest
        BY <1>5 DEF RecvDone, recv_handler_done
    <2>2. state \in Receiving /\ state # "none" /\ state # "UP" /\ state # "CONNECTING"
        BY <1>5 DEF RecvDone, recv_handler_done, Receiving
    <2>3. CASE Fail("ERROR", TRUE)
        <3>1. event' = "ERROR" /\ state' = "none"
            BY <2>3 DEF Fail, BSocksClient_Free
        <3> QED
            BY <2>2, <3>1, ErrorStep
    <2>4. CASE UNCHANGED <<state, event>>
        BY <2>4 DEF Phase
    <2>5. CASE /\ state' \in {"SENDING_PASSWORD", "SENDING_REQUEST", "RECEIVED_REPLY_HEADER"}
               /\ event' = event
        BY <2>2, <2>5 DEF Phase, Receiving
    <2>6. CASE received_reply_rest
        <3>1. event' = "UP" /\ state' \in {"UP", "none"}
            BY <2>6 DEF received_reply_rest, BSocksClient_Free, Told
        <3> QED
            BY <2>2, <3>1 DEF Phase, Receiving, Promise!PromiseNext, Promise!TellUp
    <2> QED
        BY <2>1, <2>3, <2>4, <2>5, <2>6 DEF received_hello, received_password,
           received_reply_header, auth_finished
<1>6. CASE Receive
    BY <1>6 DEF Receive, socks, Phase
<1>7. CASE reconnect_timer_handler
    BY <1>7, StartStep DEF reconnect_timer_handler, IInv, ClientOrTimer
<1>8. CASE udpgw_handler_servererror
    <2>2. state' = "none" /\ event' = event /\ state # "none"
        BY <1>8 DEF udpgw_handler_servererror, BSocksClient_Free, IInv, ClientOrTimer
    <2> QED
        BY <2>2, FreeStep
<1>9. CASE SocksUdpGwClient_Init
    BY <1>9, StartStep DEF SocksUdpGwClient_Init, IInv, ClientOrTimer
<1>10. CASE SocksUdpGwClient_Free
    <2>1. CASE have_socks
        <3>2. state' = "none" /\ event' = event /\ state # "none"
            BY <1>10, <2>1 DEF SocksUdpGwClient_Free, BSocksClient_Free, IInv, ClientOrTimer
        <3> QED
            BY <3>2, FreeStep
    <2>2. CASE ~have_socks
        BY <1>10, <2>2 DEF SocksUdpGwClient_Free, socks, Phase
    <2> QED
        BY <2>1, <2>2
<1>11. CASE Proxy(Data) /\ UNCHANGED gw
    BY <1>11 DEF Proxy, socks, Phase
<1> QED
    BY <1>1, <1>2, <1>3, <1>4, <1>5, <1>6, <1>7, <1>8, <1>9, <1>10, <1>11 DEF Next

-----------------------------------------------------------------------------
(* The variables of SocksUdpGwClient.c and BSocksClient.c have their types. *)
THEOREM SocksTypeCorrect == Spec => []SocksTypeOK
<1>1. IInv => SocksTypeOK
    BY DEF IInv
<1> QED
    BY <1>1, Invariance, PTL

(* No ASSERT of BSocksClient.c, SocksUdpGwClient.c or UdpGwClient.c that    *)
(* guards the connection can fail, and every free finds what it expects.    *)
THEOREM SocksAssertsHold == Spec => []SocksAsserts
<1>1. IInv => SocksAsserts
    BY DEF IInv
<1> QED
    BY <1>1, Invariance, PTL

(* SocksUdpGwClient always has one of the SOCKS client and the timer.       *)
THEOREM OneOfClientAndTimer == Spec => []ClientOrTimer
<1>1. IInv => ClientOrTimer
    BY DEF IInv
<1> QED
    BY <1>1, Invariance, PTL

(* recv_handler_done takes the proxy's answer and not a byte more, for      *)
(* every division of the stream into reads.                                *)
THEOREM HandshakeExact == Spec => []HandshakeBytes
BY AlignedIsEnough, Invariance, PTL

(* BSocksClient keeps the contract of its header: what SocksUdpGwClient     *)
(* hears is what SocksPromise allows.                                      *)
THEOREM PromiseKept == Spec => KeepsPromise
<1>1. Init => Promise!PromiseInit
    BY DEF Init, Promise!PromiseInit, Phase
<1> QED
    BY <1>1, PromiseStep, Invariance, PTL DEF Spec, KeepsPromise, Promise!Spec
=============================================================================
