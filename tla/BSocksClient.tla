---------------------------- MODULE BSocksClient ----------------------------
(***************************************************************************)
(* BSocksClient.c: connects to a SOCKS5 proxy and asks it for a connection. *)
(* Its user is told of events, and must free it in the handler that tells   *)
(* of an error: Error below does both.                                     *)
(*                                                                         *)
(* The proxy's answer is a run of bytes that the client takes off the       *)
(* stream in pieces of any size.  Of its content, answer tells what the     *)
(* client looks at; sent and taken count the bytes the proxy has written    *)
(* and the client has read.                                                *)
(***************************************************************************)
EXTENDS Integers

CONSTANTS
    auth_info,     \* the methods offered, of "none" and "password"
    PasswordSize,  \* of the password packet
    RequestSize    \* of the request, which depends on the address asked for

ASSUME SocksAssumption ==
    /\ auth_info \subseteq {"none", "password"} /\ auth_info # {}
    /\ PasswordSize \in 5..513 /\ RequestSize \in {10, 22}

VARIABLES
    state,         \* of the client, or "none" where there is no client
    io,            \* "control" or "up": the interfaces of con that are initialised
    buffer,        \* the size of buffer, 0 when it is NULL
    recv_len, recv_total,
    continue_job,  \* it is set
    event,         \* the last event this client has told
    answer, sent, taken,
    ok             \* no ASSERT has failed and nothing was freed that was not there

socks == <<state, io, buffer, recv_len, recv_total, continue_job>>
proxy == <<answer, sent>>

State == {"CONNECTING", "CONNECTED_HANDLER", "SENDING_HELLO", "SENT_HELLO",
          "SENDING_PASSWORD", "SENT_PASSWORD", "SENDING_REQUEST", "SENT_REQUEST",
          "RECEIVED_REPLY_HEADER", "UP"}
Receiving == {"SENT_HELLO", "SENT_PASSWORD", "SENT_REQUEST", "RECEIVED_REPLY_HEADER"}
Sending   == {"SENDING_HELLO", "SENDING_PASSWORD", "SENDING_REQUEST"}

(* sizeof of the structures of socks_proto.h.                              *)
Hello == 2
PasswordReply == 2
ReplyHeader == 4
AddrSize(atyp) == CASE atyp = "ipv4" -> 6 [] atyp = "ipv6" -> 18 [] OTHER -> 1

(* What a proxy may answer: "bad" has another version, "other" is a method  *)
(* or an address type that the client does not know.                       *)
Answer == [method : {"none", "password", "other", "bad"}, password : BOOLEAN,
           reply : BOOLEAN, atyp : {"ipv4", "ipv6", "other"}]
Granted == /\ answer.method \in auth_info /\ answer.reply /\ answer.atyp # "other"
           /\ answer.method = "password" => answer.password

(* Where the parts of the answer end in the stream; then follows data.      *)
AuthEnd == IF answer.method = "password" THEN Hello + PasswordReply ELSE Hello
HeaderEnd == AuthEnd + ReplyHeader
HandshakeEnd == HeaderEnd + AddrSize(answer.atyp)

-----------------------------------------------------------------------------
(* The client is made, and freed: what Free takes apart must be what there  *)
(* is, in the state and with the interfaces at that moment.                *)
BSocksClient_Init ==
    /\ state' = "CONNECTING" /\ io' = "none" /\ buffer' = 0
    /\ recv_len' = 0 /\ recv_total' = 0 /\ continue_job' = FALSE
    /\ event' = "none" /\ sent' = 0 /\ taken' = 0 /\ answer' \in Answer

Whole(stateNow, ioNow) ==
    ioNow = CASE stateNow = "CONNECTING" -> "none" [] stateNow = "UP" -> "up"
              [] OTHER -> "control"
BSocksClient_Free(assert) ==
    /\ ok' = (ok /\ assert)
    /\ state' = "none" /\ io' = "none" /\ buffer' = 0
    /\ recv_len' = 0 /\ recv_total' = 0 /\ continue_job' = FALSE
    /\ UNCHANGED <<answer, sent>>

start_receive(total) == recv_len' = 0 /\ recv_total' = total

(* The connection, the memory for a buffer and the method can all fail.  An *)
(* ASSERT made before is the second parameter.                             *)
Fail(e, assert) == event' = e /\ BSocksClient_Free(assert /\ Whole(state, io))
Error(e, assert) == Fail(e, assert) /\ UNCHANGED taken
connector_handler ==
    /\ state = "CONNECTING"
    /\ \/ /\ state' = "CONNECTED_HANDLER" /\ io' = "control" /\ continue_job' = TRUE
          /\ event' = "CONNECTED"
          /\ UNCHANGED <<buffer, recv_len, recv_total, taken, ok>> /\ UNCHANGED proxy
       \/ Error("ERROR", TRUE)

(* Mutant: a proxy that closes is always told as a close.                  *)
connection_handler_closed ==
    /\ state \in State \ {"CONNECTING", "CONNECTED_HANDLER"}
    /\ \E closed \in BOOLEAN :
          Error(IF closed THEN "ERROR_CLOSED" ELSE "ERROR", TRUE)
connection_handler ==
    /\ state \in State \ {"CONNECTING", "CONNECTED_HANDLER"}
    /\ \E closed \in BOOLEAN :
          Error(IF state = "UP" /\ closed THEN "ERROR_CLOSED" ELSE "ERROR", TRUE)

continue_job_handler ==
    /\ continue_job
    /\ \/ /\ state' = "SENDING_HELLO" /\ buffer' = 2 + (IF auth_info = {"none", "password"}
                                                       THEN 2 ELSE 1)
          /\ continue_job' = FALSE /\ ok' = (ok /\ state = "CONNECTED_HANDLER")
          /\ UNCHANGED <<io, recv_len, recv_total, event, taken>> /\ UNCHANGED proxy
       \/ Error("ERROR", state = "CONNECTED_HANDLER")

send_handler_done ==
    /\ state \in Sending
    /\ \/ /\ state' = CASE state = "SENDING_HELLO" -> "SENT_HELLO"
                        [] state = "SENDING_PASSWORD" -> "SENT_PASSWORD"
                        [] OTHER -> "SENT_REQUEST"
          /\ LET size == CASE state = "SENDING_HELLO" -> Hello
                           [] state = "SENDING_PASSWORD" -> PasswordReply
                           [] OTHER -> ReplyHeader
             IN  /\ start_receive(size)
                 /\ buffer' = IF state = "SENDING_REQUEST"
                              THEN ReplyHeader + AddrSize("ipv6") ELSE size
          /\ ok' = (ok /\ buffer > 0)
          /\ UNCHANGED <<io, continue_job, event, taken>> /\ UNCHANGED proxy
       \/ Error("ERROR", buffer > 0)

-----------------------------------------------------------------------------
(* recv_handler_done, when the last of recv_total bytes has come.           *)
auth_finished ==
    \/ /\ state' = "SENDING_REQUEST" /\ buffer' = RequestSize /\ recv_len' = recv_total
       /\ UNCHANGED <<io, continue_job, event, recv_total, ok>> /\ UNCHANGED proxy
    \/ Fail("ERROR", TRUE)

received_hello ==
    /\ state = "SENT_HELLO"
    /\ \/ answer.method = "none" /\ "none" \in auth_info /\ auth_finished
       \/ /\ answer.method = "password" /\ "password" \in auth_info
          /\ state' = "SENDING_PASSWORD" /\ buffer' = PasswordSize
          /\ recv_len' = recv_total
          /\ UNCHANGED <<io, continue_job, event, recv_total, ok>> /\ UNCHANGED proxy
       \/ (answer.method = "password" \/ answer.method \notin auth_info) /\ Fail("ERROR", TRUE)

received_password ==
    /\ state = "SENT_PASSWORD"
    /\ \/ answer.password /\ auth_finished
       \/ ~answer.password /\ Fail("ERROR", TRUE)

(* Mutants: every address has the length of the short one; the length is    *)
(* that of the whole reply.                                                *)
received_reply_header_short ==
    /\ state = "SENT_REQUEST" /\ answer.reply /\ answer.atyp # "other"
    /\ state' = "RECEIVED_REPLY_HEADER" /\ start_receive(AddrSize("ipv4"))
    /\ UNCHANGED <<io, buffer, continue_job, event, ok>> /\ UNCHANGED proxy
received_reply_header_whole ==
    /\ state = "SENT_REQUEST" /\ answer.reply /\ answer.atyp # "other"
    /\ state' = "RECEIVED_REPLY_HEADER"
    /\ start_receive(ReplyHeader + AddrSize(answer.atyp))
    /\ UNCHANGED <<io, buffer, continue_job, event, ok>> /\ UNCHANGED proxy
received_reply_header ==
    /\ state = "SENT_REQUEST"
    /\ \/ /\ answer.reply /\ answer.atyp # "other"
          /\ state' = "RECEIVED_REPLY_HEADER" /\ start_receive(AddrSize(answer.atyp))
          /\ UNCHANGED <<io, buffer, continue_job, event, ok>> /\ UNCHANGED proxy
       \/ (~answer.reply \/ answer.atyp = "other") /\ Fail("ERROR", TRUE)

(* The last part.  What the user is told of, who may free the client at     *)
(* once: it is this that Free then takes apart.  Mutant: the state is set   *)
(* after the user is told.                                                 *)
Told_early == [state |-> state, io |-> "up", buffer |-> 0]
Told == [state |-> "UP", io |-> "up", buffer |-> 0]
received_reply_rest ==
    /\ state = "RECEIVED_REPLY_HEADER" /\ event' = "UP"
    /\ \/ /\ state' = Told.state /\ io' = Told.io /\ buffer' = Told.buffer
          /\ recv_len' = recv_total
          /\ UNCHANGED <<recv_total, continue_job, ok>> /\ UNCHANGED proxy
       \/ BSocksClient_Free(Whole(Told.state, Told.io))

recv_handler_done ==
    /\ state \in Receiving
    /\ \E data_len \in 1..(recv_total - recv_len) :
          /\ taken + data_len <= sent /\ taken' = taken + data_len
          /\ IF recv_len + data_len < recv_total
             THEN /\ recv_len' = recv_len + data_len
                  /\ UNCHANGED <<state, io, buffer, recv_total, continue_job, event, ok>>
                  /\ UNCHANGED proxy
             ELSE received_hello \/ received_password \/ received_reply_header
                  \/ received_reply_rest

-----------------------------------------------------------------------------
(* The proxy writes the parts of its answer, and then Data bytes at most.   *)
Proxy(Data) ==
    /\ state # "none"
    /\ sent' \in {Hello, AuthEnd, HeaderEnd, HandshakeEnd}
                   \cup HandshakeEnd + 1 .. HandshakeEnd + Data
    /\ sent' > sent
    /\ UNCHANGED socks /\ UNCHANGED <<event, answer, taken, ok>>
=============================================================================
