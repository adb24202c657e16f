--------------------------- MODULE LightsocksProxy ---------------------------
(***************************************************************************)
(* One connection of lightsocks_android_server.cpp: src_bev towards the     *)
(* client (tun2socks), and dst_filter_bev over dst_bev towards the server.  *)
(* libevent runs one callback at a time, in any order; its write callbacks  *)
(* drain an output buffer bit by bit, as fast as the peer reads.           *)
(*                                                                         *)
(* The server shares the table: fromServer is what it sends before it       *)
(* encrypts it, and Understood(toServer) what it reads.                    *)
(***************************************************************************)
EXTENDS Integers, Sequences

CONSTANTS
    Byte,         \* the bytes of the model, 0 .. n
    encrypt_vec,  \* the substitution table, a permutation of Byte
    ReadMax,      \* bound: bytes one read callback moves
    MaxUp,        \* bound: bytes the client sends on a connection
    MaxDown       \* bound: bytes the server sends on a connection

ASSUME TableAssumption ==
    /\ encrypt_vec \in [Byte -> Byte]
    /\ \A a, b \in Byte : encrypt_vec[a] = encrypt_vec[b] => a = b
    /\ \A b \in Byte : \E a \in Byte : encrypt_vec[a] = b

ASSUME BoundsAssumption ==
    Byte # {} /\ ReadMax \in Nat /\ MaxUp \in Nat /\ MaxDown \in Nat

VARIABLES
    src,        \* src_bev: "none" or "open"
    dst,        \* dst_bev: "none", "connecting", "unreachable" or "open"
    dst_output, \* encrypted bytes in the output buffer of dst_bev
    src_output, \* decrypted bytes in the output buffer of src_bev
    fromClient, fromServer, \* bytes read from either peer, in the clear
    toServer, toClient,     \* bytes written to either peer
    cause       \* what closed the last connection: <<end, event>>, or <<>>

proxyVars == <<src, dst, dst_output, src_output,
               fromClient, fromServer, toServer, toClient, cause>>

(* decrypt_vec is filled with encrypt_vec's inverse when it is constructed. *)
(* Mutant: the positions are counted from one.                             *)
encrypt(b) == encrypt_vec[b]
decrypt_from_one(b) == 1 + CHOOSE a \in Byte : encrypt_vec[a] = b
decrypt(b) == CHOOSE a \in Byte : encrypt_vec[a] = b

(* The filters rewrite every byte that passes, in either direction.        *)
(* Mutant: the outgoing filter passes the bytes on as they are.            *)
dest_filter_out_clear(s) == s
dest_filter_out(s) == [i \in 1..Len(s) |-> encrypt(s[i])]
dest_filter_in(s)  == [i \in 1..Len(s) |-> decrypt(s[i])]

(* What the lightsocks server sends for s, and makes of what it receives.  *)
Wire(s)       == [i \in 1..Len(s) |-> encrypt(s[i])]
Understood(s) == [i \in 1..Len(s) |-> decrypt(s[i])]

Chunks(bound) == UNION {[1..k -> Byte] : k \in 1..bound}
Least(a, b) == IF a <= b THEN a ELSE b

-----------------------------------------------------------------------------
Init ==
    /\ src = "none" /\ dst = "none"
    /\ dst_output = <<>> /\ src_output = <<>>
    /\ fromClient = <<>> /\ fromServer = <<>>
    /\ toServer = <<>> /\ toClient = <<>>
    /\ cause = <<>>

(* bufferevent_socket_connect may fail at once: that is only logged.        *)
proxy_listener_cb ==
    /\ src = "none"
    /\ src' = "open" /\ dst' \in {"connecting", "unreachable"}
    /\ dst_output' = <<>> /\ src_output' = <<>>
    /\ fromClient' = <<>> /\ fromServer' = <<>>
    /\ toServer' = <<>> /\ toClient' = <<>>
    /\ cause' = <<>>

(* BEV_EVENT_CONNECTED: proxy_event_cb ignores it.                         *)
Connected ==
    /\ dst = "connecting" /\ dst' = "open"
    /\ UNCHANGED <<src, dst_output, src_output, fromClient, fromServer,
                   toServer, toClient, cause>>

(* Data is taken from the client whether or not the server is connected.   *)
src_read_cb ==
    /\ src = "open"
    /\ \E s \in Chunks(Least(ReadMax, MaxUp - Len(fromClient))) :
          /\ fromClient' = fromClient \o s
          /\ dst_output' = dst_output \o dest_filter_out(s)
    /\ UNCHANGED <<src, dst, src_output, fromServer, toServer, toClient, cause>>

dst_read_cb ==
    /\ dst = "open"
    /\ \E s \in Chunks(Least(ReadMax, MaxDown - Len(fromServer))) :
          /\ fromServer' = fromServer \o s
          /\ src_output' = src_output \o dest_filter_in(Wire(s))
    /\ UNCHANGED <<src, dst, dst_output, fromClient, toServer, toClient, cause>>

(* libevent's own write callbacks.                                         *)
WriteServer ==
    /\ dst = "open"
    /\ \E n \in 1..Len(dst_output) :
          /\ toServer' = toServer \o SubSeq(dst_output, 1, n)
          /\ dst_output' = SubSeq(dst_output, n + 1, Len(dst_output))
    /\ UNCHANGED <<src, dst, src_output, fromClient, fromServer, toClient, cause>>

WriteClient ==
    /\ src = "open"
    /\ \E n \in 1..Len(src_output) :
          /\ toClient' = toClient \o SubSeq(src_output, 1, n)
          /\ src_output' = SubSeq(src_output, n + 1, Len(src_output))
    /\ UNCHANGED <<src, dst, dst_output, fromClient, fromServer, toServer, cause>>

(* Mutant: only the bufferevent of the event is freed.                     *)
proxy_event_cb_one(end, event) ==
    /\ IF end = "client" THEN src' = "none" /\ dst' = dst
                         ELSE dst' = "none" /\ src' = src
    /\ cause' = <<end, event>>
    /\ UNCHANGED <<dst_output, src_output, fromClient, fromServer,
                   toServer, toClient>>

(* EOF and ERROR free both ends, whatever their output buffers hold.       *)
proxy_event_cb(end, event) ==
    /\ src' = "none" /\ dst' = "none"
    /\ dst_output' = <<>> /\ src_output' = <<>>
    /\ cause' = <<end, event>>
    /\ UNCHANGED <<fromClient, fromServer, toServer, toClient>>

ClientEvent == src = "open" /\ \E event \in {"EOF", "ERROR"} :
                                  proxy_event_cb("client", event)
ServerEvent ==
    \/ dst = "connecting" /\ proxy_event_cb("server", "ERROR")
    \/ dst = "open" /\ \E event \in {"EOF", "ERROR"} :
                          proxy_event_cb("server", event)

Next ==
    \/ proxy_listener_cb \/ Connected
    \/ src_read_cb \/ dst_read_cb \/ WriteServer \/ WriteClient
    \/ ClientEvent \/ ServerEvent

Spec == Init /\ [][Next]_proxyVars

-----------------------------------------------------------------------------
ProxyTypeOK ==
    /\ src \in {"none", "open"}
    /\ dst \in {"none", "connecting", "unreachable", "open"}
    /\ dst_output \in Seq(Byte) /\ src_output \in Seq(Byte)
    /\ fromClient \in Seq(Byte) /\ fromServer \in Seq(Byte)
    /\ toServer \in Seq(Byte) /\ toClient \in Seq(Byte)
    /\ cause \in {<<>>} \cup ({"client", "server"} \X {"EOF", "ERROR"})

(* Neither bufferevent outlives the other: the callbacks of one take the    *)
(* other as their argument, and would use it after it was freed.           *)
EndsTogether == src = "none" <=> dst = "none"

(* While a connection lives, both directions carry the bytes of the one     *)
(* peer to the other, whole, in order, and encrypted on the server's side, *)
(* except for what still waits in an output buffer.                        *)
RelayedSoFar ==
    src = "open" =>
        /\ Understood(toServer \o dst_output) = fromClient
        /\ toClient \o src_output = fromServer

(* A direction is open as long as the connection; the proxy frees both ends *)
(* at once and so promises of neither that it has ended whole.  Positions    *)
(* says which of the bytes of in each byte of out is.                      *)
ProxyState ==
    IF src = "open" THEN "open" ELSE IF cause = <<>> THEN "idle" ELSE "cut"
Positions(out, in) ==
    [i \in 1..Len(out) |-> IF i <= Len(in) /\ out[i] = in[i] THEN i ELSE 0]

R == INSTANCE Relay WITH
        upIn <- Len(fromClient), upOut <- Positions(Understood(toServer), fromClient),
        downIn <- Len(fromServer), downOut <- Positions(toClient, fromServer),
        up <- ProxyState, down <- ProxyState

(* The proxy is a relay, too: what either peer is given is, byte for byte    *)
(* and from its start, what the other sent, never taken back or repeated,  *)
(* and nothing moves once the connection has ended, whoever ended it and   *)
(* whatever was still on its way.                                          *)
ProxyImplementsRelay == R!RelaySpec

(* "decrypt the data when receive data and send back to client": when the  *)
(* server ends its stream in order, the client is sent all of it.          *)
ReceivedDataSentBack ==
    cause = <<"server", "EOF">> => toClient = fromServer
=============================================================================
