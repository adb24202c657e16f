--------------------------------- MODULE UdpGw ---------------------------------
(***************************************************************************)
(* UdpGwClient and the udpgw server over the TCP connections the SOCKS proxy *)
(* makes for them, one after the other.  What is on its way is lost with    *)
(* its connection, and the packet that is half written is sent again whole; *)
(* the server reads on from the old connection until it is told of its end. *)
(***************************************************************************)
EXTENDS UdpGwClient, UdpGwServer

CONSTANTS MaxPackets, MaxReplies,   \* bounds on what the device and the remotes send
          InFlight                  \* and on what a connection holds

VARIABLES
    link,            \* the client's connection, or 0
    links, accepted, \* how many there have been, and the server has accepted
    up, down,        \* what is on its way in each
    packets, replies

vars == <<cvars, svars, link, links, accepted, up, down, packets, replies>>
net == <<link, links, accepted, up, down>>

MaxLinks == Cardinality(Clients)
ASSUME UdpGwAssumption ==
    /\ MaxPackets \in Nat /\ MaxReplies \in Nat /\ InFlight \in Nat
    /\ IsFiniteSet(Clients) /\ Clients = 1..MaxLinks

Init == /\ ClientInit /\ ServerInit
        /\ link = 0 /\ links = 0 /\ accepted = 0 /\ packets = 0 /\ replies = 0
        /\ up = [n \in Clients |-> <<>>] /\ down = [n \in Clients |-> <<>>]

Submit(local, remote) ==
    /\ packets < MaxPackets /\ packets' = packets + 1
    /\ UdpGwClient_SubmitPacket(local, remote)
    /\ UNCHANGED <<svars, net, replies>>
RunClientJob == ClientJob /\ UNCHANGED <<svars, net, packets, replies>>

(* SocksUdpGwClient connects, and disconnects on any error.                 *)
UdpGwClient_ConnectServer ==
    /\ jobs = <<>> /\ link = 0 /\ links < MaxLinks
    /\ link' = links + 1 /\ links' = links + 1
    /\ UNCHANGED <<cvars, svars, accepted, up, down, packets, replies>>
Hangup == /\ link' = 0
          /\ down' = IF link = 0 THEN down ELSE [down EXCEPT ![link] = <<>>]
          /\ UNCHANGED <<svars, links, accepted, up, packets, replies>>
UdpGwClient_DisconnectServer == jobs = <<>> /\ link # 0 /\ Hangup /\ UNCHANGED cvars
Free == UdpGwClient_Free /\ Hangup

Send(i) ==
    /\ link # 0 /\ Len(up[link]) < InFlight /\ Transmit(i)
    /\ up' = [up EXCEPT ![link] = Append(@, Head(connections_list[i].out))]
    /\ UNCHANGED <<svars, link, links, accepted, down, packets, replies>>
Receive(n) ==
    /\ up[n] # <<>> /\ up' = [up EXCEPT ![n] = Tail(@)]
    /\ client_recv_if_handler_send(n, Head(up[n]))
    /\ UNCHANGED <<cvars, link, links, accepted, down, packets, replies>>

(* The kernel drops what comes for a connection the client has closed.      *)
SendReply(i) ==
    /\ SendDone(i)
    /\ LET n == cons[i].client
           reply == [conid |-> cons[i].conid, remote |-> cons[i].addr, turn |-> cons[i].owner]
       IN  down' = IF n = link THEN [down EXCEPT ![n] = Append(@, reply)] ELSE down
    /\ UNCHANGED <<cvars, link, links, accepted, up, packets, replies>>
ReceiveReply ==
    /\ link # 0 /\ down[link] # <<>> /\ down' = [down EXCEPT ![link] = Tail(@)]
    /\ recv_interface_handler_send(Head(down[link]))
    /\ UNCHANGED <<svars, link, links, accepted, up, packets, replies>>

(* At the limit of clients, or without memory, the connection is closed.    *)
Accept ==
    /\ accepted < links /\ accepted' = accepted + 1
    /\ \/ listener_handler(accepted + 1)
       \/ Quiet /\ UNCHANGED svars
    /\ UNCHANGED <<cvars, link, links, up, down, packets, replies>>
FreeClient(n) ==
    /\ client_free(n) /\ up' = [up EXCEPT ![n] = <<>>]
    /\ UNCHANGED <<cvars, link, links, accepted, down, packets, replies>>
Udp(i) ==
    /\ replies < MaxReplies /\ replies' = replies + 1
    /\ connection_udp_recv_if_handler_send(i)
    /\ UNCHANGED <<cvars, net, packets>>
Server ==
    /\ \/ ServerJob
       \/ \E i \in DOMAIN cons : StartSend(i) \/ connection_dgram_handler_event(i)
    /\ UNCHANGED <<cvars, net, packets, replies>>

Next ==
    \/ RunClientJob \/ Server \/ UdpGwClient_ConnectServer \/ UdpGwClient_DisconnectServer \/ Free
    \/ ReceiveReply \/ Accept
    \/ \E local \in Locals, remote \in Remotes : Submit(local, remote)
    \/ \E i \in DOMAIN connections_list : Send(i)
    \/ \E n \in Clients : Receive(n) \/ FreeClient(n)
    \/ \E i \in DOMAIN cons : Udp(i) \/ SendReply(i)

Spec == Init /\ [][Next]_vars

-----------------------------------------------------------------------------
(* The tables of both sides have their types, are within their limits, and  *)
(* their keys do not repeat: a conid is of one flow, and one flow has it.   *)
UdpGwTypeOK ==
    /\ ClientTypeOK /\ ServerTypeOK
    /\ link \in 0..links /\ accepted \in 0..links /\ links \in 0..MaxLinks
    /\ up \in [Clients -> Seq(Packet)]
    /\ down \in [Clients -> Seq([conid : Conid, remote : Remotes, turn : Nat])]

(* The first packet of a flow, which is still in the read buffer, is put in *)
(* its queue when that has become ready and before the buffer is read into, *)
(* at both ends: it is neither lost nor overwritten.                       *)
FirstFits ==
    \A js \in {jobs, sjobs} :
        js # <<>> /\ Head(js) = "first" => ~IsSet(js, "ready") /\ IsSet(js, "read")

(* Whose replies a flow is given.  Once the packet that rebinds its conid is *)
(* through, unless there was no room for it, the server has a socket of the *)
(* conid only if a packet of this flow opened it.  Replies to the flow that *)
(* had the conid before may still be on their way, and this flow is given   *)
(* those of its remote, but only before the first reply to itself.          *)
Rebinding(con) ==
    \/ con.lost
    \/ \E queue \in {con.out, up[link]} : \E k \in DOMAIN queue :
           queue[k].conid = con.conid /\ queue[k].rebind
OwnSocket(con) == \A j \in Open(cons, link) : cons[j].conid = con.conid => cons[j].owner = con.turn
OwnReplies(con) ==
    \A k \in DOMAIN down[link] :
        down[link][k].conid = con.conid => down[link][k].turn = con.turn
RightOwner ==
    link # 0 /\ jobs = <<>> =>
        \A i \in DOMAIN connections_list :
            LET con == connections_list[i]
            IN  (~Rebinding(con) => OwnSocket(con)) /\ (con.answered => OwnReplies(con))
=============================================================================
