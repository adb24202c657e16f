------------------------------ MODULE UdpGwClient ------------------------------
(***************************************************************************)
(* UdpGwClient.c: the flows of UDP packets that tun2socks multiplexes over  *)
(* one TCP connection to the udpgw server.  A flow has a conid; at the limit *)
(* a new one takes over that of the least recently used, and its packet is  *)
(* marked REBIND.                                                          *)
(***************************************************************************)
EXTENDS Integers, SequencesExt, BPending

CONSTANTS
    Locals, Remotes,      \* addresses; startTun2socks leaves is_dns at 0
    max_connections,
    send_buffer_size      \* packets that wait for the server, per flow

ASSUME ClientAssumption ==
    max_connections \in Nat \ {0} /\ send_buffer_size \in Nat \ {0}

VARIABLES
    connections_list,     \* the flows, the least recently used first
    next_conid,
    jobs                  \* those of a new flow, with that of the read buffer

cvars == <<connections_list, next_conid, jobs>>

Conid == 0..max_connections - 1
(* History, which no code reads: turn numbers the flows that have had the   *)
(* conid; lost, the packet that rebinds it for this one was dropped;       *)
(* answered, this one has been given a reply to a packet of its own.       *)
Packet == [conid : Conid, rebind : BOOLEAN, remote : Remotes, turn : Nat]
Flow == [conid : Conid, local : Locals, remote : Remotes, out : Seq(Packet),
         turn : Nat, lost : BOOLEAN, answered : BOOLEAN]

ClientInit == connections_list = <<>> /\ next_conid = 0 /\ jobs = <<>>

(* Put a packet in the buffer of the flow, or drop it.                      *)
connection_send(con, rebind, ready) ==
    LET packet == [conid |-> con.conid, rebind |-> rebind,
                   remote |-> con.remote, turn |-> con.turn]
    IN  IF ready /\ Len(con.out) < send_buffer_size
        THEN [con EXCEPT !.out = Append(@, packet), !.lost = @ /\ ~rebind]
        ELSE [con EXCEPT !.lost = @ \/ rebind]

ToEnd(list, i, con) == Append(RemoveAt(list, i), con)

Unused == Conid \ {connections_list[i].conid : i \in DOMAIN connections_list}
(* The search from next_conid on ends at c.  Mutant: it does not search.    *)
find_unused_conid_next(c) == c = next_conid
find_unused_conid(c) ==
    /\ c \in Unused
    /\ \A d \in Unused : (c - next_conid) % max_connections <= (d - next_conid) % max_connections

(* A job set later runs earlier: the buffer of the flow is ready before the *)
(* first packet is put in it, and that before the read buffer the packet is *)
(* still in is read into again.  Mutant: the flow is made first.            *)
NewFlowJobs_late == Set(Set(Set(<<>>, "read"), "ready"), "first")
NewFlowJobs == Set(Set(Set(<<>>, "read"), "first"), "ready")

(* There may be no memory for the flow, or, once it has a conid, its queue. *)
connection_init(local, remote) ==
    \/ UNCHANGED cvars
    \/ \E c \in Conid :
          /\ find_unused_conid(c) /\ next_conid' = c
          /\ \/ connections_list' = Append(connections_list,
                    [conid |-> c, local |-> local, remote |-> remote, out |-> <<>>,
                     turn |-> 0, lost |-> FALSE, answered |-> FALSE])
                /\ jobs' = NewFlowJobs
             \/ UNCHANGED <<connections_list, jobs>>

Of(local, remote) == {i \in DOMAIN connections_list :
    connections_list[i].local = local /\ connections_list[i].remote = remote}

TakenOver(con, local, remote) ==
    [con EXCEPT !.local = local, !.remote = remote, !.turn = @ + 1, !.answered = FALSE]
(* Mutant: the packet of a reused connection is like any other.             *)
reuse_connection_quietly(local, remote) ==
    connections_list' = ToEnd(connections_list, 1,
        connection_send(TakenOver(connections_list[1], local, remote), FALSE, TRUE))
reuse_connection(local, remote) ==
    connections_list' = ToEnd(connections_list, 1,
        connection_send(TakenOver(connections_list[1], local, remote), TRUE, TRUE))

UdpGwClient_SubmitPacket(local, remote) ==
    /\ jobs = <<>>
    /\ \/ /\ \E i \in Of(local, remote) :
                 connections_list' = ToEnd(connections_list, i,
                                           connection_send(connections_list[i], FALSE, TRUE))
          /\ UNCHANGED <<next_conid, jobs>>
       \/ /\ Of(local, remote) = {} /\ Len(connections_list) = max_connections
          /\ reuse_connection(local, remote)
          /\ UNCHANGED <<next_conid, jobs>>
       \/ /\ Of(local, remote) = {} /\ Len(connections_list) < max_connections
          /\ connection_init(local, remote)

ClientJob ==
    /\ jobs # <<>> /\ jobs' = Tail(jobs) /\ UNCHANGED next_conid
    /\ LET last == Len(connections_list)
       IN  connections_list' = IF Head(jobs) # "first" THEN connections_list
              ELSE [connections_list EXCEPT ![last] =
                       connection_send(@, TRUE, ~IsSet(jobs, "ready"))]

(* The queue hands the first packet of a flow to the connection.            *)
Transmit(i) ==
    /\ jobs = <<>> /\ connections_list[i].out # <<>>
    /\ connections_list' = [connections_list EXCEPT ![i].out = Tail(@)]
    /\ UNCHANGED <<next_conid, jobs>>

(* A reply for an unknown conid or of another address is dropped.           *)
recv_interface_handler_send(reply) ==
    /\ jobs = <<>> /\ UNCHANGED <<next_conid, jobs>>
    /\ LET found == {i \in DOMAIN connections_list :
               connections_list[i].conid = reply.conid /\ connections_list[i].remote = reply.remote}
       IN  \/ found = {} /\ UNCHANGED connections_list
           \/ \E i \in found :
                  connections_list' = ToEnd(connections_list, i,
                      [connections_list[i] EXCEPT
                          !.answered = @ \/ reply.turn = connections_list[i].turn])

(* The reactor may be told to quit before any job.                         *)
UdpGwClient_Free == connections_list' = <<>> /\ next_conid' = 0 /\ jobs' = <<>>

(* The flows are within the limit, and neither conid nor addresses repeat.  *)
ClientTypeOK ==
    /\ connections_list \in Seq(Flow) /\ Len(connections_list) <= max_connections
    /\ next_conid \in Conid /\ jobs \in Seq({"ready", "first", "read"})
    /\ \A i, j \in DOMAIN connections_list : i # j =>
           LET a == connections_list[i]  b == connections_list[j]
           IN  a.conid # b.conid /\ (a.local # b.local \/ a.remote # b.remote)
=============================================================================
