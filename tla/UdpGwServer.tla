------------------------------ MODULE UdpGwServer ------------------------------
(***************************************************************************)
(* udpgw.c: the server that sends the packets of its clients from a UDP     *)
(* socket for each conid and multiplexes what the sockets receive.         *)
(***************************************************************************)
EXTENDS Integers, SequencesExt, BPending

CONSTANTS
    Clients,                      \* accepted connections
    max_clients, max_connections_for_client,
    local_udp_num_ports,          \* of --local-udp-addrs, or -1
    unique_local_ports, Host,     \* with the option, remotes of one host count as one
    CONNECTION_CLIENT_BUFFER_SIZE

ASSUME ServerAssumption ==
    /\ max_clients \in Nat \ {0} /\ max_connections_for_client \in Nat \ {0}
    /\ local_udp_num_ports \in Nat \cup {-1} /\ unique_local_ports \in BOOLEAN
    /\ CONNECTION_CLIENT_BUFFER_SIZE \in Nat \ {0}

VARIABLES
    clients,
    cons,     \* the connections of all of them, the least recently used first
    sjobs     \* those of a new connection, with that of the decoder

svars == <<clients, cons, sjobs>>

ServerInit == clients = {} /\ cons = <<>> /\ sjobs = <<>>

Open(s, n) == {i \in DOMAIN s : s[i].client = n /\ ~s[i].closing}
Busy(n)    == {i \in DOMAIN cons : cons[i].client = n /\ cons[i].busy}
Waiting(n) == {i \in DOMAIN cons : cons[i].client = n /\ cons[i].out > 0}

(* The jobs have run: no client has a packet to send and sends none.        *)
Quiet == sjobs = <<>> /\ \A n \in clients : Waiting(n) # {} => Busy(n) # {}

(* While its packet is being sent a connection cannot be freed: it is kept  *)
(* aside and has no conid and no socket any more.  Mutant: it is always kept. *)
connection_close_later(s, i) == [s EXCEPT ![i].closing = TRUE]
connection_close(s, i) ==
    IF s[i].busy THEN [s EXCEPT ![i].closing = TRUE] ELSE RemoveAt(s, i)

Touch(s, i) == Append(RemoveAt(s, i), s[i])

SameAddr(a, b) == IF unique_local_ports THEN Host[a] = Host[b] ELSE a = b
(* The open connections that hold a port that a new one to addr cannot use. *)
(* Mutant: only those of the same client.                                  *)
PortUsers_client(s, addr, n) ==
    {i \in DOMAIN s : /\ ~s[i].closing /\ s[i].local_port_index >= 0
                      /\ SameAddr(s[i].addr, addr) /\ s[i].client = n}
PortUsers(s, addr, n) ==
    {i \in DOMAIN s : ~s[i].closing /\ s[i].local_port_index >= 0 /\ SameAddr(s[i].addr, addr)}

(* The ports are tried in order, and bind may fail; then that of the least  *)
(* recently used connection that can be freed at once.  Without a port it   *)
(* goes on with one of the system.                                         *)
NewConnection(s, con) ==
    LET users == PortUsers(s, con.addr, con.client)
        free  == 0..local_udp_num_ports - 1 \ {s[i].local_port_index : i \in users}
        idle  == {i \in users : ~s[i].busy}
        less  == connection_close(s, Min(idle))
        Made(list, ports) ==
            /\ \E port \in ports : cons' = Append(list, [con EXCEPT !.local_port_index = port])
            /\ sjobs' = Set(Set(Set(<<>>, "read"), "first"), "ready")
        Failed(list) == cons' = list /\ UNCHANGED sjobs
    IN  \/ Made(s, free \cup {-1}) \/ Failed(s)
        \/ idle # {} /\ (Made(less, {s[Min(idle)].local_port_index, -1}) \/ Failed(less))

(* Close the connection of the conid when the client has rebound it, make   *)
(* it when there is none; at the limit the least recently used goes.        *)
client_recv_if_handler_send(n, packet) ==
    /\ Quiet /\ n \in clients /\ UNCHANGED clients
    /\ LET found == {i \in Open(cons, n) : cons[i].conid = packet.conid}
           stale == {i \in found : packet.rebind \/ cons[i].addr # packet.remote}
           Create(s) ==
               LET full == Cardinality(Open(s, n)) = max_connections_for_client
                   room == IF full THEN connection_close(s, Min(Open(s, n))) ELSE s
               IN  NewConnection(room, [client |-> n, conid |-> packet.conid,
                          addr |-> packet.remote, owner |-> packet.turn,
                          local_port_index |-> -1, out |-> 0, busy |-> FALSE, closing |-> FALSE])
       IN  \/ found = {} /\ Create(cons)
           \/ \E i \in stale : Create(connection_close(cons, i))
           \/ \E i \in found \ stale : cons' = Touch(cons, i) /\ UNCHANGED sjobs

ServerJob ==
    /\ sjobs # <<>> /\ sjobs' = Tail(sjobs) /\ UNCHANGED clients
    /\ cons' = IF Head(sjobs) = "first" THEN Touch(cons, Len(cons)) ELSE cons

(* A packet for the socket of a connection; without room it is dropped.     *)
connection_udp_recv_if_handler_send(i) ==
    /\ Quiet /\ ~cons[i].closing /\ UNCHANGED <<clients, sjobs>>
    /\ cons' = Append(RemoveAt(cons, i),
           IF cons[i].out < CONNECTION_CLIENT_BUFFER_SIZE
           THEN [cons[i] EXCEPT !.out = @ + 1] ELSE cons[i])

connection_dgram_handler_event(i) ==
    /\ Quiet /\ ~cons[i].closing /\ UNCHANGED <<clients, sjobs>>
    /\ cons' = connection_close(cons, i)

(* The queue of the client sends one packet at a time.                      *)
StartSend(i) ==
    /\ sjobs = <<>> /\ cons[i].out > 0 /\ Busy(cons[i].client) = {}
    /\ cons' = [cons EXCEPT ![i].busy = TRUE] /\ UNCHANGED <<clients, sjobs>>

(* It is sent; a connection that was closed meanwhile is freed.             *)
connection_send_qflow_busy_handler(i) == cons' = RemoveAt(cons, i)
SendDone(i) ==
    /\ Quiet /\ cons[i].busy /\ UNCHANGED <<clients, sjobs>>
    /\ \/ cons[i].closing /\ connection_send_qflow_busy_handler(i)
       \/ ~cons[i].closing /\ cons' = [cons EXCEPT ![i].busy = FALSE, ![i].out = @ - 1]

listener_handler(n) ==
    /\ Quiet /\ n \notin clients /\ Cardinality(clients) < max_clients
    /\ clients' = clients \cup {n} /\ UNCHANGED <<cons, sjobs>>

(* After 20 s without a packet, or when its TCP connection ends.            *)
client_free(n) ==
    /\ Quiet /\ n \in clients /\ clients' = clients \ {n} /\ UNCHANGED sjobs
    /\ LET kept == {i \in DOMAIN cons : cons[i].client # n}
       IN  \E order \in [1..Cardinality(kept) -> kept] :
              /\ \A j, k \in DOMAIN order : j < k => order[j] < order[k]
              /\ cons' = [j \in DOMAIN order |-> cons[order[j]]]

-----------------------------------------------------------------------------
(* No client has more connections than the limit, nor two of one conid.     *)
ServerTypeOK ==
    /\ clients \subseteq Clients /\ Cardinality(clients) <= max_clients
    /\ sjobs \in Seq({"ready", "first", "read"})
    /\ \A i \in DOMAIN cons :
           /\ cons[i].client \in clients
           /\ cons[i].local_port_index \in {-1} \cup 0..local_udp_num_ports - 1
           /\ cons[i].out \in 0..CONNECTION_CLIENT_BUFFER_SIZE
           /\ cons[i].busy \in BOOLEAN /\ cons[i].closing \in BOOLEAN
    /\ \A n \in clients :
           /\ Cardinality(Open(cons, n)) <= max_connections_for_client
           /\ \A i, j \in Open(cons, n) : i # j => cons[i].conid # cons[j].conid

(* Two sockets do not share a port when the remote side could not tell them *)
(* apart, of whichever clients they are: that is why the least recently used *)
(* one is closed before its port is bound again.                           *)
PortsApart ==
    \A i, j \in DOMAIN cons :
        i # j /\ ~cons[i].closing /\ ~cons[j].closing /\ cons[i].local_port_index >= 0
        /\ SameAddr(cons[i].addr, cons[j].addr)
            => cons[i].local_port_index # cons[j].local_port_index

(* A connection is kept after it was closed only while its packet is being  *)
(* sent, so at most one for each client, and is then freed.                *)
ClosingIsSent ==
    \A i \in DOMAIN cons : cons[i].closing => Busy(cons[i].client) = {i}
=============================================================================
