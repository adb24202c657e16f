------------------------------- MODULE SocksAuth -------------------------------
(***************************************************************************)
(* The user name tun2socks gives the SOCKS server with                      *)
(* --append-source-to-username: each connection has a name of its own, which *)
(* listener_accept_func stores in the one socks_auth_info of all            *)
(* connections.  BSocksClient keeps the pointer to socks_auth_info and       *)
(* reads the name only when the server has answered its hello.              *)
(***************************************************************************)
CONSTANT Clients   \* every connection, by its source address

VARIABLES
    phase,     \* of each client: "none", "hello" (name not sent yet), "named"
    username,  \* whose name socks_auth_info[1] points to: a client's, that of
               \* --username itself, or "freed" memory
    told       \* whose name the SOCKS server was told, for each client

vars == <<phase, username, told>>

Init == /\ phase = [c \in Clients |-> "none"] /\ told = [c \in Clients |-> "nobody"]
        /\ username = "option"

(* BSocksClient_Init can fail: then the new name is freed where it is.      *)
listener_accept_func(c) ==
    /\ phase[c] = "none"
    /\ \/ /\ phase' = [phase EXCEPT ![c] = "hello"] /\ username' = c
          /\ told' = [told EXCEPT ![c] = "nobody"]
       \/ username' = "freed" /\ UNCHANGED <<phase, told>>

(* The case STATE_SENT_HELLO of recv_handler_done, password wanted.         *)
ReceivedHello(c) ==
    /\ phase[c] = "hello"
    /\ phase' = [phase EXCEPT ![c] = "named"]
    /\ told' = [told EXCEPT ![c] = username]
    /\ UNCHANGED username

client_dealloc(c) ==
    /\ phase[c] # "none"
    /\ phase' = [phase EXCEPT ![c] = "none"]
    /\ username' = IF username = c THEN "freed" ELSE username
    /\ UNCHANGED told

Next == \E c \in Clients : listener_accept_func(c) \/ ReceivedHello(c) \/ client_dealloc(c)

Spec == Init /\ [][Next]_vars

(* The SOCKS server is told the source address of the connection it is      *)
(* asked for, not another's and not what is left in freed memory.           *)
OwnUsername == \A c \in Clients : phase[c] = "named" => told[c] = c
=============================================================================
