------------------------------- MODULE MCUdpGw -------------------------------
(* Two local and two remote addresses, so that a conid is taken over for    *)
(* the same remote and for another, and one connection after the other.    *)
EXTENDS UdpGw
MCHost == [remote \in Remotes |-> "host"]
MCClients == 1..2
Perms == Permutations(Locals) \cup Permutations(Remotes)
=============================================================================
