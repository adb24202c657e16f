CONSTANTS
    Locals = {l1, l2}
    Remotes = {r1, r2}
    Host <- MCHost
    max_connections = 2
    send_buffer_size = 1
    Clients <- MCClients
    max_clients = 2
    max_connections_for_client = 1
    local_udp_num_ports = 1
    unique_local_ports = FALSE
    CONNECTION_CLIENT_BUFFER_SIZE = 1
    MaxPackets = 3
    MaxReplies = 2
    InFlight = 2
SPECIFICATION Spec
SYMMETRY Perms
INVARIANTS
    UdpGwTypeOK
    FirstFits
    PortsApart
    ClosingIsSent
    RightOwner
CHECK_DEADLOCK FALSE
