SPECIFICATION Spec
CONSTANTS
    client = client
    server = server
    Endpoint = {client, server}
    Acked = FALSE
    MaxSent = 3
    MaxInit = 2
    MaxBatch = 2
SYMMETRY Symmetry
INVARIANTS PeerCanDecrypt
CHECK_DEADLOCK FALSE
