SPECIFICATION Spec
CONSTANTS
    client = client
    server = server
    Endpoint = {client, server}
    Acked = TRUE
    MaxSent = 5
    MaxInit = 2
    MaxBatch = 2
SYMMETRY Symmetry
INVARIANTS TypeOK PeerCanDecrypt NoUpdateError EpochsInitiated
CHECK_DEADLOCK FALSE
