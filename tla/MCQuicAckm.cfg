SPECIFICATION Spec
CONSTANTS
    client = client
    server = server
    Endpoint = {client, server}
    PktThreshold = 2
    MaxRanges = 2
    FrameRanges = 1
    PktsBeforeAck = 2
    ClientPackets = 5
    ServerPackets = 2
    MaxPn <- MCMaxPn
    ClientBatch = 2
    ServerBatch = 1
    MaxBatch <- MCMaxBatch
    ClientProbes = 1
    ServerProbes = 0
    MaxProbe <- MCMaxProbe
INVARIANTS TypeOK TimerArmed InFlightExact AckOwed
PROPERTIES NeverAgain ImplementsPacketFate
CHECK_DEADLOCK FALSE
