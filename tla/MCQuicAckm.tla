----------------------------- MODULE MCQuicAckm -----------------------------
EXTENDS QuicAckm
CONSTANTS client, server, ClientPackets, ServerPackets, ClientBatch, ServerBatch,
          ClientProbes, ServerProbes
MCMaxPn == [e \in Endpoint |-> IF e = client THEN ClientPackets ELSE ServerPackets]
MCMaxBatch == [e \in Endpoint |-> IF e = client THEN ClientBatch ELSE ServerBatch]
MCMaxProbe == [e \in Endpoint |-> IF e = client THEN ClientProbes ELSE ServerProbes]
=============================================================================
