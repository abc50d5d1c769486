----------------------------- MODULE PacketFate -----------------------------
(***************************************************************************)
(* What the users of the ACK manager rely on (the frame-in-flight          *)
(* dispatcher, and with it the streams of QuicStreams): a packet that was  *)
(* sent ends in at most one way, and is reported as acknowledged only if   *)
(* the peer did handle it.  It may be reported as lost at any time.        *)
(***************************************************************************)
CONSTANTS
    Endpoint,   \* the two ends of the connection
    PN          \* packet numbers

VARIABLES
    out,        \* out[e]: packets of e whose fate is open
    acked,      \* acked[e]: packets of e for which on_acked was called
    lost,       \* lost[e]: packets of e for which on_lost was called
    handled     \* handled[e]: numbers of packets that e has handled

vars == <<out, acked, lost, handled>>

Peer(e) == CHOOSE p \in Endpoint : p # e

Init ==
    /\ out = [e \in Endpoint |-> {}]
    /\ acked = [e \in Endpoint |-> {}]
    /\ lost = [e \in Endpoint |-> {}]
    /\ handled = [e \in Endpoint |-> {}]

Sent(e) == out[e] \cup acked[e] \cup lost[e]

\* A packet is sent under a new number.
Send(e) ==
    /\ \E n \in PN \ Sent(e) : out' = [out EXCEPT ![e] = @ \cup {n}]
    /\ UNCHANGED <<acked, lost, handled>>

\* Some packets the peer has handled end as acknowledged.
Acknowledge(e) ==
    \E A \in SUBSET (out[e] \cap handled[Peer(e)]) :
       acked' = [acked EXCEPT ![e] = @ \cup A]

\* Some others end as lost; both leave `out`.
Lose(e) ==
    \E L \in SUBSET (out[e] \ acked'[e]) :
       /\ lost' = [lost EXCEPT ![e] = @ \cup L]
       /\ out' = [out EXCEPT ![e] = @ \ (acked'[e] \cup L)]

\* A packet of the peer is handled; it may report and imply the fate of others.
Handle(e) ==
    /\ \E n \in Sent(Peer(e)) : handled' = [handled EXCEPT ![e] = @ \cup {n}]
    /\ Acknowledge(e)
    /\ Lose(e)

\* Time has passed.
Expire(e) ==
    /\ UNCHANGED <<acked, handled>>
    /\ Lose(e)

Next == \E e \in Endpoint : Send(e) \/ Handle(e) \/ Expire(e)

Spec == Init /\ [][Next]_vars
=============================================================================
