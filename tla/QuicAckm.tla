------------------------------ MODULE QuicAckm ------------------------------
(***************************************************************************)
(* The ACK manager of a QUIC connection (ssl/quic/quic_ackm.c) with the    *)
(* parts of the packetiser, the receiver and the channel that drive it:    *)
(* two endpoints that both run this code, in the application data packet   *)
(* number space, after the handshake is confirmed.                         *)
(*                                                                         *)
(* A packet that was sent may arrive at any time, any number of times, or  *)
(* never.  As datagrams are decrypted in one go and handled afterwards,    *)
(* `batch` holds packets that passed the check for duplicates before the   *)
(* earlier ones of the batch were handled.                                 *)
(*                                                                         *)
(* Time is abstract.  Packets are sent in the order of their numbers, so   *)
(* the packets that are overdue at some moment are all those below some    *)
(* number; a timer that is set may fire at any time.  The RTT estimate and *)
(* pto_count only scale delays and are left out; every packet has size 1.  *)
(***************************************************************************)
EXTENDS Integers, Sequences, FiniteSets

CONSTANTS
    Endpoint,       \* the two ends of the connection
    PktThreshold,   \* K_PKT_THRESHOLD
    MaxRanges,      \* MAX_RX_ACK_RANGES: ranges kept of the numbers received
    FrameRanges,    \* OSSL_NELEM(ackm->ack_ranges): ranges put into an ACK frame
    PktsBeforeAck,  \* PKTS_BEFORE_ACK
    MaxPn,          \* bound: MaxPn[e] is the number of packets e sends
    MaxBatch,       \* bound: packets that e decrypts before it handles the first of them
    MaxProbe        \* bound: probes that e has requested and not yet sent

ASSUME AckmConstants ==
    /\ \E c, s \in Endpoint : c # s /\ Endpoint = {c, s}
    /\ PktThreshold \in Nat \ {0}
    /\ MaxRanges \in Nat \ {0}
    /\ FrameRanges \in Nat \ {0}
    /\ PktsBeforeAck \in Nat \ {0}
    /\ MaxPn \in [Endpoint -> Nat]
    /\ MaxBatch \in [Endpoint -> Nat]
    /\ MaxProbe \in [Endpoint -> Nat]

VARIABLES
    sent,       \* sent[e]: the packets of e, as on the wire
    history,    \* tx_history: packets whose fate is open
    acked,      \* packets for which on_acked() was called
    lost,       \* packets for which on_lost() was called
    tx,         \* the rest of the transmit side of OSSL_ACKM
    rx,         \* the receive side of OSSL_ACKM, and the packetiser's want_ack
    batch,      \* decrypted packets waiting to be handled, and whether handling began
    handled     \* handled[e]: numbers of packets whose frames e has processed

vars == <<sent, history, acked, lost, tx, rx, batch, handled>>

Peer(e) == CHOOSE p \in Endpoint : p # e

PN == UNION {0..MaxPn[e] - 1 : e \in Endpoint}
None == -1

\* A packet is ACK-eliciting and in flight, or has an ACK frame only; `ack` are
\* the numbers its ACK frame reports, none if it has no such frame.
Packet == [eliciting : BOOLEAN, ack : SUBSET PN]

MaxOf(S) == CHOOSE n \in S : \A m \in S : m <= n
MinOf(S) == CHOOSE n \in S : \A m \in S : n <= m

Init ==
    /\ sent = [e \in Endpoint |-> <<>>]
    /\ history = [e \in Endpoint |-> {}]
    /\ acked = [e \in Endpoint |-> {}]
    /\ lost = [e \in Endpoint |-> {}]
    /\ tx = [e \in Endpoint |->
               [largestAcked |-> None, lossTime |-> FALSE, deadline |-> "none", probe |-> 0,
                inFlight |-> 0, elicitingInFlight |-> 0, cc |-> 0]]
    /\ rx = [e \in Endpoint |->
               [set |-> {}, watermark |-> 0, desired |-> FALSE, flush |-> FALSE,
                since |-> 0, generated |-> FALSE, last |-> {}, wantAck |-> FALSE]]
    /\ batch = [e \in Endpoint |-> [pns |-> <<>>, handling |-> FALSE]]
    /\ handled = [e \in Endpoint |-> {}]

-----------------------------------------------------------------------------
\* Numbers received and not provably acknowledged (struct rx_pkt_history_st).

\* The numbers of S in its k highest ranges.
TopRanges(S, k) ==
    {n \in S : Cardinality({m \in S : m > n /\ m - 1 \notin S}) < k}

\* rx_pkt_history_bump_watermark()
Bumped(r, w) ==
    IF w <= r.watermark THEN r
    ELSE [r EXCEPT !.set = {n \in @ : n >= w}, !.watermark = w]

\* Mutant: the numbers that were dropped can be received again.
Trimmed_NoBump(r) == [r EXCEPT !.set = TopRanges(@, MaxRanges)]

\* rx_pkt_history_trim_range_count()
Trimmed(r) ==
    LET dropped == r.set \ TopRanges(r.set, MaxRanges)
    IN  IF dropped = {} THEN r ELSE Bumped(r, MaxOf(dropped) + 1)

\* rx_pkt_history_add_pn()
Added(r, n) ==
    IF n < r.watermark THEN r ELSE Trimmed([r EXCEPT !.set = @ \cup {n}])

\* ossl_ackm_is_rx_pn_processable()
Processable(r, n) == n >= r.watermark /\ n \notin r.set

-----------------------------------------------------------------------------
\* When to send an ACK frame.

\* ackm_is_missing(): the last frame implied that n was missing.
IsMissing(r, n) == r.last # {} /\ n <= MaxOf(r.last) /\ n \notin r.last

\* ackm_has_newly_missing(): the highest range is a single number past a gap.
HasNewlyMissing(r) ==
    /\ r.set # {} /\ r.last # {}
    /\ MaxOf(r.set) - 1 \notin r.set
    /\ MaxOf(r.set) > MaxOf(r.last) + 1

\* Mutant: packets are counted although an ACK frame is already desired.
OnRxAckEliciting_KeepsCounting(r, wasMissing) ==
    LET q == [r EXCEPT !.since = @ + 1]
    IN  IF \/ ~q.generated \/ wasMissing
           \/ q.since >= PktsBeforeAck \/ HasNewlyMissing(q)
        THEN [q EXCEPT !.desired = TRUE, !.flush = FALSE]
        ELSE [q EXCEPT !.flush = TRUE]

\* ackm_on_rx_ack_eliciting()
OnRxAckEliciting(r, wasMissing) ==
    LET q == [r EXCEPT !.since = @ + 1]
    IN  IF r.desired THEN r
        ELSE IF \/ ~q.generated \/ wasMissing
                \/ q.since >= PktsBeforeAck \/ HasNewlyMissing(q)
        THEN [q EXCEPT !.desired = TRUE, !.flush = FALSE]
        ELSE [q EXCEPT !.flush = TRUE]

\* ossl_ackm_on_rx_packet()
OnRxPacket(r, n, eliciting) ==
    IF ~Processable(r, n) THEN r
    ELSE IF eliciting THEN OnRxAckEliciting(Added(r, n), IsMissing(r, n))
    ELSE Added(r, n)

\* Mutant: the gaps between the ranges are reported too.
AckFrame_Gaps(r) == IF r.set = {} THEN {} ELSE MinOf(r.set)..MaxOf(r.set)

\* ackm_fill_rx_ack_ranges()
AckFrame(r) == TopRanges(r.set, FrameRanges)

\* What is left after ossl_ackm_get_ack_frame().
AckFrameTaken(r) ==
    [r EXCEPT !.since = 0, !.generated = TRUE, !.desired = FALSE, !.flush = FALSE,
              !.last = AckFrame(r)]

\* Has the flush deadline passed?  Only if there is one.
Late(e) == {FALSE, rx[e].flush}

\* want_ack or ossl_ackm_is_ack_desired()
AckDue(r, late) == r.wantAck \/ r.desired \/ late

-----------------------------------------------------------------------------
\* Loss detection.

\* ackm_set_loss_detection_timer()
SetLossDetectionTimer(t) ==
    [t EXCEPT !.deadline = IF t.lossTime THEN "loss"
                           ELSE IF t.elicitingInFlight = 0 THEN "none" ELSE "pto"]

\* The packets below which number may be overdue; the packets of the history h that
\* ackm_detect_and_remove_lost_pkts() looks at; and those of them that it removes.
Overdue(e) == {0} \cup {n + 1 : n \in history[e]}
LossCandidates(h, largest) == {n \in h : n <= largest}
LostPkts(h, largest, due) ==
    {n \in LossCandidates(h, largest) : n < due \/ largest >= n + PktThreshold}

\* The ACK-eliciting ones, which are the ones in flight, of the packets N of e.
Eliciting(e, N) == {n \in N : sent[e][n + 1].eliciting}

\* Mutant: the congestion controller is not told.
Resolved_NoCc(e, t, N) ==
    LET k == Cardinality(Eliciting(e, N))
    IN  SetLossDetectionTimer(
          [t EXCEPT !.inFlight = @ - k, !.elicitingInFlight = @ - k,
                    !.lossTime = LossCandidates(history[e] \ N, t.largestAcked) # {}])

\* ackm_on_pkts_lost(), ackm_on_pkts_acked() and the loss time and timer that are set
\* when the packets N leave the history of e.
Resolved(e, t, N) ==
    LET k == Cardinality(Eliciting(e, N))
    IN  SetLossDetectionTimer(
          [t EXCEPT !.inFlight = @ - k, !.elicitingInFlight = @ - k, !.cc = @ - k,
                    !.lossTime = LossCandidates(history[e] \ N, t.largestAcked) # {}])

\* Mutant: an ACK frame that was lost is not asked for again.
Regenerated_Never(e, r, N) == r

\* on_regen_notify() for the packets N that are lost: ACK frames go out again.
Regenerated(e, r, N) ==
    [r EXCEPT !.wantAck = @ \/ \E n \in N : sent[e][n + 1].ack # {}]

\* The receive side's part of ackm_on_pkts_acked(): what packets in flight
\* reported is provably acknowledged.
ProvablyAcked(e, r, N) ==
    LET reports == {n \in Eliciting(e, N) : sent[e][n + 1].ack # {}}
    IN  IF reports = {} THEN r
        ELSE Bumped(r, MaxOf({MaxOf(sent[e][n + 1].ack) : n \in reports}) + 1)

\* The largest number that was ever acknowledged, with a frame that reports `ack`.
LargestAcked(largest, ack) == IF ack = {} \/ MaxOf(ack) <= largest THEN largest ELSE MaxOf(ack)

-----------------------------------------------------------------------------
\* ossl_qrx_read_pkt(): a datagram of the peer is decrypted; rx_late_validate()
\* refuses duplicates.
Decrypt(e, n) ==
    /\ ~batch[e].handling
    /\ Len(batch[e].pns) < MaxBatch[e]
    /\ n < Len(sent[Peer(e)])
    /\ Processable(rx[e], n)
    /\ batch' = [batch EXCEPT ![e].pns = Append(@, n)]
    /\ UNCHANGED <<sent, history, acked, lost, tx, rx, handled>>

\* ossl_quic_handle_frames() for the next packet: ossl_ackm_on_rx_ack_frame() if it has
\* an ACK frame, while packets below `due` are overdue; then ossl_ackm_on_rx_packet().
Handle(e, due) ==
    LET n    == Head(batch[e].pns)
        rest == Tail(batch[e].pns)
        p    == sent[Peer(e)][n + 1]
        t    == [tx[e] EXCEPT !.largestAcked = LargestAcked(@, p.ack)]
        N    == history[e] \cap p.ack
        L    == IF N = {} THEN {} ELSE LostPkts(history[e] \ N, t.largestAcked, due)
        r    == ProvablyAcked(e, Regenerated(e, rx[e], L), N)
    IN  /\ batch[e].pns # <<>>
        /\ p.ack = {} => due = 0
        /\ batch' = [batch EXCEPT ![e] = [pns |-> rest, handling |-> rest # <<>>]]
        /\ history' = [history EXCEPT ![e] = @ \ (N \cup L)]
        /\ acked' = [acked EXCEPT ![e] = @ \cup N]
        /\ lost' = [lost EXCEPT ![e] = @ \cup L]
        /\ tx' = [tx EXCEPT ![e] = IF N = {} THEN t ELSE Resolved(e, t, N \cup L)]
        /\ rx' = [rx EXCEPT ![e] = OnRxPacket(r, n, p.eliciting)]
        /\ handled' = [handled EXCEPT ![e] = @ \cup {n}]
        /\ UNCHANGED sent

\* Nothing is sent while packets wait to be handled.
Idle(e) == batch[e].pns = <<>>

\* ossl_ackm_on_tx_packet(), apart from the history
OnTxPacket(t, eliciting) ==
    IF ~eliciting THEN t
    ELSE SetLossDetectionTimer(
           [t EXCEPT !.inFlight = @ + 1, !.elicitingInFlight = @ + 1, !.cc = @ + 1])

\* ossl_quic_tx_packetiser_generate(): a packet with an ACK frame if one is due and
\* there is something to report; a probe has to be ACK-eliciting.
Send(e, eliciting, late) ==
    LET due == AckDue(rx[e], late)
        ack == IF due THEN AckFrame(rx[e]) ELSE {}
        r   == IF due THEN AckFrameTaken(rx[e]) ELSE rx[e]
        t   == IF eliciting /\ tx[e].probe > 0 THEN [tx[e] EXCEPT !.probe = @ - 1] ELSE tx[e]
    IN  /\ Idle(e)
        /\ Len(sent[e]) < MaxPn[e]
        /\ eliciting \/ (ack # {} /\ tx[e].probe = 0)
        /\ sent' = [sent EXCEPT ![e] = Append(@, [eliciting |-> eliciting, ack |-> ack])]
        /\ tx' = [tx EXCEPT ![e] = OnTxPacket(t, eliciting)]
        /\ history' = [history EXCEPT ![e] = @ \cup {Len(sent[e])}]
        /\ rx' = [rx EXCEPT ![e] = IF ack = {} THEN r ELSE [r EXCEPT !.wantAck = FALSE]]
        /\ UNCHANGED <<acked, lost, batch, handled>>

\* Mutant: a probe timeout does not set the timer again.
ProbeTimeout_NoTimer(e) ==
    /\ ~tx[e].lossTime
    /\ tx[e].probe < MaxProbe[e]
    /\ tx' = [tx EXCEPT ![e].probe = @ + 1, ![e].deadline = "none"]
    /\ UNCHANGED <<history, lost, rx>>

\* ossl_ackm_on_timeout() with no loss time set: a probe is requested.
ProbeTimeout(e) ==
    /\ ~tx[e].lossTime
    /\ tx[e].probe < MaxProbe[e]
    /\ tx' = [tx EXCEPT ![e] = SetLossDetectionTimer([tx[e] EXCEPT !.probe = @ + 1])]
    /\ UNCHANGED <<history, lost, rx>>

\* ossl_ackm_on_timeout() at loss_time: the oldest packet at least is overdue.
LossTimeout(e, due) ==
    LET L == LostPkts(history[e], tx[e].largestAcked, due)
    IN  /\ tx[e].lossTime
        /\ due > MinOf(LossCandidates(history[e], tx[e].largestAcked))
        /\ history' = [history EXCEPT ![e] = @ \ L]
        /\ lost' = [lost EXCEPT ![e] = @ \cup L]
        /\ tx' = [tx EXCEPT ![e] = Resolved(e, @, L)]
        /\ rx' = [rx EXCEPT ![e] = Regenerated(e, @, L)]

\* ossl_quic_channel_subtick() when the loss detection deadline has passed.
Timeout(e) ==
    /\ Idle(e)
    /\ tx[e].deadline # "none"
    /\ ProbeTimeout(e) \/ \E due \in Overdue(e) : LossTimeout(e, due)
    /\ UNCHANGED <<sent, acked, batch, handled>>

Next ==
    \E e \in Endpoint :
       \/ \E n \in PN : Decrypt(e, n)
       \/ \E due \in Overdue(e) : Handle(e, due)
       \/ \E eliciting \in BOOLEAN, late \in Late(e) : Send(e, eliciting, late)
       \/ Timeout(e)

Spec == Init /\ [][Next]_vars

-----------------------------------------------------------------------------
\* The two halves of OSSL_ACKM for one packet number space.
TxState ==
    [largestAcked : PN \cup {None}, lossTime : BOOLEAN, deadline : {"none", "loss", "pto"},
     probe : Nat, inFlight : Nat, elicitingInFlight : Nat, cc : Nat]
RxState ==
    [set : SUBSET PN, watermark : Nat, desired : BOOLEAN, flush : BOOLEAN,
     since : 0..PktsBeforeAck, generated : BOOLEAN, last : SUBSET PN, wantAck : BOOLEAN]

\* Type invariant of the ACK manager.
TypeOK ==
    /\ sent \in [Endpoint -> Seq(Packet)]
    /\ \A e \in Endpoint : Len(sent[e]) <= MaxPn[e]
    /\ history \in [Endpoint -> SUBSET PN]
    /\ acked \in [Endpoint -> SUBSET PN]
    /\ lost \in [Endpoint -> SUBSET PN]
    /\ tx \in [Endpoint -> TxState]
    /\ rx \in [Endpoint -> RxState]
    /\ batch \in [Endpoint -> [pns : Seq(PN), handling : BOOLEAN]]
    /\ handled \in [Endpoint -> SUBSET PN]

(***************************************************************************)
(* What is in flight has a timer.  While an ACK-eliciting packet is in     *)
(* flight a deadline is set; it is a loss time exactly if some packet is   *)
(* older than one that was acknowledged; and a probe timeout never finds   *)
(* nothing in flight (the assertion in ackm_get_pto_time_and_space()).     *)
(* Without this a connection whose last packets are lost hangs.            *)
(***************************************************************************)
TimerArmed ==
    \A e \in Endpoint :
       /\ tx[e].elicitingInFlight > 0 => tx[e].deadline # "none"
       /\ (tx[e].deadline = "loss") <=> (LossCandidates(history[e], tx[e].largestAcked) # {})
       /\ tx[e].deadline = "pto" => tx[e].elicitingInFlight > 0

(***************************************************************************)
(* The ACK manager's two counts and the congestion controller's            *)
(* bytes_in_flight are those of the packets whose fate is open, however    *)
(* acknowledgements, losses and timeouts interleave.  A count that stays   *)
(* too high closes the congestion window for good.                         *)
(***************************************************************************)
InFlightExact ==
    \A e \in Endpoint :
       LET k == Cardinality(Eliciting(e, history[e]))
       IN  tx[e].inFlight = k /\ tx[e].elicitingInFlight = k /\ tx[e].cc = k

(***************************************************************************)
(* No ACK-eliciting packet is left unacknowledged in silence: the endpoint *)
(* that holds its number is about to report it, or has reported it in a    *)
(* packet that is acknowledged or whose fate is open, or had to leave it   *)
(* out of the last ACK frame for want of ranges.  In particular an ACK     *)
(* frame that was lost is repeated (on_regen_notify, want_ack).            *)
(***************************************************************************)
AckOwed ==
    \A e \in Endpoint : \A n \in rx[e].set :
       sent[Peer(e)][n + 1].eliciting =>
          \/ rx[e].desired \/ rx[e].flush \/ rx[e].wantAck
          \/ \E i \in history[e] \cup acked[e] : n \in sent[e][i + 1].ack
          \/ rx[e].last # {} /\ \A m \in rx[e].last : n < m

(***************************************************************************)
(* A packet number that was handled never passes the check for duplicates  *)
(* again, although numbers are forgotten when they are provably            *)
(* acknowledged and when there are too many ranges (the comment on RX      *)
(* packet number tracking).  Only copies decrypted in one batch are        *)
(* handled twice.                                                          *)
(***************************************************************************)
NeverAgain ==
    [][\A e \in Endpoint :
         Len(batch'[e].pns) > Len(batch[e].pns) =>
            batch'[e].pns[Len(batch'[e].pns)] \notin handled[e]]_vars

Fate == INSTANCE PacketFate WITH out <- history

(***************************************************************************)
(* The dispatcher can rely on the ACK manager: a packet ends once, as      *)
(* acknowledged only if the peer handled it (PacketFate).                  *)
(***************************************************************************)
ImplementsPacketFate == Fate!Spec
=============================================================================
