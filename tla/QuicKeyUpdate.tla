--------------------------- MODULE QuicKeyUpdate ---------------------------
(***************************************************************************)
(* The 1-RTT key update of a QUIC connection (ssl/quic/quic_channel.c,     *)
(* quic_record_rx.c, quic_record_shared.c, quic_rx_depack.c): two          *)
(* endpoints that both run this code, over a network that loses,           *)
(* duplicates and reorders packets.                                        *)
(*                                                                         *)
(* An endpoint may start an update whenever txku_allowed() says so         *)
(* (TriggerTxku, SSL_key_update()) or spontaneously on sending; the key    *)
(* phase bit of the first packet under the new keys tells the peer, which  *)
(* answers with an update of its own.  The receiver holds two key slots:   *)
(* current and next (NORMAL), current and previous (UPDATING).  Received   *)
(* datagrams are decrypted in one go and only then handled one by one, so  *)
(* `pending` holds packets whose keys were chosen before earlier packets   *)
(* of the same batch were looked at; nothing is sent meanwhile.            *)
(*                                                                         *)
(* Both handshakes are confirmed from the start.  Keys are named by the    *)
(* epoch they belong to: a packet authenticates iff the slot its phase bit *)
(* selects holds the key of its own epoch.                                 *)
(***************************************************************************)
EXTENDS Integers, Sequences, FiniteSets

CONSTANTS
    Endpoint,   \* the two ends of the connection
    Acked,      \* has packet 0 of each side been acknowledged before the start?
    MaxSent,    \* bound: packets the two endpoints send
    MaxInit,    \* bound: updates the two endpoints start by themselves
    MaxBatch    \* bound: packets decrypted before the first of them is handled

ASSUME KeyUpdateConstants ==
    /\ Endpoint # {} /\ \A e \in Endpoint : \E p \in Endpoint : Endpoint = {e, p} /\ p # e
    /\ Acked \in BOOLEAN
    /\ MaxSent \in Nat
    /\ MaxInit \in Nat
    /\ MaxBatch \in Nat \ {0}

VARIABLES
    rx,         \* OSSL_QRX: the 1-RTT encryption level of the receive side
    tx,         \* OSSL_QTX and the packetiser's next packet number
    ch,         \* the key update fields of QUIC_CHANNEL
    ackm,       \* what the ACK manager knows of the application data space
    batch,      \* decrypted packets waiting to be handled, and whether handling began
    net,        \* packets sent whose number the receiver would still accept: any of
                \* them may arrive at any time, again, or never
    error,      \* has the endpoint raised KEY_UPDATE_ERROR or hit an assertion?
    sent,       \* how many packets were sent
    initiated   \* how many updates were started by SSL_key_update() or spontaneously

vars == <<rx, tx, ch, ackm, batch, net, error, sent, initiated>>

Peer(e) == CHOOSE p \in Endpoint : p # e

\* QUIC_PN_INVALID is UINT64_MAX: larger than every packet number.
PnInvalid == MaxSent + 2
NoAck == -1
Bit(n) == n % 2

Packet == [from : Endpoint, pn : 0..MaxSent, epoch : Nat, ack : {NoAck} \cup 0..MaxSent]

-----------------------------------------------------------------------------
\* Both secrets provided; with Acked, packet 0 went each way and was acknowledged.
Init ==
    /\ rx = [e \in Endpoint |->
               [epoch |-> 0, updating |-> FALSE, slot |-> [b \in {0, 1} |-> b],
                ku |-> 2, startPn |-> PnInvalid]]
    /\ tx = [e \in Endpoint |-> [epoch |-> 0, nextPn |-> IF Acked THEN 1 ELSE 0]]
    /\ ch = [e \in Endpoint |->
               [kuLocal |-> FALSE, txku |-> FALSE, txkuPn |-> PnInvalid,
                rxkuExpected |-> FALSE, rxku |-> FALSE, pendingConfirm |-> FALSE,
                triggerPn |-> PnInvalid, wantAck |-> FALSE]]
    /\ ackm = [e \in Endpoint |->
                 [largestAcked |-> IF Acked THEN 0 ELSE PnInvalid,
                  received |-> IF Acked THEN {0} ELSE {}]]
    /\ batch = [e \in Endpoint |-> [pkts |-> <<>>, handling |-> FALSE]]
    /\ net = {}
    /\ error = [e \in Endpoint |-> FALSE]
    /\ sent = 0
    /\ initiated = 0

-----------------------------------------------------------------------------
\* Transmit key updates.

\* Mutant: the acknowledgement may be of the packet just before the update.
TxkuInProgress_Early(e) == ch[e].txku /\ ~(ackm[e].largestAcked + 1 >= ch[e].txkuPn)

\* txku_in_progress(): an acknowledgement at or above txku_pn ends the update.
TxkuInProgress(e) == ch[e].txku /\ ~(ackm[e].largestAcked >= ch[e].txkuPn)

TxkuAllowed(e) == ~TxkuInProgress(e)

TxkuRecommendable(e) == TxkuAllowed(e) /\ ~ch[e].rxku /\ ~ch[e].pendingConfirm

\* Mutant: the update starts a packet too early.
Triggered_PrevPn(c, e) ==
    [c EXCEPT !.txku = TRUE, !.txkuPn = tx[e].nextPn - 1, !.rxkuExpected = c.kuLocal]

\* ch_trigger_txku(): what the channel record c of e becomes.
Triggered(c, e) ==
    [c EXCEPT !.txku = TRUE, !.txkuPn = tx[e].nextPn, !.rxkuExpected = c.kuLocal]

\* Outside a batch the channel lock is free and the tick is not in ch_rx().
Idle(e) == ~error[e] /\ batch[e].pkts = <<>>

LocalUpdate ==
    /\ initiated < MaxInit
    /\ initiated' = initiated + 1

\* ossl_quic_channel_trigger_txku(), from SSL_key_update().
TriggerTxku(e) ==
    /\ Idle(e)
    /\ TxkuAllowed(e)
    /\ LocalUpdate
    /\ ch' = [ch EXCEPT ![e] = Triggered([@ EXCEPT !.kuLocal = TRUE], e)]
    /\ tx' = [tx EXCEPT ![e].epoch = @ + 1]
    /\ UNCHANGED <<rx, ackm, batch, net, error, sent>>

-----------------------------------------------------------------------------
\* Receive key updates.

RxkuAllowed(e) == ~ch[e].pendingConfirm

\* Mutant: a receive key update is always answered.
RxkuDetected_Always(e, pn) ==
    LET c == [ch[e] EXCEPT !.kuLocal = FALSE, !.rxku = TRUE, !.pendingConfirm = TRUE,
                           !.triggerPn = pn, !.rxkuExpected = FALSE, !.wantAck = TRUE]
    IN  /\ ch' = [ch EXCEPT ![e] = Triggered(c, e)]
        /\ tx' = [tx EXCEPT ![e].epoch = @ + 1]
        /\ UNCHANGED error

\* rxku_detected(): e decrypted packet pn under the next keys.
RxkuDetected(e, pn) ==
    IF ch[e].rxku \/ ~RxkuAllowed(e)
    THEN /\ error' = [error EXCEPT ![e] = TRUE]
         /\ UNCHANGED <<ch, tx>>
    ELSE LET solicited == ~ch[e].kuLocal
             c == [ch[e] EXCEPT !.kuLocal = FALSE, !.rxku = TRUE,
                                !.pendingConfirm = TRUE, !.triggerPn = pn,
                                !.rxkuExpected = FALSE, !.wantAck = TRUE]
         IN  /\ ch' = [ch EXCEPT ![e] = IF solicited THEN Triggered(c, e) ELSE c]
             /\ tx' = IF solicited THEN [tx EXCEPT ![e].epoch = @ + 1] ELSE tx
             /\ UNCHANGED error

\* qrx_get_cipher_ctx_idx(): does the phase bit ask for the previous keys?
IsOldKey(e, p) == rx[e].updating /\ Bit(p.epoch) # Bit(rx[e].epoch)

\* The epoch reported for a decrypted packet, worked out from the phase bit.
RxKeyEpoch(e, p) ==
    IF Bit(p.epoch) = Bit(rx[e].epoch) THEN rx[e].epoch
    ELSE IF rx[e].updating THEN rx[e].epoch - 1 ELSE rx[e].epoch + 1

\* qrx_decrypt_pkt_body() and the late validation against duplicates.
Decryptable(e, p) ==
    /\ ~(IsOldKey(e, p) /\ p.pn >= rx[e].startPn)
    /\ rx[e].slot[Bit(p.epoch)] = p.epoch
    /\ p.pn \notin ackm[e].received

\* qrx_process_pkt(): decrypt one packet of the datagrams at hand.
Decrypt(e, p) ==
    /\ ~error[e]
    /\ ~batch[e].handling
    /\ Len(batch[e].pkts) < MaxBatch
    /\ p.from = Peer(e)
    /\ Decryptable(e, p)
    /\ batch' = [batch EXCEPT ![e].pkts =
                   Append(@, [pn |-> p.pn, ack |-> p.ack, epoch |-> RxKeyEpoch(e, p)])]
    /\ IF Bit(p.epoch) # Bit(rx[e].epoch) /\ ~rx[e].updating
       THEN /\ rx' = [rx EXCEPT ![e].epoch = @ + 1, ![e].updating = TRUE,
                                ![e].startPn = p.pn]
            /\ RxkuDetected(e, p.pn)
       ELSE UNCHANGED <<rx, ch, tx, error>>
    /\ UNCHANGED <<ackm, net, sent, initiated>>

\* RFC 9001 s. 6.4 as ch_rx_handle_packet() checks it.
NewPacketOldKeys(e, q) ==
    ch[e].rxku /\ q.pn >= ch[e].triggerPn /\ q.epoch < rx[e].epoch

\* RFC 9001 s. 6.2 as depack_do_frame_ack() checks it.
AckWithoutUpdate(e, q) ==
    /\ q.ack # NoAck
    /\ q.epoch < rx[e].epoch \/ ch[e].rxkuExpected
    /\ q.ack >= ch[e].txkuPn

\* ossl_ackm_on_rx_ack_frame() as far as the largest acknowledged packet goes.
LargestAcked(old, ack) ==
    IF ack # NoAck /\ (old = PnInvalid \/ ack > old) THEN ack ELSE old

\* ch_rx_handle_packet() for the next packet of the batch.
HandlePacket(e) ==
    LET q == Head(batch[e].pkts)
        rest == Tail(batch[e].pkts)
    IN  /\ ~error[e]
        /\ batch[e].pkts # <<>>
        /\ batch' = [batch EXCEPT ![e] = [pkts |-> rest, handling |-> rest # <<>>]]
        /\ IF NewPacketOldKeys(e, q) \/ AckWithoutUpdate(e, q)
           THEN /\ error' = [error EXCEPT ![e] = TRUE]
                /\ UNCHANGED <<ackm, net>>
           ELSE /\ ackm' = [ackm EXCEPT
                              ![e].largestAcked = LargestAcked(@, q.ack),
                              ![e].received = @ \cup {q.pn}]
                /\ net' = {p \in net : p.from = e \/ p.pn # q.pn}
                /\ UNCHANGED error
        /\ UNCHANGED <<rx, tx, ch, sent, initiated>>

\* ch_rxku_tick(): a PTO later the old key is erased, the next one installed.
RxkuTick(e) ==
    LET other == Bit(rx[e].epoch + 1)
    IN  /\ Idle(e)
        /\ ch[e].rxku
        /\ ch' = [ch EXCEPT ![e].rxku = FALSE]
        /\ rx' = [rx EXCEPT ![e].slot[other] = rx[e].ku, ![e].ku = @ + 1,
                            ![e].updating = FALSE]
        /\ UNCHANGED <<tx, ackm, batch, net, error, sent, initiated>>

-----------------------------------------------------------------------------
LargestReceived(e) ==
    IF ackm[e].received = {} THEN NoAck
    ELSE CHOOSE n \in ackm[e].received : \A m \in ackm[e].received : m <= n

\* Putting one packet on the wire; an ACK frame of the trigger packet confirms.
Transmit(e, epoch, c, ack) ==
    /\ sent < MaxSent
    /\ sent' = sent + 1
    /\ net' = net \cup {[from |-> e, pn |-> tx[e].nextPn, epoch |-> epoch,
                         ack |-> IF ack THEN LargestReceived(e) ELSE NoAck]}
    /\ tx' = [tx EXCEPT ![e] = [epoch |-> epoch, nextPn |-> @.nextPn + 1]]
    /\ ch' = [ch EXCEPT ![e] =
                [c EXCEPT !.wantAck = c.wantAck /\ ~ack,
                          !.pendingConfirm = @ /\ ~(ack /\ c.triggerPn \in ackm[e].received)]]

\* ch_tx(): a packet, with an ACK frame when one is due or desired.
Send(e) ==
    /\ Idle(e)
    /\ \E ack \in BOOLEAN :
         /\ ch[e].wantAck => ack
         /\ Transmit(e, tx[e].epoch, ch[e], ack)
    /\ UNCHANGED <<rx, ackm, batch, error, initiated>>

\* ch_tx() when ch_maybe_trigger_spontaneous_txku() finds the packet count high.
SendAndUpdate(e) ==
    /\ Idle(e)
    /\ TxkuRecommendable(e)
    /\ LocalUpdate
    /\ \E ack \in BOOLEAN :
         /\ ch[e].wantAck => ack
         /\ Transmit(e, tx[e].epoch + 1,
                     Triggered([ch[e] EXCEPT !.kuLocal = TRUE], e), ack)
    /\ UNCHANGED <<rx, ackm, batch, error>>

Next ==
    \E e \in Endpoint :
       \/ TriggerTxku(e)
       \/ \E p \in net : Decrypt(e, p)
       \/ HandlePacket(e)
       \/ RxkuTick(e)
       \/ Send(e)
       \/ SendAndUpdate(e)

Spec == Init /\ [][Next]_vars

-----------------------------------------------------------------------------
\* Type invariant of the key update state.
TypeOK ==
    /\ rx \in [Endpoint -> [epoch : 0..MaxInit, updating : BOOLEAN,
                            slot : [{0, 1} -> 0..MaxInit + 1],
                            ku : 0..MaxInit + 2, startPn : 0..PnInvalid]]
    /\ tx \in [Endpoint -> [epoch : 0..MaxInit, nextPn : 0..PnInvalid]]
    /\ ch \in [Endpoint -> [kuLocal : BOOLEAN, txku : BOOLEAN, txkuPn : 0..PnInvalid,
                            rxkuExpected : BOOLEAN, rxku : BOOLEAN,
                            pendingConfirm : BOOLEAN, triggerPn : 0..PnInvalid,
                            wantAck : BOOLEAN]]
    /\ ackm \in [Endpoint -> [largestAcked : 0..PnInvalid, received : SUBSET (0..MaxSent)]]
    /\ \A e \in Endpoint :
         batch[e].pkts \in Seq([pn : 0..MaxSent, ack : {NoAck} \cup 0..MaxSent, epoch : Nat])
    /\ net \subseteq Packet
    /\ error \in [Endpoint -> BOOLEAN]
    /\ sent \in 0..MaxSent
    /\ initiated \in 0..MaxInit

(***************************************************************************)
(* An endpoint's sending keys are never more than one epoch from what its  *)
(* peer can receive: the peer's current keys or, at most, the next ones it *)
(* already holds (or installs on its next tick).  A sender two epochs      *)
(* ahead can never again be understood (txku_allowed, rxku_detected).      *)
(***************************************************************************)
PeerCanDecrypt ==
    \A e \in Endpoint : tx[e].epoch \in {rx[Peer(e)].epoch, rx[Peer(e)].epoch + 1}

(***************************************************************************)
(* Two endpoints running this code never take each other's packets for a   *)
(* key update violation and never hit rxku_detected()'s assertion,         *)
(* whatever the network loses, duplicates or reorders and whenever the     *)
(* applications ask for updates.                                           *)
(***************************************************************************)
NoUpdateError == \A e \in Endpoint : ~error[e]

(***************************************************************************)
(* Updates do not breed: an endpoint is never further than the number of   *)
(* updates the two sides started by themselves, so an update is answered   *)
(* once and the answer is not answered (ku_locally_initiated).             *)
(***************************************************************************)
EpochsInitiated == \A e \in Endpoint : tx[e].epoch <= initiated
=============================================================================
