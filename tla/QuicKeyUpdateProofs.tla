------------------------ MODULE QuicKeyUpdateProofs ------------------------
(***************************************************************************)
(* Proofs about the key update of QuicKeyUpdate, for any number of packets,*)
(* updates and batch sizes, and for every loss, duplication and order of   *)
(* packets.  They assume Acked: packet 0 of either side was acknowledged   *)
(* before the first update.  Without it PeerCanDecrypt is false.           *)
(*                                                                         *)
(* The argument.  A packet's number tells its epoch (Transit), so what a   *)
(* side has received tells which epoch of the peer it has seen (Received), *)
(* and an acknowledgement travels in a packet whose own epoch proves that  *)
(* the answer to the update was given (Transit, AckKnown).  Unconfirmed    *)
(* says why the next update cannot come too soon: until e has sent an ACK  *)
(* of the packet that brought the new keys, its peer's update is in        *)
(* progress and none of e's packets can end it.                            *)
(***************************************************************************)
EXTENDS QuicKeyUpdate, NatLemmas, TLAPS

\* What the handler gets to see of a packet.
Item == [pn : 0..MaxSent, ack : {NoAck} \cup 0..MaxSent, epoch : Nat]
View(k) == [pn |-> k.pn, ack |-> k.ack, epoch |-> k.epoch]

\* The packets of e that may still be handled by its peer, decrypted or not.
InTransit(e) ==
    {View(k) : k \in {n \in net : n.from = e}}
      \cup {batch[Peer(e)].pkts[i] : i \in DOMAIN batch[Peer(e)].pkts}

\* The types, without the bounds that depend on the epochs' invariant.
SlotMap == [{0, 1} -> Nat]
RxRec == [epoch : Nat, updating : BOOLEAN, slot : SlotMap, ku : Nat,
          startPn : 0..PnInvalid]
TxRec == [epoch : Nat, nextPn : Nat]
ChRec == [kuLocal : BOOLEAN, txku : BOOLEAN, txkuPn : 0..PnInvalid,
          rxkuExpected : BOOLEAN, rxku : BOOLEAN, pendingConfirm : BOOLEAN,
          triggerPn : 0..PnInvalid, wantAck : BOOLEAN]
AckRec == [largestAcked : 0..MaxSent, received : SUBSET (0..MaxSent)]
BatchRec == [pkts : Seq(Item), handling : BOOLEAN]

Types ==
    /\ rx \in [Endpoint -> RxRec]
    /\ tx \in [Endpoint -> TxRec]
    /\ ch \in [Endpoint -> ChRec]
    /\ ackm \in [Endpoint -> AckRec]
    /\ batch \in [Endpoint -> BatchRec]
    /\ net \subseteq Packet
    /\ error \in [Endpoint -> BOOLEAN]
    /\ sent \in 0..MaxSent
    /\ initiated \in 0..MaxInit

\* The two key slots hold the current epoch's key and its neighbour's.
Slots(e) ==
    /\ rx[e].updating <=> ch[e].rxku
    /\ rx[e].updating => rx[e].epoch >= 1
    /\ \A b \in {0, 1} :
         rx[e].slot[b] = IF b = Bit(rx[e].epoch) THEN rx[e].epoch
                         ELSE IF rx[e].updating THEN rx[e].epoch - 1 ELSE rx[e].epoch + 1
    /\ rx[e].ku = IF rx[e].updating THEN rx[e].epoch + 1 ELSE rx[e].epoch + 2

\* How the epochs of the two sides, and of the two directions, relate.
Epochs(e) ==
    /\ ch[e].kuLocal => tx[e].epoch = rx[e].epoch + 1
    /\ ~ch[e].kuLocal => tx[e].epoch = rx[e].epoch
    /\ ch[e].rxkuExpected => ch[e].kuLocal
    /\ tx[e].epoch = rx[Peer(e)].epoch \/ tx[e].epoch = rx[Peer(e)].epoch + 1
    /\ tx[e].epoch <= initiated
    /\ tx[e].nextPn <= sent + 1
    /\ ~error[e]
    /\ ch[e].txku => ch[e].txkuPn <= tx[e].nextPn
    /\ ~ch[e].txku => tx[e].epoch = 0 /\ ch[e].txkuPn = PnInvalid

\* A packet under way: its number tells its epoch, its epoch what it may acknowledge.
PacketOK(e, x) ==
    /\ x.pn < tx[e].nextPn
    /\ x.epoch <= tx[e].epoch
    /\ ch[e].txku => (x.pn >= ch[e].txkuPn <=> x.epoch = tx[e].epoch)
    /\ x.ack = NoAck \/ x.ack \in ackm[e].received
    /\ ch[Peer(e)].txku /\ x.ack >= ch[Peer(e)].txkuPn => x.epoch >= tx[Peer(e)].epoch
    /\ ch[Peer(e)].rxku /\ x.pn >= ch[Peer(e)].triggerPn => x.epoch >= rx[Peer(e)].epoch

Transit(e) ==
    /\ \A x \in InTransit(e) : PacketOK(e, x)
    /\ \A x, y \in InTransit(e) : x.pn <= y.pn => x.epoch <= y.epoch

Batched(e) == \A i \in DOMAIN batch[e].pkts : batch[e].pkts[i].epoch <= rx[e].epoch

\* Who has received a packet of the peer's present epoch has followed it there.
Received(e) ==
    \A n \in ackm[e].received :
        /\ n < tx[Peer(e)].nextPn
        /\ ch[Peer(e)].txku /\ n >= ch[Peer(e)].txkuPn => rx[e].epoch = tx[Peer(e)].epoch

\* An update that is acknowledged has been answered.
AckKnown(e) ==
    /\ ackm[e].largestAcked \in ackm[Peer(e)].received
    /\ ch[e].txku /\ ackm[e].largestAcked >= ch[e].txkuPn => rx[e].epoch = tx[e].epoch

\* While e owes the confirmation of the peer's update, the peer cannot end it.
Unconfirmed(e) ==
    ch[e].pendingConfirm =>
        /\ ch[e].wantAck
        /\ \/ ch[e].triggerPn \in ackm[e].received
           \/ \E i \in DOMAIN batch[e].pkts : batch[e].pkts[i].pn = ch[e].triggerPn
        /\ tx[Peer(e)].epoch = rx[e].epoch
        /\ ch[Peer(e)].txku
        /\ ackm[Peer(e)].largestAcked < ch[Peer(e)].txkuPn
        /\ \A x \in InTransit(e) : x.ack < ch[Peer(e)].txkuPn /\ x.epoch <= rx[e].epoch

EndOK(e) ==
    /\ Slots(e)
    /\ Epochs(e)
    /\ Transit(e)
    /\ Batched(e)
    /\ Received(e)
    /\ AckKnown(e)
    /\ Unconfirmed(e)

KeyInv == Types /\ \A e \in Endpoint : EndOK(e)

-----------------------------------------------------------------------------
LEMMA PeerFacts ==
    ASSUME NEW e \in Endpoint
    PROVE  /\ Peer(e) \in Endpoint
           /\ Peer(e) # e
           /\ Peer(Peer(e)) = e
           /\ \A f \in Endpoint : f = e \/ f = Peer(e)
<1>1. PICK p \in Endpoint : Endpoint = {e, p} /\ p # e
  BY KeyUpdateConstants
<1>2. Peer(e) = p
  BY <1>1 DEF Peer
<1>3. Peer(p) = e
  BY <1>1 DEF Peer
<1> QED
  BY <1>1, <1>2, <1>3

LEMMA BitFacts ==
    ASSUME NEW n \in Nat
    PROVE  /\ Bit(n) \in {0, 1}
           /\ Bit(n + 1) \in {0, 1}
           /\ Bit(n + 1) # Bit(n)
BY SMT DEF Bit

\* The packets under way are what the handler of ch_rx_handle_packet() can see.
\* The fields of the records and their types.
LEMMA FieldTypes ==
    ASSUME Types, NEW e \in Endpoint
    PROVE  /\ rx[e] \in RxRec /\ rx[e].epoch \in Nat /\ rx[e].updating \in BOOLEAN
           /\ rx[e].slot \in SlotMap /\ rx[e].ku \in Nat
           /\ rx[e].startPn \in 0..PnInvalid
           /\ tx[e] \in TxRec /\ tx[e].epoch \in Nat /\ tx[e].nextPn \in Nat
           /\ ch[e] \in ChRec /\ ch[e].kuLocal \in BOOLEAN /\ ch[e].txku \in BOOLEAN
           /\ ch[e].txkuPn \in 0..PnInvalid /\ ch[e].rxkuExpected \in BOOLEAN
           /\ ch[e].rxku \in BOOLEAN /\ ch[e].pendingConfirm \in BOOLEAN
           /\ ch[e].triggerPn \in 0..PnInvalid /\ ch[e].wantAck \in BOOLEAN
           /\ ackm[e] \in AckRec /\ ackm[e].largestAcked \in 0..MaxSent
           /\ ackm[e].received \in SUBSET (0..MaxSent)
           /\ batch[e] \in BatchRec /\ batch[e].pkts \in Seq(Item)
           /\ MaxSent \in Nat /\ MaxInit \in Nat /\ PnInvalid = MaxSent + 2
<1>1. /\ rx[e] \in RxRec /\ tx[e] \in TxRec /\ ch[e] \in ChRec /\ ackm[e] \in AckRec
      /\ batch[e] \in BatchRec
  BY DEF Types
<1>2. MaxSent \in Nat /\ MaxInit \in Nat /\ PnInvalid = MaxSent + 2
  BY KeyUpdateConstants DEF PnInvalid
<1>3. /\ rx[e].epoch \in Nat /\ rx[e].updating \in BOOLEAN
      /\ rx[e].slot \in SlotMap /\ rx[e].ku \in Nat
      /\ rx[e].startPn \in 0..PnInvalid /\ tx[e].epoch \in Nat /\ tx[e].nextPn \in Nat
  BY <1>1 DEF RxRec, TxRec
<1>4. /\ ch[e].kuLocal \in BOOLEAN /\ ch[e].txku \in BOOLEAN
      /\ ch[e].txkuPn \in 0..PnInvalid /\ ch[e].rxkuExpected \in BOOLEAN
      /\ ch[e].rxku \in BOOLEAN /\ ch[e].pendingConfirm \in BOOLEAN
      /\ ch[e].triggerPn \in 0..PnInvalid /\ ch[e].wantAck \in BOOLEAN
  BY <1>1 DEF ChRec
<1>5. /\ ackm[e].largestAcked \in 0..MaxSent /\ ackm[e].received \in SUBSET (0..MaxSent)
      /\ batch[e].pkts \in Seq(Item)
  BY <1>1 DEF AckRec, BatchRec
<1> QED
  BY <1>1, <1>2, <1>3, <1>4, <1>5

LEMMA TransitType ==
    ASSUME Types, NEW e \in Endpoint
    PROVE  /\ \A x \in InTransit(e) : x \in Item
           /\ \A i \in DOMAIN batch[e].pkts : /\ batch[e].pkts[i] \in InTransit(Peer(e))
                                              /\ batch[e].pkts[i] \in Item
           /\ \A k \in net : k.from = e => View(k) \in InTransit(e)
<1>1. \A f \in Endpoint : \A i \in DOMAIN batch[f].pkts : batch[f].pkts[i] \in Item
  <2>1. TAKE f \in Endpoint
  <2>2. batch[f].pkts \in Seq(Item)
    BY FieldTypes
  <2> QED
    BY <2>2
<1>2. \A k \in net : View(k) \in Item
  BY DEF Types, Packet, Item, View
<1> QED
  BY <1>1, <1>2, PeerFacts DEF InTransit

LEMMA LargestReceivedType ==
    ASSUME Types, NEW e \in Endpoint
    PROVE  /\ LargestReceived(e) = NoAck \/ LargestReceived(e) \in ackm[e].received
           /\ LargestReceived(e) \in {NoAck} \cup 0..MaxSent
<1>1. ackm[e].received \in SUBSET (0..MaxSent)
  BY FieldTypes
<1>2. CASE ackm[e].received = {}
  BY <1>2 DEF LargestReceived
<1>3. CASE ackm[e].received # {}
  <2>1. MaxSent \in Nat /\ \A n \in ackm[e].received : n <= MaxSent
    BY <1>1, KeyUpdateConstants
  <2>2. ackm[e].received \in SUBSET Nat
    BY <1>1
  <2>3. \E n \in ackm[e].received : \A m \in ackm[e].received : m <= n
    BY <1>3, <2>1, <2>2, NatMax
  <2> QED
    BY <1>1, <1>3, <2>3 DEF LargestReceived
<1> QED
  BY <1>2, <1>3

-----------------------------------------------------------------------------
\* One lemma for each action.

\* An update may start only when the last one is acknowledged, hence answered.
LEMMA AllowedMeansSettled ==
    ASSUME KeyInv, NEW e \in Endpoint, TxkuAllowed(e)
    PROVE  /\ tx[e].epoch = rx[Peer(e)].epoch
           /\ tx[e].epoch = rx[e].epoch
           /\ ~ch[e].kuLocal
           /\ ~ch[Peer(e)].pendingConfirm
<1> DEFINE p == Peer(e)
<1>1. p \in Endpoint /\ Peer(p) = e
  BY PeerFacts
<1>2. Types /\ Epochs(e) /\ AckKnown(e) /\ Received(p) /\ Epochs(p) /\ Unconfirmed(p)
  BY <1>1 DEF KeyInv, EndOK
<1>3. /\ rx[e].epoch \in Nat /\ rx[p].epoch \in Nat /\ tx[e].epoch \in Nat
      /\ ackm[e].largestAcked \in 0..MaxSent
      /\ ch[e].txkuPn \in 0..PnInvalid
      /\ ch[e].txku \in BOOLEAN
      /\ MaxSent \in Nat
      /\ PnInvalid = MaxSent + 2
  BY <1>1, <1>2, FieldTypes
<1>4. CASE ~ch[e].txku
  BY <1>1, <1>2, <1>3, <1>4 DEF Epochs, Unconfirmed
<1>5. CASE ch[e].txku
  <2>1. ackm[e].largestAcked >= ch[e].txkuPn
    BY <1>5 DEF TxkuAllowed, TxkuInProgress
  <2>2. rx[e].epoch = tx[e].epoch
    BY <1>2, <1>5, <2>1 DEF AckKnown
  <2>3. rx[p].epoch = tx[e].epoch
    BY <1>1, <1>2, <1>3, <1>5, <2>1 DEF AckKnown, Received
  <2>4. ~ch[p].pendingConfirm
    BY <1>1, <1>2, <1>3, <2>1 DEF Unconfirmed
  <2> QED
    BY <1>2, <1>3, <2>2, <2>3, <2>4 DEF Epochs
<1> QED
  BY <1>3, <1>4, <1>5

LEMMA TriggerStep ==
    ASSUME KeyInv, NEW e \in Endpoint, TriggerTxku(e)
    PROVE  KeyInv'
<1> DEFINE p == Peer(e)
<1>1. p \in Endpoint /\ p # e /\ Peer(p) = e /\ \A f \in Endpoint : f = e \/ f = p
  BY PeerFacts
<1>2. Types /\ EndOK(e) /\ EndOK(p)
  BY <1>1 DEF KeyInv
<1>3. /\ tx[e].epoch = rx[p].epoch
      /\ tx[e].epoch = rx[e].epoch
      /\ ~ch[e].kuLocal
      /\ ~ch[p].pendingConfirm
  BY AllowedMeansSettled DEF TriggerTxku
<1>4. /\ MaxSent \in Nat /\ MaxInit \in Nat /\ PnInvalid = MaxSent + 2
      /\ tx[e].nextPn \in Nat /\ tx[e].epoch \in Nat /\ tx[p].epoch \in Nat
      /\ initiated \in Nat /\ sent \in 0..MaxSent /\ ch[e] \in ChRec /\ tx[e] \in TxRec
  BY <1>1, <1>2, FieldTypes DEF Types
<1>5. tx[e].nextPn <= MaxSent + 1
  BY <1>2, <1>4 DEF EndOK, Epochs
<1>6. /\ ch' = [ch EXCEPT ![e] = [ch[e] EXCEPT !.kuLocal = TRUE, !.txku = TRUE,
                                   !.txkuPn = tx[e].nextPn, !.rxkuExpected = TRUE]]
      /\ tx' = [tx EXCEPT ![e] = [tx[e] EXCEPT !.epoch = tx[e].epoch + 1]]
  BY <1>2, <1>4 DEF TriggerTxku, Triggered, LocalUpdate, Types, ChRec
<1>7. /\ ch'[e] = [ch[e] EXCEPT !.kuLocal = TRUE, !.txku = TRUE,
                                !.txkuPn = tx[e].nextPn, !.rxkuExpected = TRUE]
      /\ tx'[e] = [tx[e] EXCEPT !.epoch = tx[e].epoch + 1]
      /\ tx'[p] = tx[p] /\ ch'[p] = ch[p]
  BY <1>1, <1>2, <1>6 DEF Types
<1>a. /\ tx'[p] = tx[p] /\ ch'[p] = ch[p]
      /\ initiated' = initiated + 1 /\ initiated < MaxInit
      /\ rx' = rx /\ ackm' = ackm /\ batch' = batch /\ net' = net
      /\ error' = error /\ sent' = sent
  BY <1>7 DEF TriggerTxku, LocalUpdate
<1>8. /\ ch'[e] \in ChRec /\ tx'[e] \in TxRec
      /\ ch'[e].kuLocal /\ ch'[e].txku /\ ch'[e].rxkuExpected
      /\ ch'[e].txkuPn = tx[e].nextPn /\ ch'[e].rxku = ch[e].rxku
      /\ ch'[e].pendingConfirm = ch[e].pendingConfirm
      /\ ch'[e].triggerPn = ch[e].triggerPn /\ ch'[e].wantAck = ch[e].wantAck
      /\ tx'[e].epoch = tx[e].epoch + 1 /\ tx'[e].nextPn = tx[e].nextPn
  <2>1. tx[e].nextPn \in 0..PnInvalid
    BY <1>4, <1>5
  <2>2. /\ ch'[e].kuLocal /\ ch'[e].txku /\ ch'[e].rxkuExpected
        /\ ch'[e].txkuPn = tx[e].nextPn /\ ch'[e].rxku = ch[e].rxku
        /\ ch'[e].pendingConfirm = ch[e].pendingConfirm
        /\ ch'[e].triggerPn = ch[e].triggerPn /\ ch'[e].wantAck = ch[e].wantAck
    BY <1>4, <1>7 DEF ChRec
  <2>3. ch'[e] \in ChRec
    BY <1>4, <1>7, <2>1 DEF ChRec
  <2>4. tx'[e].epoch = tx[e].epoch + 1 /\ tx'[e].nextPn = tx[e].nextPn /\ tx'[e] \in TxRec
    BY <1>4, <1>7 DEF TxRec
  <2> QED
    BY <2>2, <2>3, <2>4
<1>9. Types'
  BY <1>2, <1>4, <1>6, <1>8, <1>a DEF Types
<1>10. /\ InTransit(e)' = InTransit(e) /\ InTransit(p)' = InTransit(p)
       /\ \A x \in InTransit(e) : x.pn \in Nat /\ x.epoch \in Nat
       /\ \A x \in InTransit(p) : x.ack \in Int /\ x.epoch \in Nat
  <2>1. \A x \in InTransit(e) \cup InTransit(p) : x \in Item
    BY <1>1, <1>2, TransitType
  <2>2. \A x \in InTransit(e) \cup InTransit(p) :
           x.pn \in Nat /\ x.epoch \in Nat /\ x.ack \in Int
    BY <1>4, <2>1 DEF Item, NoAck
  <2> QED
    BY <1>1, <1>a, <2>2 DEF InTransit
<1>11. Slots(e)' /\ Slots(p)'
  BY <1>2, <1>a, <1>8 DEF Slots, EndOK
<1>12. Epochs(e)' /\ Epochs(p)'
  <2>1. Epochs(e) /\ Epochs(p)
    BY <1>2 DEF EndOK
  <2>a. tx[e].epoch <= initiated /\ tx[e].nextPn <= sent + 1 /\ ~error[e]
    BY <2>1 DEF Epochs
  <2>b. /\ tx'[e].epoch = rx'[e].epoch + 1
        /\ tx'[e].epoch = rx'[p].epoch + 1
        /\ tx'[e].epoch <= initiated'
        /\ tx'[e].nextPn <= sent' + 1
        /\ ~error'[e]
        /\ ch'[e].txkuPn <= tx'[e].nextPn
    <3>1. tx'[e].epoch = rx'[e].epoch + 1
      BY <1>3, <1>8, <1>a
    <3>2. tx'[e].epoch = rx'[p].epoch + 1
      BY <1>3, <1>8, <1>a
    <3>3. tx'[e].epoch <= initiated'
      BY <1>4, <1>8, <1>a, <2>a
    <3>4. tx'[e].nextPn <= sent' + 1
      BY <1>8, <1>a, <2>a
    <3>5. ~error'[e]
      BY <1>a, <2>a
    <3>6. ch'[e].txkuPn <= tx'[e].nextPn
      BY <1>4, <1>8
    <3> QED
      BY <3>1, <3>2, <3>3, <3>4, <3>5, <3>6
  <2>2. Epochs(e)'
    BY <1>8, <2>b DEF Epochs
  <2>3. Epochs(p)'
    BY <1>1, <1>4, <1>a, <2>1 DEF Epochs
  <2> QED
    BY <2>2, <2>3
<1>13. Transit(e)'
  <2>1. \A x \in InTransit(e) : PacketOK(e, x)'
    BY <1>1, <1>2, <1>4, <1>a, <1>8, <1>10 DEF Transit, PacketOK, EndOK
  <2> QED
    BY <1>2, <1>10, <2>1 DEF Transit, EndOK
<1>14. Transit(p)'
  <2>1. \A x \in InTransit(p) : x.ack < tx[e].nextPn
    BY <1>1, <1>2, <1>4, <1>10 DEF Transit, PacketOK, EndOK, Received, NoAck
  <2>2. \A x \in InTransit(p) : PacketOK(p, x)'
    BY <1>1, <1>2, <1>4, <1>a, <1>8, <1>10, <2>1 DEF Transit, PacketOK, EndOK
  <2> QED
    BY <1>2, <1>10, <2>2 DEF Transit, EndOK
<1>15. Batched(e)' /\ Batched(p)'
  BY <1>2, <1>a DEF Batched, EndOK
<1>16. Received(e)' /\ Received(p)'
  <2>1. ackm[p].received \subseteq Nat
    BY <1>1, <1>2, FieldTypes
  <2> QED
    BY <1>1, <1>2, <1>4, <1>a, <1>8, <2>1 DEF Received, EndOK
<1>17. AckKnown(e)' /\ AckKnown(p)'
  <2>1. ackm[e].largestAcked < tx[e].nextPn /\ ackm[e].largestAcked \in Nat
    <3>1. ackm[e].largestAcked \in Nat
      BY <1>2, FieldTypes
    <3>2. AckKnown(e) /\ Received(p)
      BY <1>2 DEF EndOK
    <3> QED
      BY <1>1, <3>1, <3>2 DEF AckKnown, Received
  <2> QED
    BY <1>1, <1>2, <1>4, <1>a, <1>8, <2>1 DEF AckKnown, EndOK
<1>18. Unconfirmed(e)' /\ Unconfirmed(p)'
  BY <1>1, <1>2, <1>3, <1>a, <1>8, <1>10 DEF Unconfirmed, EndOK
<1> QED
  BY <1>1, <1>9, <1>11, <1>12, <1>13, <1>14, <1>15, <1>16, <1>17, <1>18 DEF KeyInv, EndOK

LEMMA TickStep ==
    ASSUME KeyInv, NEW e \in Endpoint, RxkuTick(e)
    PROVE  KeyInv'
<1> DEFINE p == Peer(e)
<1>1. p \in Endpoint /\ p # e /\ Peer(p) = e /\ \A f \in Endpoint : f = e \/ f = p
  BY PeerFacts
<1>2. Types /\ EndOK(e) /\ EndOK(p)
  BY <1>1 DEF KeyInv
<1>3. /\ rx[e] \in RxRec /\ rx[e].epoch \in Nat /\ rx[e].ku \in Nat
      /\ rx[e].slot \in SlotMap /\ ch[e] \in ChRec
  BY <1>2, FieldTypes
<1>4. Bit(rx[e].epoch) \in {0, 1} /\ Bit(rx[e].epoch + 1) \in {0, 1}
      /\ Bit(rx[e].epoch + 1) # Bit(rx[e].epoch)
  BY <1>3, BitFacts
<1> DEFINE slot == [rx[e].slot EXCEPT ![Bit(rx[e].epoch + 1)] = rx[e].ku]
<1>5. /\ ch' = [ch EXCEPT ![e] = [ch[e] EXCEPT !.rxku = FALSE]]
      /\ rx' = [rx EXCEPT ![e] = [rx[e] EXCEPT !.slot = slot, !.ku = rx[e].ku + 1,
                                               !.updating = FALSE]]
      /\ ch[e].rxku
      /\ UNCHANGED <<tx, ackm, batch, net, error, sent, initiated>>
  BY <1>2, <1>3 DEF RxkuTick, Types, RxRec
<1>6. /\ ch'[e] = [ch[e] EXCEPT !.rxku = FALSE]
      /\ rx'[e] = [rx[e] EXCEPT !.slot = slot, !.ku = rx[e].ku + 1, !.updating = FALSE]
      /\ ch'[p] = ch[p] /\ rx'[p] = rx[p]
  BY <1>1, <1>2, <1>5 DEF Types
<1>7. /\ slot \in SlotMap
      /\ slot[Bit(rx[e].epoch + 1)] = rx[e].ku
      /\ slot[Bit(rx[e].epoch)] = rx[e].slot[Bit(rx[e].epoch)]
  BY <1>3, <1>4 DEF SlotMap
<1> HIDE DEF slot
<1>8. /\ rx'[e] \in RxRec /\ ch'[e] \in ChRec
      /\ rx'[e].epoch = rx[e].epoch /\ rx'[e].slot = slot /\ rx'[e].ku = rx[e].ku + 1
      /\ ~rx'[e].updating
      /\ ch'[e].kuLocal = ch[e].kuLocal /\ ch'[e].txku = ch[e].txku
      /\ ch'[e].txkuPn = ch[e].txkuPn /\ ch'[e].rxkuExpected = ch[e].rxkuExpected
      /\ ch'[e].pendingConfirm = ch[e].pendingConfirm
      /\ ch'[e].wantAck = ch[e].wantAck /\ ch'[e].triggerPn = ch[e].triggerPn
      /\ ~ch'[e].rxku
  <2>1. /\ rx'[e].epoch = rx[e].epoch /\ rx'[e].slot = slot /\ rx'[e].ku = rx[e].ku + 1
        /\ ~rx'[e].updating
    BY <1>3, <1>6 DEF RxRec
  <2>2. rx'[e] \in RxRec
    <3>1. rx[e].ku + 1 \in Nat
      BY <1>3
    <3> QED
      BY <3>1, <1>3, <1>6, <1>7
         DEF RxRec
  <2>3. /\ ch'[e].kuLocal = ch[e].kuLocal /\ ch'[e].txku = ch[e].txku
        /\ ch'[e].txkuPn = ch[e].txkuPn /\ ch'[e].rxkuExpected = ch[e].rxkuExpected
        /\ ch'[e].pendingConfirm = ch[e].pendingConfirm
        /\ ch'[e].wantAck = ch[e].wantAck /\ ch'[e].triggerPn = ch[e].triggerPn
        /\ ~ch'[e].rxku
    BY <1>3, <1>6 DEF ChRec
  <2>4. ch'[e] \in ChRec
    BY <1>3, <1>6 DEF ChRec
  <2> QED
    BY <2>1, <2>2, <2>3, <2>4
<1>9. Types'
  BY <1>2, <1>5, <1>6, <1>8 DEF Types
<1>10. InTransit(e)' = InTransit(e) /\ InTransit(p)' = InTransit(p)
  BY <1>1, <1>5 DEF InTransit
<1>11. Slots(p)'
  BY <1>2, <1>6 DEF Slots, EndOK
<1>12. Slots(e)'
  <2>1. rx[e].slot[Bit(rx[e].epoch)] = rx[e].epoch /\ rx[e].ku = rx[e].epoch + 1
    BY <1>2, <1>4, <1>5 DEF Slots, EndOK
  <2>2. \A b \in {0, 1} : b = Bit(rx[e].epoch) \/ b = Bit(rx[e].epoch + 1)
    BY <1>4
  <2> QED
    BY <1>3, <1>4, <1>7, <1>8, <2>1, <2>2 DEF Slots
<1>13. Epochs(e)' /\ Epochs(p)'
  BY <1>1, <1>2, <1>5, <1>6, <1>8 DEF Epochs, EndOK
<1>14. Transit(e)' /\ Transit(p)'
  <2>1. \A x \in InTransit(e) : PacketOK(e, x)'
    BY <1>1, <1>2, <1>5, <1>6, <1>8 DEF Transit, PacketOK, EndOK
  <2>2. \A x \in InTransit(p) : PacketOK(p, x)'
    BY <1>1, <1>2, <1>5, <1>6, <1>8 DEF Transit, PacketOK, EndOK
  <2> QED
    BY <1>2, <1>10, <2>1, <2>2 DEF Transit, EndOK
<1>15. Batched(e)' /\ Batched(p)'
  BY <1>2, <1>5, <1>6, <1>8 DEF Batched, EndOK
<1>16. Received(e)' /\ Received(p)'
  BY <1>1, <1>2, <1>5, <1>6, <1>8 DEF Received, EndOK
<1>17. AckKnown(e)' /\ AckKnown(p)'
  BY <1>1, <1>2, <1>5, <1>6, <1>8 DEF AckKnown, EndOK
<1>18. Unconfirmed(e)' /\ Unconfirmed(p)'
  BY <1>1, <1>2, <1>5, <1>6, <1>8, <1>10 DEF Unconfirmed, EndOK
<1> QED
  BY <1>1, <1>9, <1>11, <1>12, <1>13, <1>14, <1>15, <1>16, <1>17, <1>18 DEF KeyInv, EndOK

\* The packet at the head of the batch raises no alarm: it is not under old keys
\* after new ones were seen, and it acknowledges no update before its answer.
LEMMA HeadIsFine ==
    ASSUME KeyInv, NEW e \in Endpoint, batch[e].pkts # <<>>
    PROVE  LET q == Head(batch[e].pkts) IN
           /\ q \in Item
           /\ q \in InTransit(Peer(e))
           /\ q.epoch <= rx[e].epoch
           /\ ~NewPacketOldKeys(e, q)
           /\ ~AckWithoutUpdate(e, q)
           /\ ch[e].txku /\ q.ack >= ch[e].txkuPn => rx[e].epoch = tx[e].epoch
<1> DEFINE p == Peer(e)
           q == Head(batch[e].pkts)
<1>1. p \in Endpoint /\ Peer(p) = e
  BY PeerFacts
<1>2. Types /\ Epochs(e) /\ Transit(p) /\ Batched(e)
  BY <1>1 DEF KeyInv, EndOK
<1>3. /\ batch[e].pkts \in Seq(Item) /\ rx[e].epoch \in Nat /\ tx[e].epoch \in Nat
      /\ ch[e].txkuPn \in 0..PnInvalid /\ ch[e].triggerPn \in 0..PnInvalid
      /\ ch[e].kuLocal \in BOOLEAN /\ ch[e].txku \in BOOLEAN
      /\ MaxSent \in Nat /\ PnInvalid = MaxSent + 2
  BY <1>2, FieldTypes
<1>4. 1 \in DOMAIN batch[e].pkts /\ q = batch[e].pkts[1]
  BY <1>3
<1>5. q \in InTransit(p) /\ q \in Item /\ q.epoch <= rx[e].epoch
  BY <1>1, <1>2, <1>4, TransitType DEF Batched
<1> HIDE DEF q
<1>6. /\ ch[e].txku /\ q.ack >= ch[e].txkuPn => q.epoch >= tx[e].epoch
      /\ ch[e].rxku /\ q.pn >= ch[e].triggerPn => q.epoch >= rx[e].epoch
  BY <1>1, <1>2, <1>5 DEF Transit, PacketOK
<1>7. q.pn \in Nat /\ q.epoch \in Nat /\ q.ack \in Int /\ q.ack <= MaxSent
  BY <1>3, <1>5 DEF Item, NoAck
<1>8. rx[e].epoch <= tx[e].epoch
  BY <1>2, <1>3 DEF Epochs
<1>9. ch[e].txku /\ q.ack >= ch[e].txkuPn => rx[e].epoch = tx[e].epoch /\ q.epoch = rx[e].epoch
  BY <1>3, <1>5, <1>6, <1>7, <1>8
<1>10. ~NewPacketOldKeys(e, q)
  BY <1>3, <1>6, <1>7 DEF NewPacketOldKeys
<1>11. ~AckWithoutUpdate(e, q)
  <2> SUFFICES ASSUME AckWithoutUpdate(e, q) PROVE FALSE
    OBVIOUS
  <2>1. q.ack >= ch[e].txkuPn /\ (q.epoch < rx[e].epoch \/ ch[e].rxkuExpected)
    BY DEF AckWithoutUpdate
  <2>2. ch[e].txku
    <3> SUFFICES ASSUME ~ch[e].txku PROVE FALSE
      BY <1>3
    <3>1. ch[e].txkuPn = PnInvalid
      BY <1>2 DEF Epochs
    <3> QED
      BY <1>3, <1>7, <2>1, <3>1
  <2>3. rx[e].epoch = tx[e].epoch /\ q.epoch = rx[e].epoch
    BY <1>9, <2>1, <2>2
  <2>4. ch[e].kuLocal
    BY <1>2, <1>3, <1>7, <2>1, <2>3 DEF Epochs
  <2> QED
    BY <1>2, <1>3, <2>3, <2>4 DEF Epochs
<1> QED
  BY <1>5, <1>9, <1>10, <1>11 DEF q

LEMMA HandleStep ==
    ASSUME KeyInv, NEW e \in Endpoint, HandlePacket(e)
    PROVE  KeyInv'
<1> DEFINE p == Peer(e)
           s == batch[e].pkts
           q == Head(s)
           a == ackm[e]
<1>1. p \in Endpoint /\ p # e /\ Peer(p) = e /\ \A f \in Endpoint : f = e \/ f = p
  BY PeerFacts
<1>2. Types /\ EndOK(e) /\ EndOK(p)
  BY <1>1 DEF KeyInv
<1>3. s # <<>> /\ s \in Seq(Item)
  BY <1>2, FieldTypes DEF HandlePacket
<1>4. /\ q \in Item /\ q \in InTransit(p) /\ q.epoch <= rx[e].epoch
      /\ ~NewPacketOldKeys(e, q) /\ ~AckWithoutUpdate(e, q)
      /\ ch[e].txku /\ q.ack >= ch[e].txkuPn => rx[e].epoch = tx[e].epoch
  BY <1>3, HeadIsFine
<1>5. /\ a \in AckRec /\ a.largestAcked \in 0..MaxSent /\ a.received \in SUBSET (0..MaxSent)
      /\ MaxSent \in Nat /\ PnInvalid = MaxSent + 2
  BY <1>2, FieldTypes
<1>6. q.pn \in 0..MaxSent /\ q.ack \in {NoAck} \cup 0..MaxSent /\ q.ack \in Int
  BY <1>4, <1>5 DEF Item, NoAck
<1> DEFINE la == LargestAcked(a.largestAcked, q.ack)
<1>7. la = a.largestAcked \/ (q.ack # NoAck /\ la = q.ack)
  BY DEF LargestAcked
<1>8. la \in 0..MaxSent
  BY <1>5, <1>6, <1>7
<1> HIDE DEF la
<1>9. /\ ackm' = [ackm EXCEPT ![e] = [a EXCEPT !.largestAcked = la,
                                               !.received = a.received \cup {q.pn}]]
      /\ batch' = [batch EXCEPT ![e] = [pkts |-> Tail(s), handling |-> Tail(s) # <<>>]]
  BY <1>2, <1>4 DEF HandlePacket, Types, AckRec, la
<1>10. /\ net' = {k \in net : k.from = e \/ k.pn # q.pn}
       /\ rx' = rx /\ tx' = tx /\ ch' = ch /\ error' = error
       /\ sent' = sent /\ initiated' = initiated
  BY <1>4 DEF HandlePacket
<1>11. /\ ackm'[e] = [a EXCEPT !.largestAcked = la, !.received = a.received \cup {q.pn}]
       /\ batch'[e] = [pkts |-> Tail(s), handling |-> Tail(s) # <<>>]
       /\ ackm'[p] = ackm[p] /\ batch'[p] = batch[p]
  BY <1>1, <1>2, <1>9 DEF Types
<1>12. /\ ackm'[e].largestAcked = la /\ ackm'[e].received = a.received \cup {q.pn}
       /\ batch'[e].pkts = Tail(s)
       /\ ackm'[p] = ackm[p] /\ batch'[p] = batch[p]
  BY <1>5, <1>11 DEF AckRec
<1>13. ackm'[e] \in AckRec
  BY <1>5, <1>6, <1>8, <1>11 DEF AckRec
<1>14. batch'[e] \in BatchRec
  <2>1. Tail(s) \in Seq(Item)
    BY <1>3
  <2> QED
    BY <1>11, <2>1 DEF BatchRec
<1>15. Types'
  BY <1>2, <1>9, <1>10, <1>11, <1>13, <1>14 DEF Types
<1>16. \A i \in DOMAIN Tail(s) : i + 1 \in DOMAIN s /\ Tail(s)[i] = s[i + 1]
  BY <1>3
<1>17. \A i \in DOMAIN s : i = 1 \/ (i - 1 \in DOMAIN Tail(s) /\ Tail(s)[i - 1] = s[i])
  BY <1>3
<1>18. q = s[1]
  BY <1>3
<1> HIDE DEF s, q, a
<1>19. InTransit(e)' \subseteq InTransit(e) /\ InTransit(p)' \subseteq InTransit(p)
  <2>1. net' \subseteq net
    BY <1>10
  <2>2. InTransit(e)' \subseteq InTransit(e)
    BY <1>12, <2>1 DEF InTransit
  <2>3. \A i \in DOMAIN batch'[e].pkts : \E j \in DOMAIN batch[e].pkts :
            batch'[e].pkts[i] = batch[e].pkts[j]
    BY <1>12, <1>16 DEF s
  <2>4. InTransit(p)' \subseteq InTransit(p)
    BY <1>1, <2>1, <2>3 DEF InTransit
  <2> QED
    BY <2>2, <2>4
<1>20. Slots(e)' /\ Slots(p)' /\ Epochs(e)' /\ Epochs(p)'
  BY <1>1, <1>2, <1>10 DEF Slots, Epochs, EndOK
<1>21. Transit(e)' /\ Transit(p)'
  <2>1. \A x \in InTransit(e) : PacketOK(e, x)'
    BY <1>1, <1>2, <1>10, <1>12 DEF Transit, PacketOK, EndOK, a
  <2>2. \A x \in InTransit(p) : PacketOK(p, x)'
    BY <1>1, <1>2, <1>10, <1>12 DEF Transit, PacketOK, EndOK
  <2> QED
    BY <1>2, <1>19, <2>1, <2>2 DEF Transit, EndOK
<1>22. Batched(e)' /\ Batched(p)'
  <2>1. Batched(e)'
    BY <1>2, <1>10, <1>12, <1>16 DEF Batched, EndOK, s
  <2> QED
    BY <1>2, <1>10, <1>12, <2>1 DEF Batched, EndOK
<1>23. PacketOK(p, q)
  BY <1>2, <1>4 DEF Transit, EndOK
<1>24. Received(e)' /\ Received(p)'
  <2>1. Received(p)'
    BY <1>1, <1>2, <1>10, <1>12 DEF Received, EndOK
  <2>2. Epochs(p) /\ Received(e)
    BY <1>2 DEF EndOK
  <2>3. rx[e].epoch \in Nat /\ tx[p].epoch \in Nat
    BY <1>1, <1>2, FieldTypes
  <2>4. q.pn < tx[p].nextPn
    BY <1>23 DEF PacketOK
  <2>5. ASSUME ch[p].txku, q.pn >= ch[p].txkuPn PROVE rx[e].epoch = tx[p].epoch
    <3>1. q.epoch = tx[p].epoch
      BY <1>23, <2>5 DEF PacketOK
    <3>2. tx[p].epoch = rx[e].epoch \/ tx[p].epoch = rx[e].epoch + 1
      BY <1>1, <2>2 DEF Epochs
    <3> QED
      BY <1>4, <2>3, <3>1, <3>2
  <2>6. Received(e)'
    BY <1>10, <1>12, <2>2, <2>4, <2>5 DEF Received, a
  <2> QED
    BY <2>1, <2>6
<1>25. AckKnown(e)' /\ AckKnown(p)'
  <2>1. AckKnown(p)'
    BY <1>1, <1>2, <1>10, <1>12 DEF AckKnown, EndOK, a
  <2>2. la \in ackm[p].received
    BY <1>1, <1>2, <1>7, <1>23 DEF AckKnown, PacketOK, EndOK, a
  <2>3. ch[e].txku /\ la >= ch[e].txkuPn => rx[e].epoch = tx[e].epoch
    BY <1>2, <1>4, <1>7 DEF AckKnown, EndOK, a
  <2> QED
    BY <1>10, <1>12, <2>1, <2>2, <2>3 DEF AckKnown
<1>26. Unconfirmed(e)' /\ Unconfirmed(p)'
  <2>1. Unconfirmed(e)'
    <3>1. SUFFICES ASSUME ch[e].pendingConfirm
                   PROVE  /\ ch[e].triggerPn \in ackm'[e].received
                             \/ \E i \in DOMAIN Tail(s) : Tail(s)[i].pn = ch[e].triggerPn
      BY <1>2, <1>10, <1>12, <1>19 DEF Unconfirmed, EndOK
    <3>2. \/ ch[e].triggerPn \in a.received
          \/ \E i \in DOMAIN s : s[i].pn = ch[e].triggerPn
      BY <1>2, <3>1 DEF Unconfirmed, EndOK, a, s
    <3>3. CASE ch[e].triggerPn \in a.received
      BY <1>12, <3>3
    <3>4. ASSUME NEW i \in DOMAIN s, s[i].pn = ch[e].triggerPn
          PROVE  \/ ch[e].triggerPn \in ackm'[e].received
                 \/ \E j \in DOMAIN Tail(s) : Tail(s)[j].pn = ch[e].triggerPn
      BY <1>12, <1>17, <1>18, <3>4
    <3> QED
      BY <3>2, <3>3, <3>4
  <2>2. Unconfirmed(p)'
    <3>1. SUFFICES ASSUME ch[p].pendingConfirm PROVE la < ch[e].txkuPn
      BY <1>1, <1>2, <1>10, <1>12, <1>19 DEF Unconfirmed, EndOK
    <3>2. ackm[e].largestAcked < ch[e].txkuPn /\ q.ack < ch[e].txkuPn
      BY <1>1, <1>2, <1>4, <3>1 DEF Unconfirmed, EndOK
    <3> QED
      BY <1>7, <3>2 DEF a
  <2> QED
    BY <2>1, <2>2
<1> QED
  BY <1>1, <1>15, <1>20, <1>21, <1>22, <1>24, <1>25, <1>26 DEF KeyInv, EndOK

\* Does packet k tell e that its peer has moved on to the next keys?
NewKeys(e, k) == Bit(k.epoch) # Bit(rx[e].epoch) /\ ~rx[e].updating

\* The epoch worked out from the phase bit is the true one, and the next keys are
\* only met when their reception is allowed.
LEMMA DecryptedEpoch ==
    ASSUME KeyInv, NEW e \in Endpoint, NEW k \in net, k.from = Peer(e), Decryptable(e, k)
    PROVE  /\ View(k) \in InTransit(Peer(e))
           /\ View(k) \in Item
           /\ RxKeyEpoch(e, k) = k.epoch
           /\ ~NewKeys(e, k) => k.epoch <= rx[e].epoch
           /\ NewKeys(e, k) => /\ k.epoch = rx[e].epoch + 1
                               /\ tx[Peer(e)].epoch = rx[e].epoch + 1
                               /\ ~ch[e].rxku
                               /\ ~ch[e].pendingConfirm
                               /\ ch[Peer(e)].txku
<1> DEFINE p == Peer(e)
<1>1. p \in Endpoint /\ Peer(p) = e
  BY PeerFacts
<1>2. Types /\ Slots(e) /\ Unconfirmed(e) /\ Epochs(p) /\ Transit(p)
  BY <1>1 DEF KeyInv, EndOK
<1>3. View(k) \in InTransit(p) /\ View(k) \in Item /\ k.epoch \in Nat
  <2>1. k \in Packet
    BY <1>2 DEF Types
  <2> QED
    BY <1>1, <1>2, <2>1, TransitType DEF Packet
<1>4. /\ rx[e].epoch \in Nat /\ rx[e].updating \in BOOLEAN /\ tx[p].epoch \in Nat
      /\ ch[p].txku \in BOOLEAN
  BY <1>1, <1>2, FieldTypes
<1>5. k.epoch <= tx[p].epoch
  <2>1. PacketOK(p, View(k))
    BY <1>2, <1>3 DEF Transit
  <2> QED
    BY <2>1 DEF PacketOK, View
<1>6. Bit(k.epoch) \in {0, 1}
  BY <1>3, BitFacts
<1>7. rx[e].slot[Bit(k.epoch)] = k.epoch
  BY DEF Decryptable
<1>8. CASE Bit(k.epoch) = Bit(rx[e].epoch)
  <2>1. k.epoch = rx[e].epoch
    BY <1>2, <1>6, <1>7, <1>8 DEF Slots
  <2> QED
    BY <1>3, <1>4, <1>8, <2>1 DEF RxKeyEpoch, NewKeys
<1>9. CASE Bit(k.epoch) # Bit(rx[e].epoch) /\ rx[e].updating
  <2>1. k.epoch = rx[e].epoch - 1
    BY <1>2, <1>6, <1>7, <1>9 DEF Slots
  <2> QED
    BY <1>3, <1>4, <1>9, <2>1 DEF RxKeyEpoch, NewKeys
<1>10. CASE NewKeys(e, k)
  <2>1. k.epoch = rx[e].epoch + 1
    BY <1>2, <1>6, <1>7, <1>10 DEF Slots, NewKeys
  <2>2. tx[p].epoch = rx[e].epoch + 1
    BY <1>1, <1>2, <1>4, <1>5, <2>1 DEF Epochs
  <2>3. ~ch[e].rxku
    BY <1>2, <1>10 DEF Slots, NewKeys
  <2>4. ~ch[e].pendingConfirm
    BY <1>2, <1>4, <2>2 DEF Unconfirmed
  <2>5. ch[p].txku
    BY <1>2, <1>4, <2>2 DEF Epochs
  <2>6. RxKeyEpoch(e, k) = k.epoch
    BY <1>10, <2>1 DEF RxKeyEpoch, NewKeys
  <2> QED
    BY <1>3, <1>10, <2>1, <2>2, <2>3, <2>4, <2>5, <2>6
<1> QED
  BY <1>4, <1>8, <1>9, <1>10 DEF NewKeys

\* Decrypting moves a packet from the network to the batch.
LEMMA DecryptMoves ==
    ASSUME KeyInv, NEW e \in Endpoint, NEW k \in net, Decrypt(e, k)
    PROVE  /\ batch' = [batch EXCEPT ![e].pkts = Append(@, View(k))]
           /\ batch' \in [Endpoint -> BatchRec]
           /\ batch'[e].pkts = Append(batch[e].pkts, View(k))
           /\ batch'[Peer(e)] = batch[Peer(e)]
           /\ InTransit(e)' = InTransit(e)
           /\ InTransit(Peer(e))' = InTransit(Peer(e))
           /\ \A i \in DOMAIN batch'[e].pkts :
                  \/ i \in DOMAIN batch[e].pkts /\ batch'[e].pkts[i] = batch[e].pkts[i]
                  \/ batch'[e].pkts[i] = View(k)
           /\ \A i \in DOMAIN batch[e].pkts :
                  i \in DOMAIN batch'[e].pkts /\ batch'[e].pkts[i] = batch[e].pkts[i]
           /\ \E i \in DOMAIN batch'[e].pkts : batch'[e].pkts[i] = View(k)
<1> DEFINE p == Peer(e)
           s == batch[e].pkts
           v == View(k)
<1>1. p \in Endpoint /\ p # e /\ Peer(p) = e
  BY PeerFacts
<1>2. Types
  BY DEF KeyInv
<1>3. s \in Seq(Item) /\ batch[e] \in BatchRec
  BY <1>2, FieldTypes
<1>4. v \in Item /\ v \in InTransit(p) /\ RxKeyEpoch(e, k) = k.epoch
  BY DecryptedEpoch DEF Decrypt
<1>5. batch' = [batch EXCEPT ![e].pkts = Append(@, v)] /\ net' = net
  BY <1>4 DEF Decrypt, View
<1>6. batch'[e] = [batch[e] EXCEPT !.pkts = Append(s, v)] /\ batch'[p] = batch[p]
  BY <1>1, <1>2, <1>5 DEF Types
<1>7. Append(s, v) \in Seq(Item)
  BY <1>3, <1>4
<1>8. batch'[e] \in BatchRec /\ batch'[e].pkts = Append(s, v)
  BY <1>3, <1>6, <1>7 DEF BatchRec
<1>9. batch' = [batch EXCEPT ![e] = batch'[e]]
  BY <1>2, <1>5 DEF Types
<1>10. batch' \in [Endpoint -> BatchRec]
  BY <1>2, <1>8, <1>9 DEF Types
<1>11. \A i \in DOMAIN Append(s, v) : (i \in DOMAIN s /\ Append(s, v)[i] = s[i]) \/ Append(s, v)[i] = v
  BY <1>3, <1>4
<1>12. \A i \in DOMAIN s : i \in DOMAIN Append(s, v) /\ Append(s, v)[i] = s[i]
  BY <1>3, <1>4
<1>13. \E i \in DOMAIN Append(s, v) : Append(s, v)[i] = v
  <2>1. Len(s) + 1 \in DOMAIN Append(s, v) /\ Append(s, v)[Len(s) + 1] = v
    BY <1>3, <1>4
  <2> QED
    BY <2>1
<1>14. InTransit(e)' = InTransit(e)
  BY <1>5, <1>6 DEF InTransit
<1>15. InTransit(p)' = InTransit(p)
  <2> DEFINE N == {View(n) : n \in {m \in net : m.from = p}}
  <2>1. InTransit(p) = N \cup {s[i] : i \in DOMAIN s}
    BY <1>1 DEF InTransit
  <2>2. InTransit(p)' = N \cup {Append(s, v)[i] : i \in DOMAIN Append(s, v)}
    BY <1>1, <1>5, <1>8 DEF InTransit
  <2>3. v \in N
    BY DEF Decrypt
  <2> HIDE DEF N, s, v
  <2> QED
    BY <1>11, <1>12, <2>1, <2>2, <2>3
<1> QED
  BY <1>1, <1>5, <1>6, <1>8, <1>10, <1>11, <1>12, <1>13, <1>14, <1>15

LEMMA DecryptOldStep ==
    ASSUME KeyInv, NEW e \in Endpoint, NEW k \in net, Decrypt(e, k), ~NewKeys(e, k)
    PROVE  KeyInv'
<1> DEFINE p == Peer(e)
<1>1. p \in Endpoint /\ p # e /\ Peer(p) = e /\ \A f \in Endpoint : f = e \/ f = p
  BY PeerFacts
<1>2. Types /\ EndOK(e) /\ EndOK(p)
  BY <1>1 DEF KeyInv
<1>3. k.epoch <= rx[e].epoch
  BY DecryptedEpoch DEF Decrypt
<1>4. /\ rx' = rx /\ ch' = ch /\ tx' = tx /\ error' = error /\ ackm' = ackm /\ net' = net
      /\ sent' = sent /\ initiated' = initiated
  BY DEF Decrypt, NewKeys
<1>5. Types'
  BY <1>2, <1>4, DecryptMoves DEF Types
<1>6. Slots(e)' /\ Slots(p)' /\ Epochs(e)' /\ Epochs(p)' /\ Received(e)' /\ Received(p)'
      /\ AckKnown(e)' /\ AckKnown(p)'
  BY <1>1, <1>2, <1>4 DEF Slots, Epochs, Received, AckKnown, EndOK
<1>7. Transit(e)' /\ Transit(p)'
  BY <1>1, <1>2, <1>4, DecryptMoves DEF Transit, PacketOK, EndOK
<1>8. Batched(e)' /\ Batched(p)'
  <2>1. \A i \in DOMAIN batch'[e].pkts :
           (i \in DOMAIN batch[e].pkts /\ batch'[e].pkts[i] = batch[e].pkts[i])
           \/ batch'[e].pkts[i] = View(k)
    BY DecryptMoves
  <2>2. View(k).epoch <= rx[e].epoch
    BY <1>3 DEF View
  <2>3. Batched(e)'
    BY <1>2, <1>4, <2>1, <2>2 DEF Batched, EndOK
  <2>4. batch'[p] = batch[p]
    BY DecryptMoves
  <2>5. Batched(p)'
    BY <1>2, <1>4, <2>4 DEF Batched, EndOK
  <2> QED
    BY <2>3, <2>5
<1>9. Unconfirmed(e)' /\ Unconfirmed(p)'
  <2>1. Unconfirmed(e)'
    BY <1>2, <1>4, DecryptMoves DEF Unconfirmed, EndOK
  <2>2. Unconfirmed(p)'
    BY <1>1, <1>2, <1>4, DecryptMoves DEF Unconfirmed, EndOK
  <2> QED
    BY <2>1, <2>2
<1> QED
  BY <1>1, <1>5, <1>6, <1>7, <1>8, <1>9 DEF KeyInv, EndOK

LEMMA DecryptNewStep ==
    ASSUME KeyInv, NEW e \in Endpoint, NEW k \in net, Decrypt(e, k), NewKeys(e, k)
    PROVE  KeyInv'
<1> DEFINE p == Peer(e)
           epoch == IF ch[e].kuLocal THEN tx[e].epoch ELSE tx[e].epoch + 1
           pn == IF ch[e].kuLocal THEN ch[e].txkuPn ELSE tx[e].nextPn
<1>1. p \in Endpoint /\ p # e /\ Peer(p) = e /\ \A f \in Endpoint : f = e \/ f = p
  BY PeerFacts
<1>2. Types /\ EndOK(e) /\ EndOK(p)
  BY <1>1 DEF KeyInv
<1>3. /\ k.epoch = rx[e].epoch + 1 /\ tx[p].epoch = rx[e].epoch + 1
      /\ ~ch[e].rxku /\ ~ch[e].pendingConfirm /\ ch[p].txku
      /\ View(k) \in InTransit(p) /\ View(k) \in Item
  BY DecryptedEpoch DEF Decrypt
<1>4. /\ rx[e] \in RxRec /\ rx[e].epoch \in Nat /\ rx[p].epoch \in Nat
      /\ rx[e].slot \in SlotMap /\ rx[e].ku \in Nat
      /\ tx[e] \in TxRec /\ tx[e].epoch \in Nat /\ tx[p].epoch \in Nat
      /\ tx[e].nextPn \in Nat
      /\ ch[e] \in ChRec /\ ch[e].kuLocal \in BOOLEAN /\ ch[e].txkuPn \in 0..PnInvalid
      /\ ch[e].txku \in BOOLEAN /\ ch[p].txkuPn \in 0..PnInvalid
      /\ MaxSent \in Nat /\ PnInvalid = MaxSent + 2
      /\ sent \in 0..MaxSent
  BY <1>1, <1>2, FieldTypes DEF Types
<1>5. Epochs(e) /\ Epochs(p)
  BY <1>2 DEF EndOK
<1>6. /\ ch[e].kuLocal => ch[e].txku /\ tx[e].epoch = rx[e].epoch + 1
      /\ ~ch[e].kuLocal => tx[e].epoch = rx[e].epoch /\ rx[p].epoch = tx[e].epoch
  <2>1. ch[e].kuLocal => tx[e].epoch = rx[e].epoch + 1
    BY <1>5 DEF Epochs
  <2>2. ch[e].kuLocal => ch[e].txku
    BY <1>4, <1>5, <2>1 DEF Epochs
  <2>3. ~ch[e].kuLocal => tx[e].epoch = rx[e].epoch
    BY <1>5 DEF Epochs
  <2>4. tx[e].epoch = rx[p].epoch \/ tx[e].epoch = rx[p].epoch + 1
    BY <1>5 DEF Epochs
  <2>5. tx[p].epoch = rx[p].epoch \/ tx[p].epoch = rx[p].epoch + 1
    BY <1>5 DEF Epochs
  <2>6. ~ch[e].kuLocal => rx[p].epoch = tx[e].epoch
    BY <1>3, <1>4, <2>3, <2>4, <2>5
  <2> QED
    BY <2>1, <2>2, <2>3, <2>6
<1>7. /\ epoch \in Nat /\ epoch = rx[e].epoch + 1
      /\ pn \in 0..PnInvalid /\ pn <= tx[e].nextPn
  <2>1. tx[e].nextPn <= sent + 1
    BY <1>5 DEF Epochs
  <2>2. tx[e].nextPn \in 0..PnInvalid
    BY <1>4, <2>1
  <2>3. ch[e].txku => ch[e].txkuPn <= tx[e].nextPn
    BY <1>5 DEF Epochs
  <2>4. CASE ch[e].kuLocal
    BY <1>4, <1>6, <2>3, <2>4
  <2>5. CASE ~ch[e].kuLocal
    BY <1>4, <1>6, <2>2, <2>5
  <2> QED
    BY <1>4, <2>4, <2>5
<1>8. k.pn \in 0..MaxSent /\ k.pn \in 0..PnInvalid
  BY <1>3, <1>4 DEF Item, View
<1>9. /\ rx' = [rx EXCEPT ![e] = [rx[e] EXCEPT !.epoch = rx[e].epoch + 1,
                                               !.updating = TRUE, !.startPn = k.pn]]
      /\ ch' = [ch EXCEPT ![e] = [ch[e] EXCEPT !.kuLocal = FALSE, !.rxku = TRUE,
                  !.pendingConfirm = TRUE, !.triggerPn = k.pn, !.rxkuExpected = FALSE,
                  !.wantAck = TRUE, !.txku = TRUE, !.txkuPn = pn]]
      /\ tx' = [tx EXCEPT ![e] = [tx[e] EXCEPT !.epoch = epoch]]
      /\ error' = error
  <2>1. /\ rx' = [rx EXCEPT ![e].epoch = @ + 1, ![e].updating = TRUE, ![e].startPn = k.pn]
        /\ RxkuDetected(e, k.pn)
    BY DEF Decrypt, NewKeys
  <2>2. rx' = [rx EXCEPT ![e] = [rx[e] EXCEPT !.epoch = rx[e].epoch + 1,
                                              !.updating = TRUE, !.startPn = k.pn]]
    BY <1>2, <2>1 DEF Types, RxRec
  <2> DEFINE c == [ch[e] EXCEPT !.kuLocal = FALSE, !.rxku = TRUE,
                          !.pendingConfirm = TRUE, !.triggerPn = k.pn,
                          !.rxkuExpected = FALSE, !.wantAck = TRUE]
  <2>3. /\ ch' = [ch EXCEPT ![e] = IF ~ch[e].kuLocal THEN Triggered(c, e) ELSE c]
        /\ tx' = IF ~ch[e].kuLocal THEN [tx EXCEPT ![e].epoch = @ + 1] ELSE tx
        /\ error' = error
    BY <1>3, <2>1 DEF RxkuDetected, RxkuAllowed
  <2>4. tx' = [tx EXCEPT ![e] = [tx[e] EXCEPT !.epoch = epoch]]
    BY <1>2, <1>4, <2>3 DEF Types, TxRec
  <2>5. CASE ch[e].kuLocal
    <3>1. c = [ch[e] EXCEPT !.kuLocal = FALSE, !.rxku = TRUE,
                  !.pendingConfirm = TRUE, !.triggerPn = k.pn, !.rxkuExpected = FALSE,
                  !.wantAck = TRUE, !.txku = TRUE, !.txkuPn = pn]
      BY <1>4, <1>6, <2>5 DEF ChRec
    <3> QED
      BY <2>2, <2>3, <2>4, <2>5, <3>1
  <2>6. CASE ~ch[e].kuLocal
    <3>1. Triggered(c, e) =
               [ch[e] EXCEPT !.kuLocal = FALSE, !.rxku = TRUE,
                  !.pendingConfirm = TRUE, !.triggerPn = k.pn, !.rxkuExpected = FALSE,
                  !.wantAck = TRUE, !.txku = TRUE, !.txkuPn = pn]
      BY <1>4, <2>6 DEF ChRec, Triggered
    <3> QED
      BY <2>2, <2>3, <2>4, <2>6, <3>1
  <2> QED
    BY <1>4, <2>5, <2>6
<1> HIDE DEF epoch, pn
<1>10. /\ rx'[e] = [rx[e] EXCEPT !.epoch = rx[e].epoch + 1, !.updating = TRUE,
                                 !.startPn = k.pn]
       /\ ch'[e] = [ch[e] EXCEPT !.kuLocal = FALSE, !.rxku = TRUE,
                  !.pendingConfirm = TRUE, !.triggerPn = k.pn, !.rxkuExpected = FALSE,
                  !.wantAck = TRUE, !.txku = TRUE, !.txkuPn = pn]
       /\ tx'[e] = [tx[e] EXCEPT !.epoch = epoch]
  BY <1>2, <1>9 DEF Types
<1>11. /\ rx'[p] = rx[p] /\ ch'[p] = ch[p] /\ tx'[p] = tx[p]
       /\ error' = error /\ ackm' = ackm /\ net' = net /\ sent' = sent
       /\ initiated' = initiated
  BY <1>1, <1>2, <1>9 DEF Types, Decrypt
<1>12. /\ ~ch'[e].kuLocal /\ ch'[e].rxku /\ ch'[e].pendingConfirm
       /\ ch'[e].triggerPn = k.pn /\ ~ch'[e].rxkuExpected /\ ch'[e].wantAck
       /\ ch'[e].txku /\ ch'[e].txkuPn = pn
  BY <1>4, <1>10 DEF ChRec
<1>13. tx'[e].epoch = epoch /\ tx'[e].nextPn = tx[e].nextPn /\ tx'[e] \in TxRec
  BY <1>4, <1>7, <1>10 DEF TxRec
<1>14. /\ rx'[e].epoch = rx[e].epoch + 1 /\ rx'[e].updating /\ rx'[e].slot = rx[e].slot
       /\ rx'[e].ku = rx[e].ku
  BY <1>4, <1>10 DEF RxRec
<1>15. ch'[e] \in ChRec /\ rx'[e] \in RxRec
  <2>1. ch'[e] \in ChRec
    BY <1>4, <1>7, <1>8, <1>10 DEF ChRec
  <2>2. rx[e].epoch + 1 \in Nat
    BY <1>4
  <2>3. rx'[e] \in RxRec
    BY <1>4, <1>8, <1>10, <2>2 DEF RxRec
  <2> QED
    BY <2>1, <2>3
<1>16. Types'
  <2>1. batch' \in [Endpoint -> BatchRec]
    BY DecryptMoves
  <2> QED
    BY <1>2, <1>9, <1>10, <1>11, <1>13, <1>15, <2>1 DEF Types
<1>17. /\ InTransit(e)' = InTransit(e) /\ InTransit(p)' = InTransit(p)
       /\ \A x \in InTransit(e) \cup InTransit(p) :
             x.pn \in Nat /\ x.epoch \in Nat /\ x.ack \in Int
  <2>1. \A x \in InTransit(e) \cup InTransit(p) : x \in Item
    BY <1>1, <1>2, TransitType
  <2>2. \A x \in InTransit(e) \cup InTransit(p) :
           x.pn \in Nat /\ x.epoch \in Nat /\ x.ack \in Int
    BY <1>4, <2>1 DEF Item, NoAck
  <2> QED
    BY <2>2, DecryptMoves
<1>18. Slots(e)' /\ Slots(p)'
  <2>1. Slots(p)'
    BY <1>2, <1>11 DEF Slots, EndOK
  <2>2. Slots(e) /\ ~rx[e].updating
    BY <1>2 DEF EndOK, NewKeys
  <2>3. Bit(rx[e].epoch) \in {0, 1} /\ Bit(rx[e].epoch + 1) \in {0, 1}
        /\ Bit(rx[e].epoch + 1) # Bit(rx[e].epoch)
    BY <1>4, BitFacts
  <2>4. \A b \in {0, 1} : rx[e].slot[b] = IF b = Bit(rx[e].epoch + 1) THEN rx[e].epoch + 1
                                          ELSE rx[e].epoch
    BY <2>2, <2>3 DEF Slots
  <2>5. rx[e].ku = rx[e].epoch + 2 /\ rx[e].epoch + 2 = (rx[e].epoch + 1) + 1
        /\ (rx[e].epoch + 1) - 1 = rx[e].epoch
    BY <1>4, <2>2 DEF Slots
  <2>6. Slots(e)'
    BY <1>4, <1>12, <1>14, <2>4, <2>5 DEF Slots
  <2> QED
    BY <2>1, <2>6
<1>19. Epochs(e)'
  <2>1. /\ tx[p].epoch <= initiated /\ tx[e].nextPn <= sent + 1 /\ ~error[e]
        /\ (tx[p].epoch = rx[p].epoch \/ tx[p].epoch = rx[p].epoch + 1)
    BY <1>5 DEF Epochs
  <2>2. tx'[e].epoch = tx[p].epoch
    BY <1>3, <1>7, <1>13
  <2>3. tx'[e].epoch = rx'[e].epoch
    BY <1>7, <1>13, <1>14
  <2>4. tx'[e].epoch <= initiated' /\ tx'[e].nextPn <= sent' + 1 /\ ~error'[e]
    BY <1>11, <1>13, <2>1, <2>2
  <2>5. ch'[e].txkuPn <= tx'[e].nextPn
    BY <1>7, <1>12, <1>13
  <2>6. tx'[e].epoch = rx'[p].epoch \/ tx'[e].epoch = rx'[p].epoch + 1
    BY <1>11, <2>1, <2>2
  <2> QED
    BY <1>12, <2>3, <2>4, <2>5, <2>6 DEF Epochs
<1>20. Epochs(p)'
  <2>1. tx'[p].epoch = rx'[e].epoch
    BY <1>3, <1>11, <1>14
  <2> QED
    BY <1>1, <1>5, <1>11, <2>1 DEF Epochs
<1>21. \A x \in InTransit(p) : x.ack < tx[e].nextPn
  BY <1>1, <1>2, <1>4, <1>17 DEF Transit, PacketOK, EndOK, Received, NoAck
<1>22. Transit(e)'
  <2>1. SUFFICES ASSUME NEW x \in InTransit(e) PROVE PacketOK(e, x)'
    BY <1>2, <1>17 DEF Transit, EndOK
  <2>2. PacketOK(e, x)
    BY <1>2, <2>1 DEF Transit, EndOK
  <2>3. x.pn \in Nat /\ x.epoch \in Nat
    BY <1>17, <2>1
  <2>4. x.pn < tx'[e].nextPn
    BY <1>13, <2>2 DEF PacketOK
  <2>5. CASE ch[e].kuLocal
    <3>1. epoch = tx[e].epoch /\ pn = ch[e].txkuPn
      BY <2>5 DEF epoch, pn
    <3>2. /\ x.epoch <= tx'[e].epoch
          /\ x.pn >= ch'[e].txkuPn <=> x.epoch = tx'[e].epoch
      BY <1>6, <1>12, <1>13, <2>2, <2>5, <3>1 DEF PacketOK
    <3> QED
      BY <1>11, <2>2, <2>4, <3>2 DEF PacketOK
  <2>6. CASE ~ch[e].kuLocal
    <3>1. epoch = tx[e].epoch + 1 /\ pn = tx[e].nextPn
      BY <2>6 DEF epoch, pn
    <3>2. x.epoch <= tx[e].epoch /\ x.pn < tx[e].nextPn
      BY <2>2 DEF PacketOK
    <3>3. x.epoch < tx'[e].epoch
      BY <1>4, <1>13, <2>3, <3>1, <3>2
    <3>4. ~(x.pn >= ch'[e].txkuPn)
      BY <1>4, <1>12, <2>3, <3>1, <3>2
    <3>5. /\ x.epoch <= tx'[e].epoch
          /\ x.pn >= ch'[e].txkuPn <=> x.epoch = tx'[e].epoch
      BY <1>7, <1>13, <2>3, <3>3, <3>4
    <3> QED
      BY <1>11, <2>2, <2>4, <3>5 DEF PacketOK
  <2> QED
    BY <1>4, <2>5, <2>6
<1>23. Transit(p)'
  <2>1. SUFFICES ASSUME NEW x \in InTransit(p) PROVE PacketOK(p, x)'
    BY <1>2, <1>17 DEF Transit, EndOK
  <2>2. PacketOK(p, x)
    BY <1>2, <2>1 DEF Transit, EndOK
  <2>3. x.pn \in Nat /\ x.epoch \in Nat /\ x.ack \in Int
    BY <1>17, <2>1
  <2>4. x.pn >= k.pn => x.epoch >= rx[e].epoch + 1
    <3>1. View(k).pn <= x.pn => View(k).epoch <= x.epoch
      BY <1>2, <1>3, <2>1 DEF Transit, EndOK
    <3> QED
      BY <1>3, <1>4, <1>8, <2>3, <3>1 DEF View
  <2>5. x.ack >= ch'[e].txkuPn => x.epoch >= tx'[e].epoch
    <3>1. CASE ch[e].kuLocal
      <4>1. epoch = tx[e].epoch /\ pn = ch[e].txkuPn
        BY <3>1 DEF epoch, pn
      <4> QED
        BY <1>1, <1>6, <1>12, <1>13, <2>2, <3>1, <4>1 DEF PacketOK
    <3>2. CASE ~ch[e].kuLocal
      <4>1. pn = tx[e].nextPn
        BY <3>2 DEF pn
      <4> QED
        BY <1>4, <1>12, <1>21, <2>1, <2>3, <4>1
    <3> QED
      BY <1>4, <3>1, <3>2
  <2> QED
    BY <1>1, <1>11, <1>12, <1>14, <2>2, <2>4, <2>5 DEF PacketOK
<1>24. Batched(e)' /\ Batched(p)'
  <2>1. Batched(p)'
    <3>1. batch'[p] = batch[p]
      BY DecryptMoves
    <3> QED
      BY <1>2, <1>11, <3>1 DEF Batched, EndOK
  <2>2. SUFFICES ASSUME NEW i \in DOMAIN batch'[e].pkts
                 PROVE  batch'[e].pkts[i].epoch <= rx'[e].epoch
    BY <2>1 DEF Batched
  <2>3. CASE batch'[e].pkts[i] = View(k)
    BY <1>3, <1>4, <1>14, <2>3 DEF View
  <2>4. CASE i \in DOMAIN batch[e].pkts /\ batch'[e].pkts[i] = batch[e].pkts[i]
    <3>1. batch[e].pkts[i].epoch <= rx[e].epoch
      BY <1>2, <2>4 DEF Batched, EndOK
    <3>2. batch[e].pkts[i].epoch \in Nat
      <4>1. batch[e].pkts[i] \in Item
        BY <1>2, <2>4, TransitType
      <4> QED
        BY <4>1 DEF Item
    <3> QED
      BY <1>4, <1>14, <2>4, <3>1, <3>2
  <2> QED
    BY <2>2, <2>3, <2>4, DecryptMoves
<1>25. Received(e)' /\ Received(p)'
  <2>1. Received(e)'
    BY <1>2, <1>3, <1>11, <1>14 DEF Received, EndOK
  <2>2. Received(p)'
    <3>1. SUFFICES ASSUME NEW n \in ackm[p].received
                   PROVE  /\ n < tx'[e].nextPn
                          /\ n >= ch'[e].txkuPn => rx'[p].epoch = tx'[e].epoch
      BY <1>1, <1>11 DEF Received
    <3>2. n < tx[e].nextPn /\ (ch[e].txku /\ n >= ch[e].txkuPn => rx[p].epoch = tx[e].epoch)
      BY <1>1, <1>2, <3>1 DEF Received, EndOK
    <3>3. n \in Nat
      BY <1>1, <1>2, <3>1, FieldTypes
    <3>4. CASE ch[e].kuLocal
      <4>1. epoch = tx[e].epoch /\ pn = ch[e].txkuPn
        BY <3>4 DEF epoch, pn
      <4> QED
        BY <1>6, <1>11, <1>12, <1>13, <3>2, <3>4, <4>1
    <3>5. CASE ~ch[e].kuLocal
      <4>1. pn = tx[e].nextPn
        BY <3>5 DEF pn
      <4> QED
        BY <1>4, <1>12, <1>13, <3>2, <3>3, <4>1
    <3> QED
      BY <1>4, <3>4, <3>5
  <2> QED
    BY <2>1, <2>2
<1>26. AckKnown(e)' /\ AckKnown(p)'
  <2>1. AckKnown(e)'
    BY <1>2, <1>7, <1>11, <1>13, <1>14 DEF AckKnown, EndOK
  <2>2. AckKnown(p)'
    BY <1>1, <1>2, <1>11 DEF AckKnown, EndOK
  <2> QED
    BY <2>1, <2>2
<1>27. Unconfirmed(e)'
  <2>1. \A n \in ackm[e].received : n < ch[p].txkuPn
    <3>1. \A n \in ackm[e].received : n \in Nat
      BY <1>2, <1>4, FieldTypes
    <3>2. \A n \in ackm[e].received : ~(n >= ch[p].txkuPn)
      BY <1>2, <1>3, <1>4 DEF Received, EndOK
    <3> QED
      BY <1>4, <3>1, <3>2
  <2>2. ackm[p].largestAcked < ch[p].txkuPn
    BY <1>1, <1>2, <2>1 DEF AckKnown, EndOK
  <2>3. \A x \in InTransit(e) : x.ack < ch[p].txkuPn
    BY <1>2, <1>4, <2>1 DEF Transit, PacketOK, EndOK, NoAck
  <2>4. \A x \in InTransit(e) : x.epoch <= rx[e].epoch + 1
    <3>1. tx[e].epoch <= rx[e].epoch + 1
      BY <1>4, <1>6
    <3>2. \A x \in InTransit(e) : x.epoch <= tx[e].epoch
      BY <1>2 DEF Transit, PacketOK, EndOK
    <3> QED
      BY <1>4, <1>17, <3>1, <3>2
  <2>5. \E i \in DOMAIN batch'[e].pkts : batch'[e].pkts[i].pn = ch'[e].triggerPn
    <3>1. \E i \in DOMAIN batch'[e].pkts : batch'[e].pkts[i] = View(k)
      BY DecryptMoves
    <3> QED
      BY <1>12, <3>1 DEF View
  <2> QED
    BY <1>3, <1>11, <1>12, <1>14, <1>17, <2>2, <2>3, <2>4, <2>5 DEF Unconfirmed
<1>28. Unconfirmed(p)'
  <2>1. SUFFICES ASSUME ch[p].pendingConfirm PROVE Unconfirmed(p)'
    BY <1>11 DEF Unconfirmed
  <2>2. /\ tx[e].epoch = rx[p].epoch
        /\ \A x \in InTransit(p) : x.epoch <= rx[p].epoch
    BY <1>1, <1>2, <2>1 DEF Unconfirmed, EndOK
  <2>3. rx[e].epoch + 1 <= tx[e].epoch
    BY <1>3, <2>2 DEF View
  <2>4. ch[e].kuLocal
    BY <1>4, <1>6, <2>3
  <2>5. epoch = tx[e].epoch /\ pn = ch[e].txkuPn
    BY <2>4 DEF epoch, pn
  <2>6. batch'[p] = batch[p]
    BY DecryptMoves
  <2> QED
    BY <1>1, <1>2, <1>11, <1>12, <1>13, <1>17, <2>1, <2>5, <2>6 DEF Unconfirmed, EndOK
<1> QED
  BY <1>1, <1>16, <1>18, <1>19, <1>20, <1>22, <1>23, <1>24, <1>25, <1>26, <1>27, <1>28
     DEF KeyInv, EndOK

\* ch_tx() with (upd) or without a key update of its own before the packet.
LEMMA TransmitStep ==
    ASSUME KeyInv, NEW e \in Endpoint, Idle(e), NEW ack \in BOOLEAN, NEW upd \in BOOLEAN,
           ch[e].wantAck => ack,
           upd => TxkuAllowed(e),
           NEW epoch, epoch = IF upd THEN tx[e].epoch + 1 ELSE tx[e].epoch,
           NEW c \in ChRec,
           c.kuLocal <=> (upd \/ ch[e].kuLocal),
           c.txku <=> (upd \/ ch[e].txku),
           c.txkuPn = IF upd THEN tx[e].nextPn ELSE ch[e].txkuPn,
           c.rxkuExpected <=> (upd \/ ch[e].rxkuExpected),
           c.rxku = ch[e].rxku, c.pendingConfirm = ch[e].pendingConfirm,
           c.triggerPn = ch[e].triggerPn, c.wantAck = ch[e].wantAck,
           initiated' = IF upd THEN initiated + 1 ELSE initiated,
           initiated' \in 0..MaxInit,
           Transmit(e, epoch, c, ack),
           UNCHANGED <<rx, ackm, batch, error>>
    PROVE  KeyInv'
<1> DEFINE p == Peer(e)
           A == IF ack THEN LargestReceived(e) ELSE NoAck
           new == [pn |-> tx[e].nextPn, ack |-> A, epoch |-> epoch]
           d == [c EXCEPT !.wantAck = c.wantAck /\ ~ack,
                          !.pendingConfirm = @ /\ ~(ack /\ c.triggerPn \in ackm[e].received)]
<1>1. p \in Endpoint /\ p # e /\ Peer(p) = e /\ \A f \in Endpoint : f = e \/ f = p
  BY PeerFacts
<1>2. Types /\ EndOK(e) /\ EndOK(p)
  BY <1>1 DEF KeyInv
<1>3. /\ rx[e].epoch \in Nat /\ rx[p].epoch \in Nat /\ tx[e].epoch \in Nat
      /\ tx[p].epoch \in Nat /\ tx[e].nextPn \in Nat /\ tx[p].nextPn \in Nat
      /\ tx[e] \in TxRec
      /\ ch[e].txkuPn \in 0..PnInvalid /\ ch[p].txkuPn \in 0..PnInvalid
      /\ ch[e].pendingConfirm \in BOOLEAN /\ ch[e].wantAck \in BOOLEAN
      /\ MaxSent \in Nat /\ PnInvalid = MaxSent + 2
      /\ sent \in 0..MaxSent /\ initiated \in Nat
  BY <1>1, <1>2, FieldTypes DEF Types
<1>4. Epochs(e) /\ Epochs(p)
  BY <1>2 DEF EndOK
<1>5. upd => /\ tx[e].epoch = rx[p].epoch /\ tx[e].epoch = rx[e].epoch
             /\ ~ch[e].kuLocal /\ ~ch[p].pendingConfirm
  BY AllowedMeansSettled
<1>6. /\ epoch \in Nat /\ epoch >= tx[e].epoch
      /\ tx[e].epoch >= rx[e].epoch /\ tx[e].epoch >= rx[p].epoch
  <2>1. epoch \in Nat /\ epoch >= tx[e].epoch
    BY <1>3
  <2>2. tx[e].epoch = rx[p].epoch \/ tx[e].epoch = rx[p].epoch + 1
    BY <1>4 DEF Epochs
  <2>3. tx[e].epoch = rx[e].epoch \/ tx[e].epoch = rx[e].epoch + 1
    BY <1>4 DEF Epochs
  <2> QED
    BY <1>3, <2>1, <2>2, <2>3
<1>7. /\ A = NoAck \/ A \in ackm[e].received
      /\ A \in {NoAck} \cup 0..MaxSent /\ A \in Int
  BY <1>2, <1>3, LargestReceivedType DEF NoAck
<1> HIDE DEF A
<1>8. sent < MaxSent /\ sent' = sent + 1 /\ tx[e].nextPn <= sent + 1
  BY <1>4 DEF Transmit, Epochs
<1>9. tx[e].nextPn \in 0..MaxSent
  BY <1>3, <1>8
<1>10. /\ net' = net \cup {[from |-> e, pn |-> tx[e].nextPn, epoch |-> epoch, ack |-> A]}
       /\ tx' = [tx EXCEPT ![e] = [epoch |-> epoch, nextPn |-> tx[e].nextPn + 1]]
       /\ ch' = [ch EXCEPT ![e] = d]
  BY <1>2 DEF Transmit, A, Types
<1>11. d \in ChRec
  BY <1>3 DEF ChRec
<1>12. /\ d.kuLocal = c.kuLocal /\ d.txku = c.txku /\ d.txkuPn = c.txkuPn
       /\ d.rxkuExpected = c.rxkuExpected /\ d.rxku = c.rxku /\ d.triggerPn = c.triggerPn
  BY DEF ChRec
<1>13. d.pendingConfirm <=> c.pendingConfirm /\ ~(ack /\ c.triggerPn \in ackm[e].received)
  BY DEF ChRec
<1> HIDE DEF d
<1>14. /\ tx'[e] = [epoch |-> epoch, nextPn |-> tx[e].nextPn + 1]
       /\ ch'[e] = d /\ tx'[p] = tx[p] /\ ch'[p] = ch[p]
       /\ rx' = rx /\ ackm' = ackm /\ batch' = batch /\ error' = error
  BY <1>1, <1>2, <1>10 DEF Types
<1>15. tx'[e].epoch = epoch /\ tx'[e].nextPn = tx[e].nextPn + 1 /\ tx'[e] \in TxRec
  BY <1>3, <1>6, <1>14 DEF TxRec
<1>16. /\ ch'[e].kuLocal <=> (upd \/ ch[e].kuLocal)
       /\ ch'[e].txku <=> (upd \/ ch[e].txku)
       /\ ch'[e].txkuPn = IF upd THEN tx[e].nextPn ELSE ch[e].txkuPn
       /\ ch'[e].rxkuExpected <=> (upd \/ ch[e].rxkuExpected)
       /\ ch'[e].rxku = ch[e].rxku /\ ch'[e].triggerPn = ch[e].triggerPn
  BY <1>12, <1>14
<1>17. ch'[p] = ch[p] /\ tx'[p] = tx[p]
       /\ rx' = rx /\ ackm' = ackm /\ batch' = batch /\ error' = error
  BY <1>14
<1>18. Types'
  <2>1. [from |-> e, pn |-> tx[e].nextPn, epoch |-> epoch, ack |-> A] \in Packet
    BY <1>6, <1>7, <1>9 DEF Packet
  <2>2. net' \subseteq Packet
    BY <1>2, <1>10, <2>1 DEF Types
  <2>3. ch' \in [Endpoint -> ChRec] /\ tx' \in [Endpoint -> TxRec]
    BY <1>2, <1>10, <1>11, <1>14, <1>15 DEF Types
  <2>4. sent' \in 0..MaxSent
    BY <1>3, <1>8
  <2> QED
    BY <1>2, <1>17, <2>2, <2>3, <2>4 DEF Types
<1>19. /\ InTransit(e)' \subseteq InTransit(e) \cup {new} /\ InTransit(p)' = InTransit(p)
       /\ \A x \in InTransit(e) \cup InTransit(p) :
             x.pn \in Nat /\ x.epoch \in Nat /\ x.ack \in Int
  <2>1. \A x \in InTransit(e) \cup InTransit(p) : x \in Item
    BY <1>1, <1>2, TransitType
  <2>2. \A x \in InTransit(e) \cup InTransit(p) :
           x.pn \in Nat /\ x.epoch \in Nat /\ x.ack \in Int
    BY <1>3, <2>1 DEF Item, NoAck
  <2> DEFINE n == [from |-> e, pn |-> tx[e].nextPn, epoch |-> epoch, ack |-> A]
  <2>3. View(n) = new /\ n.from = e
    BY DEF View
  <2>4. net' = net \cup {n}
    BY <1>10
  <2> HIDE DEF n, new
  <2>5. InTransit(e)' \subseteq InTransit(e) \cup {new}
    BY <1>17, <2>3, <2>4 DEF InTransit
  <2>6. InTransit(p)' = InTransit(p)
    BY <1>1, <1>17, <2>3, <2>4 DEF InTransit
  <2> QED
    BY <2>2, <2>5, <2>6
<1>20. PICK n : /\ n.pn = tx[e].nextPn /\ n.ack = A /\ n.epoch = epoch
                /\ InTransit(e)' \subseteq InTransit(e) \cup {n}
  <2>1. new.pn = tx[e].nextPn /\ new.ack = A /\ new.epoch = epoch
    OBVIOUS
  <2> QED
    BY <1>19, <2>1
<1>21. Slots(e)' /\ Slots(p)'
  BY <1>2, <1>16, <1>17 DEF Slots, EndOK
<1>22. Epochs(e)'
  <2>1. tx'[e].nextPn <= sent' + 1 /\ ~error'[e]
    BY <1>3, <1>4, <1>8, <1>15, <1>17 DEF Epochs
  <2>2. CASE upd
    <3>1. tx'[e].epoch = rx'[e].epoch + 1 /\ tx'[e].epoch = rx'[p].epoch + 1
      BY <1>5, <1>15, <1>17, <2>2
    <3>2. tx[e].epoch <= initiated
      BY <1>4 DEF Epochs
    <3>3. tx'[e].epoch <= initiated'
      BY <1>3, <1>15, <2>2, <3>2
    <3>4. ch'[e].txkuPn <= tx'[e].nextPn
      BY <1>3, <1>15, <1>16, <2>2
    <3> QED
      BY <1>16, <2>1, <2>2, <3>1, <3>3, <3>4 DEF Epochs
  <2>3. CASE ~upd
    <3>1. tx'[e].epoch = tx[e].epoch /\ initiated' = initiated
      BY <1>15, <2>3
    <3>2. ch[e].txku => ch'[e].txkuPn <= tx'[e].nextPn
      <4>1. ch[e].txku => ch[e].txkuPn <= tx[e].nextPn
        BY <1>4 DEF Epochs
      <4>2. tx[e].nextPn <= tx'[e].nextPn
        BY <1>3, <1>15
      <4>3. ch'[e].txkuPn = ch[e].txkuPn
        BY <1>16, <2>3
      <4> QED
        BY <1>3, <1>15, <4>1, <4>2, <4>3
    <3>3. ch'[e].txkuPn = ch[e].txkuPn
      BY <1>16, <2>3
    <3> QED
      BY <1>4, <1>16, <1>17, <2>1, <2>3, <3>1, <3>2, <3>3 DEF Epochs
  <2> QED
    BY <2>2, <2>3
<1>23. Epochs(p)'
  <2>1. tx[p].epoch <= initiated /\ tx[p].nextPn <= sent + 1
    BY <1>4 DEF Epochs
  <2>2. tx[p].epoch <= initiated'
    BY <1>3, <2>1
  <2>3. tx[p].nextPn <= sent' + 1
    BY <1>3, <1>8, <2>1
  <2> QED
    BY <1>1, <1>4, <1>17, <2>2, <2>3 DEF Epochs
<1>24. \A x \in InTransit(p) : x.ack < tx[e].nextPn
  BY <1>1, <1>2, <1>3, <1>19 DEF Transit, PacketOK, EndOK, Received, NoAck
<1>25. Transit(e)'
  <2>1. PacketOK(e, n)'
    <3>1. n.pn < tx'[e].nextPn /\ n.epoch <= tx'[e].epoch
      BY <1>3, <1>6, <1>15, <1>20
    <3>2. ch'[e].txku => n.pn >= ch'[e].txkuPn /\ n.epoch = tx'[e].epoch
      <4>1. n.epoch = tx'[e].epoch
        BY <1>15, <1>20
      <4>2. ch[e].txku => ch[e].txkuPn <= tx[e].nextPn
        BY <1>4 DEF Epochs
      <4>3. CASE upd
        BY <1>3, <1>16, <1>20, <4>1, <4>3
      <4>4. CASE ~upd
        BY <1>3, <1>16, <1>20, <4>1, <4>2, <4>4
      <4> QED
        BY <4>3, <4>4
    <3>3. ch[p].txku /\ n.ack >= ch[p].txkuPn => n.epoch >= tx[p].epoch
      <4>1. SUFFICES ASSUME ch[p].txku, A >= ch[p].txkuPn PROVE epoch >= tx[p].epoch
        BY <1>20
      <4>2. A \in ackm[e].received
        BY <1>3, <1>7, <4>1 DEF NoAck
      <4>3. rx[e].epoch = tx[p].epoch
        BY <1>2, <4>1, <4>2 DEF Received, EndOK
      <4> QED
        BY <1>3, <1>6, <4>3
    <3>4. n.epoch >= rx[p].epoch
      BY <1>3, <1>6, <1>20
    <3> QED
      BY <1>7, <1>17, <1>20, <3>1, <3>2, <3>3, <3>4 DEF PacketOK
  <2>2. ASSUME NEW x \in InTransit(e) PROVE PacketOK(e, x)'
    <3>1. PacketOK(e, x) /\ x.pn \in Nat /\ x.epoch \in Nat
      BY <1>2, <1>19, <2>2 DEF Transit, EndOK
    <3>2. x.pn < tx[e].nextPn /\ x.epoch <= tx[e].epoch
      BY <3>1 DEF PacketOK
    <3>3. x.pn < tx'[e].nextPn /\ x.epoch <= tx'[e].epoch
      BY <1>3, <1>6, <1>15, <3>1, <3>2
    <3>4. ch'[e].txku => (x.pn >= ch'[e].txkuPn <=> x.epoch = tx'[e].epoch)
      <4>1. CASE upd
        <5>1. ~(x.pn >= ch'[e].txkuPn)
          BY <1>3, <1>16, <3>1, <3>2, <4>1
        <5>2. x.epoch # tx'[e].epoch
          BY <1>3, <1>15, <3>1, <3>2, <4>1
        <5> QED
          BY <5>1, <5>2
      <4>2. CASE ~upd
        <5>1. tx'[e].epoch = tx[e].epoch /\ ch'[e].txkuPn = ch[e].txkuPn
              /\ (ch'[e].txku <=> ch[e].txku)
          BY <1>15, <1>16, <4>2
        <5> QED
          BY <3>1, <5>1 DEF PacketOK
      <4> QED
        BY <4>1, <4>2
    <3> QED
      BY <1>17, <3>1, <3>3, <3>4 DEF PacketOK
  <2>3. ASSUME NEW x \in InTransit(e) \cup {n}, NEW y \in InTransit(e) \cup {n},
               x.pn <= y.pn
        PROVE  x.epoch <= y.epoch
    <3>1. \A z \in InTransit(e) : z.pn < tx[e].nextPn /\ z.epoch <= tx[e].epoch
      BY <1>2 DEF Transit, PacketOK, EndOK
    <3>2. CASE x \in InTransit(e) /\ y \in InTransit(e)
      BY <1>2, <2>3, <3>2 DEF Transit, EndOK
    <3>3. CASE y = n /\ x \in InTransit(e)
      <4>1. x.epoch <= tx[e].epoch /\ x.epoch \in Nat /\ y.epoch = epoch
        BY <1>19, <1>20, <3>1, <3>3
      <4> QED
        BY <1>3, <1>6, <4>1
    <3>4. CASE x = n /\ y \in InTransit(e)
      <4>1. y.pn < tx[e].nextPn /\ y.pn \in Nat /\ x.pn = tx[e].nextPn
        BY <1>19, <1>20, <3>1, <3>4
      <4> QED
        BY <1>3, <2>3, <4>1
    <3>5. CASE x = n /\ y = n
      BY <1>6, <1>20, <3>5
    <3> QED
      BY <2>3, <3>2, <3>3, <3>4, <3>5
  <2> QED
    BY <1>20, <2>1, <2>2, <2>3 DEF Transit
<1>26. Transit(p)'
  <2>1. SUFFICES ASSUME NEW x \in InTransit(p) PROVE PacketOK(p, x)'
    BY <1>2, <1>19 DEF Transit, EndOK
  <2>2. PacketOK(p, x) /\ x.ack \in Int /\ x.ack < tx[e].nextPn
    BY <1>2, <1>19, <1>24, <2>1 DEF Transit, EndOK
  <2>3. ch'[e].txku /\ x.ack >= ch'[e].txkuPn => x.epoch >= tx'[e].epoch
    <3>1. CASE upd
      <4>1. ~(x.ack >= ch'[e].txkuPn)
        BY <1>3, <1>16, <2>2, <3>1
      <4> QED
        BY <4>1
    <3>2. CASE ~upd
      <4>1. tx'[e].epoch = tx[e].epoch /\ ch'[e].txkuPn = ch[e].txkuPn
            /\ (ch'[e].txku <=> ch[e].txku)
        BY <1>15, <1>16, <3>2
      <4> QED
        BY <1>1, <2>2, <4>1 DEF PacketOK
    <3> QED
      BY <3>1, <3>2
  <2> QED
    BY <1>1, <1>16, <1>17, <2>2, <2>3 DEF PacketOK
<1>27. Batched(e)' /\ Batched(p)'
  BY <1>2, <1>17 DEF Batched, EndOK
<1>28. Received(e)' /\ Received(p)'
  <2>1. Received(e)'
    BY <1>2, <1>17 DEF Received, EndOK
  <2>2. SUFFICES ASSUME NEW m \in ackm[p].received
                 PROVE  /\ m < tx'[e].nextPn
                        /\ ch'[e].txku /\ m >= ch'[e].txkuPn => rx[p].epoch = tx'[e].epoch
    BY <1>1, <1>17, <2>1 DEF Received
  <2>3. m < tx[e].nextPn /\ (ch[e].txku /\ m >= ch[e].txkuPn => rx[p].epoch = tx[e].epoch)
    BY <1>1, <1>2, <2>2 DEF Received, EndOK
  <2>4. m \in Nat
    BY <1>1, <1>2, <2>2, FieldTypes
  <2>5. m < tx'[e].nextPn
    BY <1>3, <1>15, <2>3, <2>4
  <2>6. CASE upd
    BY <1>3, <1>16, <2>3, <2>4, <2>5, <2>6
  <2>7. CASE ~upd
    <3>1. tx'[e].epoch = tx[e].epoch /\ ch'[e].txkuPn = ch[e].txkuPn
            /\ (ch'[e].txku <=> ch[e].txku)
        BY <1>15, <1>16, <2>7
    <3> QED
      BY <2>3, <2>5, <3>1
  <2> QED
    BY <2>6, <2>7
<1>29. AckKnown(e)' /\ AckKnown(p)'
  <2>1. AckKnown(p)'
    BY <1>1, <1>2, <1>17 DEF AckKnown, EndOK
  <2>2. AckKnown(e)
    BY <1>2 DEF EndOK
  <2>3. ackm[e].largestAcked \in Nat /\ ackm[e].largestAcked < tx[e].nextPn
    <3>1. ackm[e].largestAcked \in Nat
      BY <1>2, FieldTypes
    <3>2. Received(p)
      BY <1>2 DEF EndOK
    <3> QED
      BY <1>1, <2>2, <3>1, <3>2 DEF AckKnown, Received
  <2>4. ch'[e].txku /\ ackm[e].largestAcked >= ch'[e].txkuPn => rx[e].epoch = tx'[e].epoch
    <3>1. CASE upd
      BY <1>3, <1>16, <2>3, <3>1
    <3>2. CASE ~upd
      <4>1. tx'[e].epoch = tx[e].epoch /\ ch'[e].txkuPn = ch[e].txkuPn
            /\ (ch'[e].txku <=> ch[e].txku)
        BY <1>15, <1>16, <3>2
      <4> QED
        BY <2>2, <4>1 DEF AckKnown
    <3> QED
      BY <3>1, <3>2
  <2> QED
    BY <1>17, <2>1, <2>2, <2>4 DEF AckKnown
<1>30. Unconfirmed(e)'
  <2>1. SUFFICES ~ch'[e].pendingConfirm
    BY DEF Unconfirmed
  <2>2. SUFFICES ASSUME ch[e].pendingConfirm
                 PROVE  ack /\ ch[e].triggerPn \in ackm[e].received
    BY <1>13, <1>14
  <2>3. ack
    BY <1>2, <2>2 DEF Unconfirmed, EndOK
  <2>4. DOMAIN batch[e].pkts = {}
    BY DEF Idle
  <2> QED
    BY <1>2, <2>2, <2>3, <2>4 DEF Unconfirmed, EndOK
<1>31. Unconfirmed(p)'
  <2>1. SUFFICES ASSUME ch[p].pendingConfirm PROVE Unconfirmed(p)'
    BY <1>17 DEF Unconfirmed
  <2>2. ~upd
    BY <1>5, <2>1
  <2>3. tx'[e].epoch = tx[e].epoch /\ ch'[e].txkuPn = ch[e].txkuPn
        /\ (ch'[e].txku <=> ch[e].txku)
    BY <1>15, <1>16, <2>2
  <2> QED
    BY <1>1, <1>2, <1>17, <1>19, <2>1, <2>3 DEF Unconfirmed, EndOK
<1> QED
  BY <1>1, <1>18, <1>21, <1>22, <1>23, <1>25, <1>26, <1>27, <1>28, <1>29, <1>30, <1>31
     DEF KeyInv, EndOK

LEMMA SendStep ==
    ASSUME KeyInv, NEW e \in Endpoint, Send(e)
    PROVE  KeyInv'
<1>1. PICK ack \in BOOLEAN : /\ ch[e].wantAck => ack
                             /\ Transmit(e, tx[e].epoch, ch[e], ack)
  BY DEF Send
<1>2. ch[e] \in ChRec /\ initiated \in 0..MaxInit
  BY DEF KeyInv, Types
<1>3. Idle(e) /\ UNCHANGED <<rx, ackm, batch, error>> /\ initiated' = initiated
  BY DEF Send
<1> QED
  BY <1>1, <1>2, <1>3, FALSE \in BOOLEAN, TransmitStep

LEMMA SendAndUpdateStep ==
    ASSUME KeyInv, NEW e \in Endpoint, SendAndUpdate(e)
    PROVE  KeyInv'
<1> DEFINE c == Triggered([ch[e] EXCEPT !.kuLocal = TRUE], e)
<1>1. PICK ack \in BOOLEAN : /\ ch[e].wantAck => ack
                             /\ Transmit(e, tx[e].epoch + 1, c, ack)
  BY DEF SendAndUpdate
<1>2. /\ ch[e] \in ChRec /\ initiated \in 0..MaxInit /\ MaxInit \in Nat
      /\ tx[e].nextPn \in Nat /\ MaxSent \in Nat /\ PnInvalid = MaxSent + 2
      /\ sent \in 0..MaxSent
  BY FieldTypes DEF KeyInv, Types
<1>3. tx[e].nextPn \in 0..PnInvalid
  <2>1. tx[e].nextPn <= sent + 1
    BY DEF KeyInv, EndOK, Epochs
  <2> QED
    BY <1>2, <2>1
<1>4. /\ Idle(e) /\ TxkuAllowed(e) /\ UNCHANGED <<rx, ackm, batch, error>>
      /\ initiated < MaxInit /\ initiated' = initiated + 1
  BY DEF SendAndUpdate, LocalUpdate, TxkuRecommendable
<1>5. initiated' \in 0..MaxInit
  BY <1>2, <1>4
<1>6. c \in ChRec
  BY <1>2, <1>3 DEF ChRec, Triggered
<1>7. /\ c.kuLocal /\ c.txku /\ c.rxkuExpected /\ c.txkuPn = tx[e].nextPn
      /\ c.rxku = ch[e].rxku /\ c.pendingConfirm = ch[e].pendingConfirm
      /\ c.triggerPn = ch[e].triggerPn /\ c.wantAck = ch[e].wantAck
  BY <1>2 DEF ChRec, Triggered
<1> HIDE DEF c
<1>8. PICK d : d = c
  OBVIOUS
<1> QED
  BY <1>1, <1>4, <1>5, <1>6, <1>7, <1>8, TRUE \in BOOLEAN, TransmitStep

-----------------------------------------------------------------------------
LEMMA KeyInit == ASSUME Acked, Init PROVE KeyInv
<1>1. MaxSent \in Nat /\ MaxInit \in Nat /\ PnInvalid = MaxSent + 2
  BY KeyUpdateConstants DEF PnInvalid
<1>2. Types
  <2>1. [b \in {0, 1} |-> b] \in SlotMap
    BY DEF SlotMap
  <2>2. PnInvalid \in 0..PnInvalid /\ 0 \in 0..MaxSent
    BY <1>1
  <2>3. rx \in [Endpoint -> RxRec]
    BY <2>1, <2>2 DEF Init, RxRec
  <2>4. tx \in [Endpoint -> TxRec]
    BY DEF Init, TxRec
  <2>5. ch \in [Endpoint -> ChRec]
    BY <2>2 DEF Init, ChRec
  <2>6. ackm \in [Endpoint -> AckRec]
    BY <2>2 DEF Init, AckRec
  <2>7. batch \in [Endpoint -> BatchRec]
    BY DEF Init, BatchRec
  <2>8. /\ net \subseteq Packet /\ error \in [Endpoint -> BOOLEAN]
        /\ sent \in 0..MaxSent /\ initiated \in 0..MaxInit
    BY <1>1 DEF Init
  <2> QED
    BY <2>3, <2>4, <2>5, <2>6, <2>7, <2>8 DEF Types
<1>3. SUFFICES ASSUME NEW e \in Endpoint PROVE EndOK(e)
  BY <1>2 DEF KeyInv
<1>4. Peer(e) \in Endpoint
  BY PeerFacts
<1>5. InTransit(e) = {} /\ batch[e].pkts = <<>>
  BY <1>4 DEF Init, InTransit
<1>6. \A f \in Endpoint :
         /\ rx[f].epoch = 0 /\ ~rx[f].updating /\ rx[f].slot = [b \in {0, 1} |-> b]
         /\ rx[f].ku = 2
         /\ tx[f].epoch = 0 /\ tx[f].nextPn = 1
         /\ ~ch[f].kuLocal /\ ~ch[f].txku /\ ch[f].txkuPn = PnInvalid
         /\ ~ch[f].rxkuExpected /\ ~ch[f].rxku /\ ~ch[f].pendingConfirm
         /\ ackm[f].largestAcked = 0 /\ ackm[f].received = {0}
         /\ ~error[f]
  BY DEF Init
<1>7. Slots(e)
  <2>1. Bit(0) = 0
    BY DEF Bit
  <2>2. \A b \in {0, 1} : rx[e].slot[b] = b
    BY <1>6
  <2>3. /\ rx[e].epoch = 0 /\ ~rx[e].updating /\ rx[e].ku = 2 /\ ~ch[e].rxku
    BY <1>6
  <2>4. \A b \in {0, 1} : rx[e].slot[b] = IF b = 0 THEN 0 ELSE 0 + 1
    BY <2>2
  <2> QED
    BY <2>1, <2>3, <2>4 DEF Slots
<1>8. Epochs(e)
  <2>1. sent = 0 /\ initiated = 0
    BY DEF Init
  <2>2. /\ tx[e].epoch = 0 /\ tx[e].nextPn = 1 /\ rx[e].epoch = 0
        /\ ~ch[e].kuLocal /\ ~ch[e].txku /\ ch[e].txkuPn = PnInvalid
        /\ ~ch[e].rxkuExpected /\ ~error[e] /\ rx[Peer(e)].epoch = 0
    BY <1>4, <1>6
  <2> QED
    BY <2>1, <2>2 DEF Epochs
<1>9. Transit(e) /\ Batched(e)
  BY <1>5 DEF Transit, Batched
<1>10. Received(e) /\ AckKnown(e) /\ Unconfirmed(e)
  <2>1. /\ ~ch[Peer(e)].txku /\ tx[Peer(e)].nextPn = 1 /\ ackm[e].received = {0}
        /\ ackm[e].largestAcked = 0 /\ ackm[Peer(e)].received = {0}
        /\ ~ch[e].txku /\ ~ch[e].pendingConfirm
    BY <1>4, <1>6
  <2> QED
    BY <2>1 DEF Received, AckKnown, Unconfirmed
<1> QED
  BY <1>7, <1>8, <1>9, <1>10 DEF EndOK

\* Every step of either endpoint keeps the invariant.
LEMMA KeyStep == ASSUME KeyInv, [Next]_vars PROVE KeyInv'
<1>1. ASSUME NEW e \in Endpoint, TriggerTxku(e) PROVE KeyInv'
  BY <1>1, TriggerStep
<1>2. ASSUME NEW e \in Endpoint, NEW k \in net, Decrypt(e, k) PROVE KeyInv'
  BY <1>2, DecryptOldStep, DecryptNewStep
<1>3. ASSUME NEW e \in Endpoint, HandlePacket(e) PROVE KeyInv'
  BY <1>3, HandleStep
<1>4. ASSUME NEW e \in Endpoint, RxkuTick(e) PROVE KeyInv'
  BY <1>4, TickStep
<1>5. ASSUME NEW e \in Endpoint, Send(e) PROVE KeyInv'
  BY <1>5, SendStep
<1>6. ASSUME NEW e \in Endpoint, SendAndUpdate(e) PROVE KeyInv'
  BY <1>6, SendAndUpdateStep
<1>7. CASE UNCHANGED vars
  BY <1>7 DEF vars, KeyInv, Types, EndOK, Slots, Epochs, Transit, PacketOK, Batched,
              Received, AckKnown, Unconfirmed, InTransit
<1> QED
  BY <1>1, <1>2, <1>3, <1>4, <1>5, <1>6, <1>7 DEF Next

\* The invariant holds throughout.
THEOREM KeyInvariant == ASSUME Acked PROVE Spec => []KeyInv
<1>1. Init => KeyInv
  BY KeyInit
<1>2. KeyInv /\ [Next]_vars => KeyInv'
  BY KeyStep
<1> QED
  BY <1>1, <1>2, PTL DEF Spec

\* Type correctness, with epochs, key slots and packet numbers in their bounds.
THEOREM KeyTypeCorrect == ASSUME Acked PROVE Spec => []TypeOK
<1>1. KeyInv => TypeOK
  <2> SUFFICES ASSUME KeyInv PROVE TypeOK
    OBVIOUS
  <2>1. Types /\ \A e \in Endpoint : EndOK(e)
    BY DEF KeyInv
  <2>2. MaxSent \in Nat /\ MaxInit \in Nat /\ PnInvalid = MaxSent + 2
    BY KeyUpdateConstants DEF PnInvalid
  <2>3. ASSUME NEW e \in Endpoint
        PROVE  /\ rx[e].epoch \in 0..MaxInit /\ tx[e].epoch \in 0..MaxInit
               /\ rx[e].ku \in 0..MaxInit + 2 /\ rx[e].slot \in [{0, 1} -> 0..MaxInit + 1]
               /\ tx[e].nextPn \in 0..PnInvalid
    <3>1. Slots(e) /\ Epochs(e)
      BY <2>1 DEF EndOK
    <3>2. /\ rx[e].epoch \in Nat /\ tx[e].epoch \in Nat /\ rx[e].ku \in Nat
          /\ tx[e].nextPn \in Nat /\ initiated \in 0..MaxInit /\ sent \in 0..MaxSent
          /\ rx[e].slot \in SlotMap
      BY <2>1, FieldTypes DEF Types
    <3>3. tx[e].epoch <= initiated /\ tx[e].nextPn <= sent + 1
      BY <3>1 DEF Epochs
    <3>4. rx[e].epoch <= tx[e].epoch
      BY <3>1, <3>2 DEF Epochs
    <3>5. rx[e].epoch \in 0..MaxInit /\ tx[e].epoch \in 0..MaxInit
          /\ tx[e].nextPn \in 0..PnInvalid
      BY <2>2, <3>2, <3>3, <3>4
    <3>6. rx[e].ku \in 0..MaxInit + 2
      BY <2>2, <3>1, <3>2, <3>5 DEF Slots
    <3>7. \A b \in {0, 1} : rx[e].slot[b] \in 0..MaxInit + 1
      BY <2>2, <3>1, <3>2, <3>5 DEF Slots
    <3>8. rx[e].slot \in [{0, 1} -> 0..MaxInit + 1]
      BY <3>2, <3>7 DEF SlotMap
    <3> QED
      BY <3>5, <3>6, <3>8
  <2>4. rx \in [Endpoint -> [epoch : 0..MaxInit, updating : BOOLEAN,
                             slot : [{0, 1} -> 0..MaxInit + 1],
                             ku : 0..MaxInit + 2, startPn : 0..PnInvalid]]
    <3>1. SUFFICES ASSUME NEW e \in Endpoint
                   PROVE  rx[e] \in [epoch : 0..MaxInit, updating : BOOLEAN,
                                     slot : [{0, 1} -> 0..MaxInit + 1],
                                     ku : 0..MaxInit + 2, startPn : 0..PnInvalid]
      BY <2>1 DEF Types
    <3> DEFINE S == [{0, 1} -> 0..MaxInit + 1]
    <3>2. rx[e] \in RxRec
      BY <2>1 DEF Types
    <3>3. rx[e].slot \in S
      BY <2>3
    <3> HIDE DEF S
    <3>4. rx[e] \in [epoch : 0..MaxInit, updating : BOOLEAN, slot : S,
                     ku : 0..MaxInit + 2, startPn : 0..PnInvalid]
      BY <2>3, <3>2, <3>3 DEF RxRec
    <3> QED
      BY <3>4 DEF S
  <2>5. tx \in [Endpoint -> [epoch : 0..MaxInit, nextPn : 0..PnInvalid]]
    <3>1. SUFFICES ASSUME NEW e \in Endpoint
                   PROVE  tx[e] \in [epoch : 0..MaxInit, nextPn : 0..PnInvalid]
      BY <2>1 DEF Types
    <3> QED
      BY <2>1, <2>3 DEF Types, TxRec
  <2>6. ackm \in [Endpoint -> [largestAcked : 0..PnInvalid, received : SUBSET (0..MaxSent)]]
    <3>1. SUFFICES ASSUME NEW e \in Endpoint
                   PROVE  ackm[e] \in [largestAcked : 0..PnInvalid,
                                       received : SUBSET (0..MaxSent)]
      BY <2>1 DEF Types
    <3>2. ackm[e] \in AckRec /\ ackm[e].largestAcked \in 0..PnInvalid
      BY <2>1, <2>2, FieldTypes
    <3> QED
      BY <3>2 DEF AckRec
  <2>7. \A e \in Endpoint :
          batch[e].pkts \in Seq([pn : 0..MaxSent, ack : {NoAck} \cup 0..MaxSent, epoch : Nat])
    BY <2>1, FieldTypes DEF Item
  <2> QED
    BY <2>1, <2>4, <2>5, <2>6, <2>7 DEF TypeOK, Types, ChRec
<1> QED
  BY <1>1, KeyInvariant, PTL

\* A sender is never two epochs ahead of what its peer can receive: an update
\* waits for the acknowledgement of the one before (txku_allowed()).
THEOREM SenderIsUnderstood == ASSUME Acked PROVE Spec => []PeerCanDecrypt
<1>1. KeyInv => PeerCanDecrypt
  BY DEF KeyInv, EndOK, Epochs, PeerCanDecrypt
<1> QED
  BY <1>1, KeyInvariant, PTL

\* Neither side ever takes the other's packets for a key update violation, nor hits
\* the assertion of rxku_detected().
THEOREM NoFalseAlarm == ASSUME Acked PROVE Spec => []NoUpdateError
<1>1. KeyInv => NoUpdateError
  BY DEF KeyInv, EndOK, Epochs, NoUpdateError
<1> QED
  BY <1>1, KeyInvariant, PTL

\* An update is answered once and the answer is not answered.
THEOREM UpdatesDoNotBreed == ASSUME Acked PROVE Spec => []EpochsInitiated
<1>1. KeyInv => EpochsInitiated
  BY DEF KeyInv, EndOK, Epochs, EpochsInitiated
<1> QED
  BY <1>1, KeyInvariant, PTL
=============================================================================
