--------------------------- MODULE QuicAckmProofs ---------------------------
(***************************************************************************)
(* Theorems about the ACK manager, for any number of packets, any batch    *)
(* sizes and any thresholds.                                               *)
(***************************************************************************)
EXTENDS QuicAckm, NatLemmas, FiniteSetTheorems, TLAPS

-----------------------------------------------------------------------------
\* The inductive invariant.

\* Every packet that was sent is in the history, acknowledged or lost.
FateInv ==
    \A e \in Endpoint :
       /\ history[e] \cup acked[e] \cup lost[e] = 0..Len(sent[e]) - 1
       /\ history[e] \cap acked[e] = {}

\* What was resolved is not above the largest number acknowledged, which was sent.
LargestInv ==
    \A e \in Endpoint :
       /\ tx[e].largestAcked < Len(sent[e])
       /\ \A n \in acked[e] \cup lost[e] : n <= tx[e].largestAcked

\* Numbers handled are known as such; only they are stored and reported.
HandledInv ==
    \A e \in Endpoint :
       /\ handled[e] \subseteq 0..Len(sent[Peer(e)]) - 1
       /\ rx[e].set \subseteq handled[e]
       /\ \A n \in handled[e] : n < rx[e].watermark \/ n \in rx[e].set
       /\ \A i \in 1..Len(sent[e]) : sent[e][i].ack \subseteq handled[e]

\* Packets that wait to be handled were sent.
BatchInv ==
    \A e \in Endpoint : \A i \in 1..Len(batch[e].pns) :
       batch[e].pns[i] < Len(sent[Peer(e)])

\* Below the threshold as long as no ACK frame is desired.
SinceInv ==
    \A e \in Endpoint : rx[e].desired \/ rx[e].since < PktsBeforeAck

\* The deadline is always the one that ackm_set_loss_detection_timer() would set.
TimerInv ==
    \A e \in Endpoint :
       /\ tx[e].lossTime <=> LossCandidates(history[e], tx[e].largestAcked) # {}
       /\ tx[e].deadline = IF tx[e].lossTime THEN "loss"
                           ELSE IF tx[e].elicitingInFlight = 0 THEN "none" ELSE "pto"

IInv ==
    /\ TypeOK
    /\ FateInv
    /\ LargestInv
    /\ HandledInv
    /\ BatchInv
    /\ SinceInv
    /\ TimerInv
    /\ InFlightExact
    /\ AckOwed

-----------------------------------------------------------------------------
\* The other end of the connection.
LEMMA PeerLemma ==
    ASSUME NEW e \in Endpoint
    PROVE  Peer(e) \in Endpoint /\ Peer(e) # e /\ Peer(Peer(e)) = e
<1>1. PICK c \in Endpoint, s \in Endpoint : c # s /\ Endpoint = {c, s}
  BY AckmConstants
<1>2. \A x \in Endpoint : \E p \in Endpoint : p # x
  BY <1>1
<1>3. \A x \in Endpoint : Peer(x) \in Endpoint /\ Peer(x) # x
  BY <1>2 DEF Peer
<1> QED BY <1>1, <1>3

\* Packet numbers are bounded natural numbers.
LEMMA PNBound ==
    /\ PN \subseteq Nat
    /\ \E k \in Nat : \A n \in PN : n <= k
    /\ IsFiniteSet(PN)
<1>1. PICK c \in Endpoint, s \in Endpoint : c # s /\ Endpoint = {c, s}
  BY AckmConstants
<1>2. MaxPn[c] \in Nat /\ MaxPn[s] \in Nat
  BY AckmConstants
<1>3. PN = (0..MaxPn[c] - 1) \cup (0..MaxPn[s] - 1)
  BY <1>1 DEF PN
<1>4. PN \subseteq Nat
  BY <1>2, <1>3
<1>5. \A n \in PN : n <= MaxPn[c] + MaxPn[s]
  BY <1>2, <1>3
<1>6. IsFiniteSet(0..MaxPn[c] - 1) /\ IsFiniteSet(0..MaxPn[s] - 1)
  <2>1. 0 \in Int /\ MaxPn[c] - 1 \in Int /\ MaxPn[s] - 1 \in Int
    BY <1>2
  <2> QED BY <2>1, FS_Interval
<1>7. IsFiniteSet(PN)
  BY <1>3, <1>6, FS_Union
<1>8. \E k \in Nat : \A n \in PN : n <= k
  <2>1. MaxPn[c] + MaxPn[s] \in Nat
    BY <1>2
  <2> QED BY ONLY <1>5, <2>1
<1> QED BY <1>4, <1>7, <1>8

\* What an endpoint sends has a packet number.
LEMMA SentPN ==
    ASSUME NEW e \in Endpoint, NEW n \in Nat, n < MaxPn[e]
    PROVE  n \in PN
<1>1. MaxPn[e] \in Nat
  BY AckmConstants
<1> QED BY <1>1 DEF PN

\* MaxOf of packet numbers.
LEMMA MaxOfLemma ==
    ASSUME NEW S \in SUBSET PN, S # {}
    PROVE  MaxOf(S) \in S /\ \A m \in S : m <= MaxOf(S)
<1>1. PICK k \in Nat : \A n \in PN : n <= k
  BY PNBound
<1>2. \E n \in S : \A m \in S : m <= n
  BY <1>1, PNBound, NatMax
<1> QED BY <1>2 DEF MaxOf

-----------------------------------------------------------------------------
\* The receive side.

\* The highest ranges have the largest number, and nothing above them is left out.
LEMMA TopRangesLemma ==
    ASSUME NEW S \in SUBSET PN, NEW k \in Nat \ {0}
    PROVE  /\ TopRanges(S, k) \subseteq S
           /\ S # {} => TopRanges(S, k) # {}
           /\ \A n \in S \ TopRanges(S, k) : \A m \in TopRanges(S, k) : n < m
<1> DEFINE Above(n) == {m \in S : m > n /\ m - 1 \notin S}
<1>1. S \subseteq Nat /\ IsFiniteSet(S)
  BY PNBound, FS_Subset
<1>2. \A n : IsFiniteSet(Above(n)) /\ Cardinality(Above(n)) \in Nat
  BY <1>1, FS_Subset, FS_CardinalityType
<1>3. TopRanges(S, k) = {n \in S : Cardinality(Above(n)) < k}
  BY DEF TopRanges
<1>4. ASSUME S # {}
      PROVE  TopRanges(S, k) # {}
  <2>1. MaxOf(S) \in S /\ \A m \in S : m <= MaxOf(S)
    BY <1>4, MaxOfLemma
  <2>2. Above(MaxOf(S)) = {}
    <3>1. SUFFICES ASSUME NEW m \in S, m > MaxOf(S)
                   PROVE  FALSE
      OBVIOUS
    <3>2. m <= MaxOf(S) /\ m \in Nat /\ MaxOf(S) \in Nat
      BY <1>1, <2>1
    <3> QED BY <3>1, <3>2
  <2>3. Cardinality(Above(MaxOf(S))) = 0
    BY <2>2, FS_EmptySet
  <2> HIDE DEF Above
  <2> QED BY <1>3, <2>1, <2>3
<1>5. ASSUME NEW n \in S \ TopRanges(S, k), NEW m \in TopRanges(S, k)
      PROVE  n < m
  <2>0. n \in S /\ m \in S /\ n \in Nat /\ m \in Nat
    BY <1>1, <1>3
  <2>1. SUFFICES ASSUME m <= n
                 PROVE  FALSE
    BY <2>0
  <2>2. Above(n) \subseteq Above(m)
    <3>1. SUFFICES ASSUME NEW a \in S, a > n
                   PROVE  a > m
      OBVIOUS
    <3>2. a \in Nat
      BY <1>1
    <3> QED BY <2>0, <2>1, <3>1, <3>2
  <2>3. Cardinality(Above(n)) <= Cardinality(Above(m))
    BY <1>2, <2>2, FS_Subset
  <2> HIDE DEF Above
  <2> QED BY <1>2, <1>3, <2>3
<1> QED BY <1>3, <1>4, <1>5

\* Counting of packets stops when an ACK frame is desired.
SinceOK(r) == r.desired \/ r.since < PktsBeforeAck

\* q is r after some numbers have been forgotten below the watermark.
Forgets(r, q) ==
    /\ q \in RxState
    /\ q.set \subseteq r.set
    /\ \A n \in r.set : n \in q.set \/ n < q.watermark
    /\ r.watermark <= q.watermark
    /\ q.desired = r.desired /\ q.flush = r.flush /\ q.since = r.since
    /\ q.last = r.last /\ q.wantAck = r.wantAck

\* Raising the watermark forgets only what is below it.
LEMMA BumpedLemma ==
    ASSUME NEW r \in RxState, NEW w \in Nat
    PROVE  Forgets(r, Bumped(r, w))
<1>1. CASE w <= r.watermark
  BY <1>1 DEF Bumped, Forgets, RxState
<1>2. CASE ~(w <= r.watermark)
  <2> DEFINE q == [r EXCEPT !.set = {n \in @ : n >= w}, !.watermark = w]
  <2>1. Bumped(r, w) = q
    BY <1>2 DEF Bumped
  <2>2. q \in RxState
    BY DEF RxState
  <2>3. r.watermark \in Nat /\ r.set \subseteq Nat
    BY PNBound DEF RxState
  <2>4. q.set = {n \in r.set : n >= w} /\ q.watermark = w
    BY DEF RxState
  <2>5. \A n \in r.set : n \in q.set \/ n < q.watermark
    BY <2>3, <2>4
  <2>6. /\ q.desired = r.desired /\ q.flush = r.flush /\ q.since = r.since
        /\ q.last = r.last /\ q.wantAck = r.wantAck
    BY DEF RxState
  <2> QED BY <1>2, <2>1, <2>2, <2>3, <2>4, <2>5, <2>6 DEF Forgets
<1> QED BY <1>1, <1>2

\* So does dropping the lowest ranges.
LEMMA TrimmedLemma ==
    ASSUME NEW r \in RxState
    PROVE  Forgets(r, Trimmed(r))
<1> DEFINE D == r.set \ TopRanges(r.set, MaxRanges)
<1>1. CASE D = {}
  <2>1. Trimmed(r) = r
    BY <1>1 DEF Trimmed
  <2> QED BY <2>1 DEF Forgets, RxState
<1>2. CASE D # {}
  <2>1. D \in SUBSET PN
    BY DEF RxState
  <2>2. MaxOf(D) \in Nat
    BY <1>2, <2>1, MaxOfLemma, PNBound
  <2>3. Trimmed(r) = Bumped(r, MaxOf(D) + 1)
    BY <1>2 DEF Trimmed
  <2>4. MaxOf(D) + 1 \in Nat
    BY <2>2
  <2> QED BY <2>3, <2>4, BumpedLemma
<1> QED BY <1>1, <1>2

\* The number that is added is stored or is below the watermark.
LEMMA AddedLemma ==
    ASSUME NEW r \in RxState, NEW n \in PN, n >= r.watermark
    PROVE  Forgets([r EXCEPT !.set = @ \cup {n}], Added(r, n))
<1>1. [r EXCEPT !.set = @ \cup {n}] \in RxState
  BY DEF RxState
<1>2. n \in Nat /\ r.watermark \in Nat
  BY PNBound DEF RxState
<1>3. Added(r, n) = Trimmed([r EXCEPT !.set = @ \cup {n}])
  BY <1>2 DEF Added
<1> QED BY <1>1, <1>3, TrimmedLemma

\* q is r after some numbers of N have been stored, and all of them are known.
Learns(r, q, N) ==
    /\ q \in RxState
    /\ q.set \subseteq r.set \cup N
    /\ \A n \in r.set \cup N : n \in q.set \/ n < q.watermark
    /\ r.watermark <= q.watermark
    /\ r.desired \/ r.flush => q.desired \/ q.flush
    /\ SinceOK(q)
    /\ q.last = r.last /\ q.wantAck = r.wantAck

\* Counting an ACK-eliciting packet.
LEMMA OnRxAckElicitingLemma ==
    ASSUME NEW r \in RxState, NEW wasMissing \in BOOLEAN, SinceOK(r)
    PROVE  LET q == OnRxAckEliciting(r, wasMissing)
           IN  /\ q \in RxState /\ SinceOK(q)
               /\ q.desired \/ q.flush
               /\ q.set = r.set /\ q.watermark = r.watermark
               /\ q.last = r.last /\ q.wantAck = r.wantAck
<1> DEFINE q == [r EXCEPT !.since = @ + 1]
           c == \/ ~q.generated \/ wasMissing
                \/ q.since >= PktsBeforeAck \/ HasNewlyMissing(q)
<1>1. CASE r.desired
  BY <1>1 DEF OnRxAckEliciting, RxState
<1>2. CASE ~r.desired
  <2>1. r.since \in Nat /\ PktsBeforeAck \in Nat
    BY AckmConstants DEF RxState
  <2>2. r.since + 1 \in 0..PktsBeforeAck
    BY <1>2, <2>1 DEF SinceOK
  <2>3. q \in RxState /\ q.since = r.since + 1
    BY <2>2 DEF RxState
  <2>4. /\ q.set = r.set /\ q.watermark = r.watermark
        /\ q.last = r.last /\ q.wantAck = r.wantAck
    BY DEF RxState
  <2>5. CASE c
    <3>1. OnRxAckEliciting(r, wasMissing) = [q EXCEPT !.desired = TRUE, !.flush = FALSE]
      BY <1>2, <2>5 DEF OnRxAckEliciting
    <3> HIDE DEF q
    <3> QED BY <2>3, <2>4, <3>1 DEF RxState, SinceOK
  <2>6. CASE ~c
    <3>1. OnRxAckEliciting(r, wasMissing) = [q EXCEPT !.flush = TRUE]
      BY <1>2, <2>6 DEF OnRxAckEliciting
    <3>2. q.since < PktsBeforeAck
      BY <2>1, <2>3, <2>6
    <3> HIDE DEF q
    <3> QED BY <2>3, <2>4, <3>1, <3>2 DEF RxState, SinceOK
  <2> QED BY <2>5, <2>6
<1> QED BY <1>1, <1>2

\* A packet's number is known once it was received, and an ACK-eliciting packet
\* whose number is stored asks for an ACK frame.
LEMMA OnRxPacketLemma ==
    ASSUME NEW r \in RxState, NEW n \in PN, NEW eliciting \in BOOLEAN, SinceOK(r)
    PROVE  LET q == OnRxPacket(r, n, eliciting)
           IN  /\ Learns(r, q, {n})
               /\ eliciting /\ n \notin r.set /\ n \in q.set => q.desired \/ q.flush
<1>1. n \in Nat /\ r.watermark \in Nat
  BY PNBound DEF RxState
<1>2. CASE ~Processable(r, n)
  <2>1. OnRxPacket(r, n, eliciting) = r
    BY <1>2 DEF OnRxPacket
  <2>2. n \in r.set \/ n < r.watermark
    BY <1>1, <1>2 DEF Processable
  <2> QED BY <1>1, <2>1, <2>2 DEF Learns
<1>3. CASE Processable(r, n)
  <2> DEFINE s == [r EXCEPT !.set = @ \cup {n}]
             a == Added(r, n)
  <2>1. n >= r.watermark
    BY <1>3 DEF Processable
  <2>2. Forgets(s, a)
    BY <2>1, AddedLemma
  <2>3. /\ s.set = r.set \cup {n} /\ s.watermark = r.watermark /\ s.desired = r.desired
        /\ s.flush = r.flush /\ s.since = r.since /\ s.last = r.last /\ s.wantAck = r.wantAck
    BY DEF RxState
  <2>4. Learns(r, a, {n})
    <3> HIDE DEF s, a
    <3> QED BY <2>2, <2>3 DEF Learns, Forgets, SinceOK
  <2>5. CASE ~eliciting
    BY <1>3, <2>4, <2>5 DEF OnRxPacket
  <2>6. CASE eliciting
    <3>1. OnRxPacket(r, n, eliciting) = OnRxAckEliciting(a, IsMissing(r, n))
      BY <1>3, <2>6 DEF OnRxPacket
    <3>2. IsMissing(r, n) \in BOOLEAN
      BY DEF IsMissing
    <3>3. a \in RxState /\ SinceOK(a)
      BY <2>4 DEF Learns
    <3> DEFINE q == OnRxAckEliciting(a, IsMissing(r, n))
    <3>4. /\ q \in RxState /\ SinceOK(q)
          /\ q.desired \/ q.flush
          /\ q.set = a.set /\ q.watermark = a.watermark
          /\ q.last = a.last /\ q.wantAck = a.wantAck
      BY <3>2, <3>3, OnRxAckElicitingLemma
    <3> HIDE DEF a, q
    <3>5. Learns(r, q, {n})
      BY <2>4, <3>4 DEF Learns
    <3> QED BY <3>1, <3>4, <3>5 DEF q
  <2> QED BY <2>5, <2>6
<1> QED BY <1>2, <1>3

\* A packet that was sent, as a packet.
LEMMA SentPacket ==
    ASSUME TypeOK, NEW e \in Endpoint, NEW n \in Nat, n < Len(sent[e])
    PROVE  /\ n + 1 \in 1..Len(sent[e])
           /\ sent[e][n + 1] \in Packet
           /\ sent[e][n + 1].eliciting \in BOOLEAN
           /\ sent[e][n + 1].ack \in SUBSET PN
<1>1. sent[e] \in Seq(Packet)
  BY DEF TypeOK
<1>2. n + 1 \in 1..Len(sent[e])
  BY <1>1
<1>3. sent[e][n + 1] \in Packet
  BY <1>1, <1>2
<1> QED BY <1>2, <1>3 DEF Packet

\* A lost ACK frame is asked for again; nothing else changes.
LEMMA RegeneratedLemma ==
    ASSUME NEW e, NEW r \in RxState, NEW N
    PROVE  LET q == Regenerated(e, r, N)
           IN  /\ q \in RxState
               /\ q.set = r.set /\ q.watermark = r.watermark /\ q.desired = r.desired
               /\ q.flush = r.flush /\ q.since = r.since /\ q.last = r.last
               /\ r.wantAck => q.wantAck
               /\ \A n \in N : sent[e][n + 1].ack # {} => q.wantAck
<1> DEFINE w == r.wantAck \/ \E n \in N : sent[e][n + 1].ack # {}
<1>1. w \in BOOLEAN
  OBVIOUS
<1>2. Regenerated(e, r, N) = [r EXCEPT !.wantAck = w]
  BY DEF Regenerated, RxState
<1>3. w => (r.wantAck \/ \E n \in N : sent[e][n + 1].ack # {})
  OBVIOUS
<1>4. /\ r.wantAck => w
      /\ \A n \in N : sent[e][n + 1].ack # {} => w
  OBVIOUS
<1> HIDE DEF w
<1> DEFINE q == [r EXCEPT !.wantAck = w]
<1>5. /\ q \in RxState
      /\ q.set = r.set /\ q.watermark = r.watermark /\ q.desired = r.desired
      /\ q.flush = r.flush /\ q.since = r.since /\ q.last = r.last
      /\ q.wantAck = w
  BY <1>1 DEF RxState
<1> HIDE DEF q
<1> QED BY <1>2, <1>4, <1>5 DEF q

\* What is provably acknowledged is forgotten below the new watermark.
LEMMA ProvablyAckedLemma ==
    ASSUME TypeOK, NEW e \in Endpoint, NEW r \in RxState,
           NEW N \in SUBSET (0..Len(sent[e]) - 1)
    PROVE  Forgets(r, ProvablyAcked(e, r, N))
<1> DEFINE reports == {n \in Eliciting(e, N) : sent[e][n + 1].ack # {}}
           tops == {MaxOf(sent[e][n + 1].ack) : n \in reports}
<1>1. CASE reports = {}
  <2>1. ProvablyAcked(e, r, N) = r
    BY <1>1 DEF ProvablyAcked
  <2> QED BY <2>1 DEF Forgets, RxState
<1>2. CASE reports # {}
  <2>1. ASSUME NEW n \in reports
        PROVE  MaxOf(sent[e][n + 1].ack) \in PN
    <3>1. n \in N /\ sent[e][n + 1].ack # {}
      BY DEF Eliciting
    <3>2. n \in Nat /\ n < Len(sent[e])
      <4>1. Len(sent[e]) \in Nat
        BY DEF TypeOK
      <4> QED BY <3>1, <4>1
    <3>3. sent[e][n + 1].ack \in SUBSET PN
      BY <3>2, SentPacket
    <3> QED BY <3>1, <3>3, MaxOfLemma
  <2>2. tops \in SUBSET PN /\ tops # {}
    BY <1>2, <2>1
  <2>3. MaxOf(tops) \in Nat
    BY <2>2, MaxOfLemma, PNBound
  <2>4. MaxOf(tops) + 1 \in Nat
    BY <2>3
  <2>5. ProvablyAcked(e, r, N) = Bumped(r, MaxOf(tops) + 1)
    BY <1>2 DEF ProvablyAcked
  <2> QED BY <2>4, <2>5, BumpedLemma
<1> QED BY <1>1, <1>2

-----------------------------------------------------------------------------
\* The transmit side.

\* Packets are finite in number, and counting those in flight is exact when some go.
LEMMA ElicitingLemma ==
    ASSUME NEW e, NEW H \in SUBSET PN, NEW N \in SUBSET H
    PROVE  /\ Cardinality(Eliciting(e, H)) \in Nat
           /\ Cardinality(Eliciting(e, N)) \in Nat
           /\ Cardinality(Eliciting(e, H \ N))
                = Cardinality(Eliciting(e, H)) - Cardinality(Eliciting(e, N))
           /\ Cardinality(Eliciting(e, H)) - Cardinality(Eliciting(e, N)) \in Nat
<1>1. /\ Eliciting(e, N) \subseteq Eliciting(e, H)
      /\ Eliciting(e, H) \subseteq PN
      /\ Eliciting(e, H \ N) = Eliciting(e, H) \ Eliciting(e, N)
      /\ Eliciting(e, H) \cap Eliciting(e, N) = Eliciting(e, N)
  BY DEF Eliciting
<1>2. IsFiniteSet(Eliciting(e, H))
  BY <1>1, PNBound, FS_Subset
<1>3. IsFiniteSet(Eliciting(e, N)) /\ IsFiniteSet(Eliciting(e, H \ N))
  BY <1>1, <1>2, FS_Subset, FS_Difference
<1>4. /\ Cardinality(Eliciting(e, H)) \in Nat /\ Cardinality(Eliciting(e, N)) \in Nat
      /\ Cardinality(Eliciting(e, H \ N)) \in Nat
  BY <1>2, <1>3, FS_CardinalityType
<1>5. Cardinality(Eliciting(e, H) \ Eliciting(e, N))
        = Cardinality(Eliciting(e, H)) - Cardinality(Eliciting(e, H) \cap Eliciting(e, N))
  BY <1>2, FS_Difference
<1> QED BY <1>1, <1>4, <1>5

\* The largest number acknowledged is an integer.
LEMMA LargestInt ==
    ASSUME NEW t \in TxState
    PROVE  t.largestAcked \in Int
<1>1. t.largestAcked \in PN \cup {-1}
  BY DEF TxState, None
<1>2. PN \subseteq Int /\ -1 \in Int
  BY PNBound
<1> QED BY <1>1, <1>2

\* The timer is set as the history and the counts call for.
Armed(t) ==
    t.deadline = IF t.lossTime THEN "loss" ELSE IF t.elicitingInFlight = 0 THEN "none" ELSE "pto"

\* ackm_set_loss_detection_timer() changes nothing else.
LEMMA TimerLemma ==
    ASSUME NEW t \in TxState
    PROVE  LET u == SetLossDetectionTimer(t)
           IN  /\ u \in TxState /\ Armed(u)
               /\ u.largestAcked = t.largestAcked /\ u.lossTime = t.lossTime
               /\ u.probe = t.probe /\ u.inFlight = t.inFlight
               /\ u.elicitingInFlight = t.elicitingInFlight /\ u.cc = t.cc
<1> DEFINE d == IF t.lossTime THEN "loss" ELSE IF t.elicitingInFlight = 0 THEN "none" ELSE "pto"
           u == [t EXCEPT !.deadline = d]
<1>1. d \in {"none", "loss", "pto"}
  OBVIOUS
<1>2. SetLossDetectionTimer(t) = u
  BY DEF SetLossDetectionTimer
<1>3. /\ u \in TxState
      /\ u.largestAcked = t.largestAcked /\ u.lossTime = t.lossTime
      /\ u.probe = t.probe /\ u.inFlight = t.inFlight /\ u.deadline = d
      /\ u.elicitingInFlight = t.elicitingInFlight /\ u.cc = t.cc
  <2> HIDE DEF d
  <2> QED BY <1>1 DEF TxState
<1> HIDE DEF u
<1>4. Armed(u)
  BY <1>3 DEF Armed
<1> QED BY <1>2, <1>3, <1>4 DEF u

\* When packets leave the history the counts stay exact, and loss time and timer
\* follow what is left.
LEMMA ResolvedLemma ==
    ASSUME NEW e \in Endpoint, history[e] \in SUBSET PN, NEW N \in SUBSET history[e],
           NEW t \in TxState,
           t.inFlight = Cardinality(Eliciting(e, history[e])),
           t.elicitingInFlight = Cardinality(Eliciting(e, history[e])),
           t.cc = Cardinality(Eliciting(e, history[e]))
    PROVE  LET u == Resolved(e, t, N)
               k == Cardinality(Eliciting(e, history[e] \ N))
           IN  /\ u \in TxState /\ Armed(u)
               /\ u.largestAcked = t.largestAcked
               /\ u.lossTime <=> LossCandidates(history[e] \ N, t.largestAcked) # {}
               /\ u.inFlight = k /\ u.elicitingInFlight = k /\ u.cc = k
<1> DEFINE k == Cardinality(Eliciting(e, N))
           l == LossCandidates(history[e] \ N, t.largestAcked) # {}
           v == [t EXCEPT !.inFlight = @ - k, !.elicitingInFlight = @ - k, !.cc = @ - k,
                          !.lossTime = l]
<1>1. /\ k \in Nat
      /\ Cardinality(Eliciting(e, history[e] \ N)) = Cardinality(Eliciting(e, history[e])) - k
      /\ Cardinality(Eliciting(e, history[e])) - k \in Nat
  BY ElicitingLemma
<1>2. l \in BOOLEAN
  OBVIOUS
<1>3. Resolved(e, t, N) = SetLossDetectionTimer(v)
  BY DEF Resolved
<1>4. l <=> LossCandidates(history[e] \ N, t.largestAcked) # {}
  OBVIOUS
<1>5. t.inFlight - k \in Nat /\ t.elicitingInFlight - k \in Nat /\ t.cc - k \in Nat
  BY <1>1
<1> HIDE DEF k, l
<1>6. /\ v \in TxState
      /\ v.largestAcked = t.largestAcked
      /\ v.lossTime = l
      /\ v.inFlight = t.inFlight - k /\ v.elicitingInFlight = t.elicitingInFlight - k
      /\ v.cc = t.cc - k
  BY <1>2, <1>5 DEF TxState
<1> HIDE DEF v
<1>7. LET u == SetLossDetectionTimer(v)
      IN  /\ u \in TxState /\ Armed(u)
          /\ u.largestAcked = v.largestAcked /\ u.lossTime = v.lossTime
          /\ u.probe = v.probe /\ u.inFlight = v.inFlight
          /\ u.elicitingInFlight = v.elicitingInFlight /\ u.cc = v.cc
  BY <1>6, TimerLemma
<1> QED BY <1>1, <1>3, <1>4, <1>6, <1>7 DEF k

\* A packet that is sent is counted if it is ACK-eliciting, and sets the timer.
LEMMA OnTxPacketLemma ==
    ASSUME NEW t \in TxState, NEW eliciting \in BOOLEAN, Armed(t)
    PROVE  LET u == OnTxPacket(t, eliciting)
               k == IF eliciting THEN 1 ELSE 0
           IN  /\ u \in TxState /\ Armed(u)
               /\ u.largestAcked = t.largestAcked /\ u.lossTime = t.lossTime
               /\ u.inFlight = t.inFlight + k
               /\ u.elicitingInFlight = t.elicitingInFlight + k
               /\ u.cc = t.cc + k
<1>0. t.inFlight \in Nat /\ t.elicitingInFlight \in Nat /\ t.cc \in Nat
  BY DEF TxState
<1>1. CASE ~eliciting
  BY <1>0, <1>1 DEF OnTxPacket
<1>2. CASE eliciting
  <2> DEFINE v == [t EXCEPT !.inFlight = @ + 1, !.elicitingInFlight = @ + 1, !.cc = @ + 1]
  <2>1. /\ v \in TxState
        /\ v.largestAcked = t.largestAcked /\ v.lossTime = t.lossTime
        /\ v.inFlight = t.inFlight + 1 /\ v.elicitingInFlight = t.elicitingInFlight + 1
        /\ v.cc = t.cc + 1
    <3>1. t.inFlight + 1 \in Nat /\ t.elicitingInFlight + 1 \in Nat /\ t.cc + 1 \in Nat
      BY <1>0
    <3> QED BY <3>1 DEF TxState
  <2>2. OnTxPacket(t, eliciting) = SetLossDetectionTimer(v)
    BY <1>2 DEF OnTxPacket
  <2> HIDE DEF v
  <2> QED BY <1>2, <2>1, <2>2, TimerLemma
<1> QED BY <1>1, <1>2

-----------------------------------------------------------------------------
\* Every action preserves the invariant.

\* The invariant holds at the start.
LEMMA InitInv == Init => IInv
<1> SUFFICES ASSUME Init
             PROVE  IInv
  OBVIOUS
<1>1. TypeOK
  <2>1. /\ PktsBeforeAck \in Nat \ {0} /\ MaxProbe \in [Endpoint -> Nat]
        /\ \A e \in Endpoint : MaxPn[e] \in Nat
    BY AckmConstants
  <2>2. tx \in [Endpoint -> TxState]
    BY <2>1 DEF Init, TxState, None
  <2>3. rx \in [Endpoint -> RxState]
    BY <2>1 DEF Init, RxState
  <2>4. sent \in [Endpoint -> Seq(Packet)] /\ \A e \in Endpoint : Len(sent[e]) = 0
    BY DEF Init
  <2>5. batch \in [Endpoint -> [pns : Seq(PN), handling : BOOLEAN]]
    BY DEF Init
  <2>6. /\ history \in [Endpoint -> SUBSET PN] /\ acked \in [Endpoint -> SUBSET PN]
        /\ lost \in [Endpoint -> SUBSET PN] /\ handled \in [Endpoint -> SUBSET PN]
    BY DEF Init
  <2>7. \A e \in Endpoint : Len(sent[e]) <= MaxPn[e]
    BY <2>1, <2>4
  <2> QED BY <2>2, <2>3, <2>4, <2>5, <2>6, <2>7 DEF TypeOK
<1>2. ASSUME NEW e \in Endpoint
      PROVE  /\ history[e] = {} /\ acked[e] = {} /\ lost[e] = {} /\ handled[e] = {}
             /\ sent[e] = <<>> /\ Len(sent[e]) = 0 /\ batch[e].pns = <<>>
             /\ rx[e].set = {} /\ rx[e].since = 0
             /\ tx[e].largestAcked = -1 /\ tx[e].lossTime = FALSE /\ tx[e].deadline = "none"
             /\ tx[e].inFlight = 0 /\ tx[e].elicitingInFlight = 0 /\ tx[e].cc = 0
  BY DEF Init, None
<1>3. FateInv
  <2>1. 0..0 - 1 = {}
    OBVIOUS
  <2> QED BY ONLY <1>2, <2>1 DEF FateInv
<1>4. LargestInv
  <2> SUFFICES ASSUME NEW e \in Endpoint
               PROVE  /\ tx[e].largestAcked < Len(sent[e])
                      /\ \A n \in acked[e] \cup lost[e] : n <= tx[e].largestAcked
    BY DEF LargestInv
  <2>1. tx[e].largestAcked = -1 /\ Len(sent[e]) = 0
    BY <1>2
  <2>2. acked[e] \cup lost[e] = {}
    BY <1>2
  <2>3. tx[e].largestAcked < Len(sent[e])
    BY ONLY <2>1
  <2> QED BY <2>2, <2>3
<1>5. HandledInv
  <2>1. \A e \in Endpoint : handled[e] = {} /\ rx[e].set = {} /\ Len(sent[e]) = 0
    BY <1>2
  <2>2. 1..0 = {}
    OBVIOUS
  <2> QED BY ONLY <2>1, <2>2 DEF HandledInv
<1>6. BatchInv
  <2>1. \A e \in Endpoint : Len(batch[e].pns) = 0
    BY <1>2
  <2> QED BY ONLY <2>1 DEF BatchInv
<1>7. SinceInv
  BY <1>2, AckmConstants DEF SinceInv
<1>8. TimerInv
  BY <1>2 DEF TimerInv, LossCandidates
<1>9. InFlightExact
  <2>1. \A e \in Endpoint : Eliciting(e, history[e]) = {}
    BY <1>2 DEF Eliciting
  <2> QED BY <1>2, <2>1, FS_EmptySet DEF InFlightExact
<1>10. AckOwed
  BY <1>2 DEF AckOwed
<1> QED BY <1>1, <1>3, <1>4, <1>5, <1>6, <1>7, <1>8, <1>9, <1>10 DEF IInv

\* Decrypting a datagram.
LEMMA DecryptInv ==
    ASSUME IInv, NEW e \in Endpoint, NEW n \in PN, Decrypt(e, n)
    PROVE  IInv'
<1> USE DEF IInv
<1>1. UNCHANGED <<sent, history, acked, lost, tx, rx, handled>>
  BY DEF Decrypt
<1>2. batch' = [batch EXCEPT ![e].pns = Append(@, n)] /\ n < Len(sent[Peer(e)])
  BY DEF Decrypt
<1>3. batch \in [Endpoint -> [pns : Seq(PN), handling : BOOLEAN]]
  BY DEF TypeOK
<1>4. batch' \in [Endpoint -> [pns : Seq(PN), handling : BOOLEAN]]
  <2>1. Append(batch[e].pns, n) \in Seq(PN)
    BY <1>3
  <2> QED BY <1>2, <1>3, <2>1
<1>5. TypeOK'
  BY <1>1, <1>4 DEF TypeOK
<1>6. BatchInv'
  <2> SUFFICES ASSUME NEW f \in Endpoint, NEW i \in 1..Len(batch'[f].pns)
               PROVE  batch'[f].pns[i] < Len(sent[Peer(f)])
    BY <1>1 DEF BatchInv
  <2>1. CASE f = e
    <3>1. batch'[e].pns = Append(batch[e].pns, n) /\ batch[e].pns \in Seq(PN)
      BY <1>2, <1>3
    <3> QED BY <1>2, <2>1, <3>1 DEF BatchInv
  <2>2. CASE f # e
    BY <1>2, <1>3, <2>2 DEF BatchInv
  <2> QED BY <2>1, <2>2
<1>7. FateInv' /\ LargestInv' /\ HandledInv' /\ SinceInv'
  BY <1>1 DEF FateInv, LargestInv, HandledInv, SinceInv
<1>8. TimerInv' /\ InFlightExact'
  BY <1>1 DEF TimerInv, InFlightExact, LossCandidates, Eliciting
<1>9. AckOwed'
  BY <1>1 DEF AckOwed
<1> QED BY <1>5, <1>6, <1>7, <1>8, <1>9

\* Sending a packet.
LEMMA SendInv ==
    ASSUME IInv, NEW e \in Endpoint, NEW eliciting \in BOOLEAN, NEW late \in BOOLEAN,
           Send(e, eliciting, late)
    PROVE  IInv'
<1> USE DEF IInv
<1> DEFINE due == AckDue(rx[e], late)
           ack == IF due THEN AckFrame(rx[e]) ELSE {}
           r   == IF due THEN AckFrameTaken(rx[e]) ELSE rx[e]
           t   == IF eliciting /\ tx[e].probe > 0 THEN [tx[e] EXCEPT !.probe = @ - 1] ELSE tx[e]
           p   == [eliciting |-> eliciting, ack |-> ack]
           q   == IF ack = {} THEN r ELSE [r EXCEPT !.wantAck = FALSE]
           u   == OnTxPacket(t, eliciting)
           len == Len(sent[e])
<1>1. /\ len < MaxPn[e]
      /\ sent' = [sent EXCEPT ![e] = Append(@, p)]
      /\ tx' = [tx EXCEPT ![e] = u]
      /\ history' = [history EXCEPT ![e] = @ \cup {len}]
      /\ rx' = [rx EXCEPT ![e] = q]
      /\ UNCHANGED <<acked, lost, batch, handled>>
  BY DEF Send
<1>2. /\ sent \in [Endpoint -> Seq(Packet)] /\ history \in [Endpoint -> SUBSET PN]
      /\ tx \in [Endpoint -> TxState] /\ rx \in [Endpoint -> RxState]
      /\ \A f \in Endpoint : Len(sent[f]) \in Nat /\ Len(sent[f]) <= MaxPn[f]
  BY DEF TypeOK
<1>3. len \in PN /\ len \in Nat
  BY <1>1, <1>2, SentPN
<1>4. rx[e] \in RxState /\ tx[e] \in TxState /\ rx[e].set \in SUBSET PN
  BY <1>2 DEF RxState
<1>5. /\ AckFrame(rx[e]) \subseteq rx[e].set
      /\ rx[e].set # {} => AckFrame(rx[e]) # {}
      /\ \A n \in rx[e].set \ AckFrame(rx[e]) : \A m \in AckFrame(rx[e]) : n < m
  <2>1. FrameRanges \in Nat \ {0}
    BY AckmConstants
  <2> QED BY <1>4, <2>1, TopRangesLemma DEF AckFrame
<1>6. ack \subseteq rx[e].set /\ p \in Packet /\ p.eliciting = eliciting /\ p.ack = ack
  BY <1>4, <1>5 DEF Packet
<1>7. /\ r \in RxState /\ r.set = rx[e].set /\ r.watermark = rx[e].watermark /\ SinceOK(r)
      /\ due => r.last = AckFrame(rx[e])
  <2>1. CASE ~due
    BY <1>4, <2>1 DEF SinceInv, SinceOK
  <2>2. CASE due
    <3>1. r = [rx[e] EXCEPT !.since = 0, !.generated = TRUE, !.desired = FALSE,
                            !.flush = FALSE, !.last = AckFrame(rx[e])]
      BY <2>2 DEF AckFrameTaken
    <3>2. 0 \in 0..PktsBeforeAck /\ 0 < PktsBeforeAck
      BY AckmConstants
    <3>3. AckFrame(rx[e]) \in SUBSET PN
      BY <1>4, <1>5
    <3> HIDE DEF r, due
    <3> QED BY <1>4, <3>1, <3>2, <3>3 DEF RxState, SinceOK
  <2> QED BY <2>1, <2>2
<1>8. /\ q \in RxState /\ q.set = rx[e].set /\ q.watermark = rx[e].watermark /\ SinceOK(q)
      /\ due => q.last = AckFrame(rx[e])
      /\ ~due => q = rx[e]
  <2>1. ~due => q = rx[e]
    OBVIOUS
  <2> HIDE DEF r, ack, due
  <2>2. CASE ack = {}
    BY <1>7, <2>1, <2>2
  <2>3. CASE ack # {}
    <3>1. q = [r EXCEPT !.wantAck = FALSE]
      BY <2>3
    <3> HIDE DEF q
    <3> QED BY <1>7, <2>1, <3>1 DEF RxState, SinceOK
  <2> QED BY <2>2, <2>3
<1>9. /\ t \in TxState /\ Armed(t)
      /\ t.largestAcked = tx[e].largestAcked /\ t.lossTime = tx[e].lossTime
      /\ t.inFlight = tx[e].inFlight /\ t.elicitingInFlight = tx[e].elicitingInFlight
      /\ t.cc = tx[e].cc
  <2>1. Armed(tx[e])
    BY DEF TimerInv, Armed
  <2>2. CASE ~(eliciting /\ tx[e].probe > 0)
    BY <1>4, <2>1, <2>2
  <2>3. CASE eliciting /\ tx[e].probe > 0
    <3>1. t = [tx[e] EXCEPT !.probe = @ - 1]
      BY <2>3
    <3>2. tx[e].probe - 1 \in Nat
      BY <1>4, <2>3, AckmConstants DEF TxState
    <3> HIDE DEF t
    <3> QED BY <1>4, <2>1, <3>1, <3>2 DEF TxState, Armed
  <2> QED BY <2>2, <2>3
<1> DEFINE k == IF eliciting THEN 1 ELSE 0
<1>10. /\ u \in TxState /\ Armed(u)
       /\ u.largestAcked = tx[e].largestAcked /\ u.lossTime = tx[e].lossTime
       /\ u.inFlight = tx[e].inFlight + k
       /\ u.elicitingInFlight = tx[e].elicitingInFlight + k
       /\ u.cc = tx[e].cc + k
  <2> HIDE DEF t
  <2> QED BY <1>9, OnTxPacketLemma
<1>11. /\ sent'[e] = Append(sent[e], p) /\ sent'[e] \in Seq(Packet)
       /\ Len(sent'[e]) = len + 1
       /\ \A i \in 1..len : sent'[e][i] = sent[e][i]
       /\ sent'[e][len + 1] = p
  <2> HIDE DEF p
  <2>1. sent'[e] = Append(sent[e], p) /\ sent[e] \in Seq(Packet)
    BY <1>1, <1>2
  <2> QED BY <1>6, <2>1
<1>12. \A f \in Endpoint : f # e => /\ sent'[f] = sent[f] /\ tx'[f] = tx[f]
                                   /\ rx'[f] = rx[f] /\ history'[f] = history[f]
  <2> HIDE DEF p, u, q
  <2> QED BY <1>1, <1>2
<1>13. tx'[e] = u /\ rx'[e] = q /\ history'[e] = history[e] \cup {len}
  <2> HIDE DEF u, q
  <2> QED BY <1>1, <1>2
<1> HIDE DEF p, u, q, t, r
<1>14. TypeOK'
  <2>1. sent' \in [Endpoint -> Seq(Packet)]
    BY <1>1, <1>2, <1>11
  <2>2. tx' \in [Endpoint -> TxState] /\ rx' \in [Endpoint -> RxState]
    BY <1>1, <1>2, <1>8, <1>10
  <2>3. history' \in [Endpoint -> SUBSET PN]
    BY <1>1, <1>2, <1>3
  <2>4. \A f \in Endpoint : Len(sent'[f]) <= MaxPn[f]
    <3>1. len + 1 <= MaxPn[e]
      BY <1>1, <1>3, AckmConstants
    <3> QED BY <1>2, <1>11, <1>12, <3>1
  <2> QED BY <1>1, <2>1, <2>2, <2>3, <2>4 DEF TypeOK
<1>15. FateInv'
  <2> SUFFICES ASSUME NEW f \in Endpoint
               PROVE  /\ history'[f] \cup acked[f] \cup lost[f] = 0..Len(sent'[f]) - 1
                      /\ history'[f] \cap acked[f] = {}
    BY <1>1 DEF FateInv
  <2>1. CASE f # e
    BY <1>12, <2>1 DEF FateInv
  <2>2. CASE f = e
    <3>1. 0..(len + 1) - 1 = (0..len - 1) \cup {len} /\ len \notin 0..len - 1
      BY <1>3
    <3>2. /\ history[e] \cup acked[e] \cup lost[e] = 0..len - 1
          /\ history[e] \cap acked[e] = {}
      BY DEF FateInv
    <3> QED BY <1>11, <1>13, <2>2, <3>1, <3>2
  <2> QED BY <2>1, <2>2
<1>16. LargestInv'
  <2> SUFFICES ASSUME NEW f \in Endpoint
               PROVE  /\ tx'[f].largestAcked < Len(sent'[f])
                      /\ \A n \in acked[f] \cup lost[f] : n <= tx'[f].largestAcked
    BY <1>1 DEF LargestInv
  <2>1. CASE f # e
    BY <1>12, <2>1 DEF LargestInv
  <2>2. CASE f = e
    <3>1. tx[e].largestAcked < len /\ tx[e].largestAcked \in Int
      <4>1. tx[e].largestAcked \in Int
        BY <1>4, LargestInt
      <4>2. tx[e].largestAcked < len
        BY DEF LargestInv
      <4> QED BY <4>1, <4>2
    <3>2. tx'[e].largestAcked < Len(sent'[e])
      BY <1>3, <1>10, <1>11, <1>13, <3>1
    <3> QED BY <1>10, <1>13, <2>2, <3>2 DEF LargestInv
  <2> QED BY <2>1, <2>2
<1>17. HandledInv'
  <2> SUFFICES ASSUME NEW f \in Endpoint
               PROVE  /\ handled[f] \subseteq 0..Len(sent'[Peer(f)]) - 1
                      /\ rx'[f].set \subseteq handled[f]
                      /\ \A n \in handled[f] : n < rx'[f].watermark \/ n \in rx'[f].set
                      /\ \A i \in 1..Len(sent'[f]) : sent'[f][i].ack \subseteq handled[f]
    BY <1>1 DEF HandledInv
  <2>1. handled[f] \subseteq 0..Len(sent'[Peer(f)]) - 1
    <3>1. handled[f] \subseteq 0..Len(sent[Peer(f)]) - 1
      BY DEF HandledInv
    <3>2. CASE Peer(f) # e
      BY <1>12, <3>1, <3>2, PeerLemma
    <3>3. CASE Peer(f) = e
      <4>1. 0..len - 1 \subseteq 0..(len + 1) - 1
        BY <1>3
      <4> QED BY <1>11, <3>1, <3>3, <4>1
    <3> QED BY <3>2, <3>3
  <2>2. /\ rx'[f].set \subseteq handled[f]
        /\ \A n \in handled[f] : n < rx'[f].watermark \/ n \in rx'[f].set
    BY <1>8, <1>12, <1>13 DEF HandledInv
  <2>3. \A i \in 1..Len(sent'[f]) : sent'[f][i].ack \subseteq handled[f]
    <3>1. CASE f # e
      BY <1>12, <3>1 DEF HandledInv
    <3>2. CASE f = e
      <4>1. \A i \in 1..len + 1 : i \in 1..len \/ i = len + 1
        BY <1>3
      <4>2. \A i \in 1..len : sent'[e][i].ack \subseteq handled[e]
        BY <1>11 DEF HandledInv
      <4>3. sent'[e][len + 1].ack \subseteq handled[e]
        BY <1>6, <1>11 DEF HandledInv
      <4> QED BY <1>11, <3>2, <4>1, <4>2, <4>3
    <3> QED BY <3>1, <3>2
  <2> QED BY <2>1, <2>2, <2>3
<1>18. BatchInv'
  <2> SUFFICES ASSUME NEW f \in Endpoint, NEW i \in 1..Len(batch[f].pns)
               PROVE  batch[f].pns[i] < Len(sent'[Peer(f)])
    BY <1>1 DEF BatchInv
  <2>1. batch[f].pns[i] < Len(sent[Peer(f)])
    BY DEF BatchInv
  <2>2. CASE Peer(f) # e
    BY <1>12, <2>1, <2>2, PeerLemma
  <2>3. CASE Peer(f) = e
    <3>1. batch[f].pns[i] \in PN
      BY DEF TypeOK
    <3>2. batch[f].pns[i] \in Nat
      BY <3>1, PNBound
    <3> QED BY <1>3, <1>11, <2>1, <2>3, <3>2
  <2> QED BY <2>2, <2>3
<1>19. SinceInv'
  BY <1>8, <1>12, <1>13 DEF SinceInv, SinceOK
<1>20. TimerInv'
  <2> SUFFICES ASSUME NEW f \in Endpoint
               PROVE  /\ tx'[f].lossTime
                            <=> LossCandidates(history'[f], tx'[f].largestAcked) # {}
                      /\ Armed(tx'[f])
    BY DEF TimerInv, Armed, LossCandidates
  <2>1. CASE f # e
    BY <1>12, <2>1 DEF TimerInv, Armed
  <2>2. CASE f = e
    <3>1. tx[e].largestAcked < len /\ tx[e].largestAcked \in Int
      <4>1. tx[e].largestAcked \in Int
        BY <1>4, LargestInt
      <4>2. tx[e].largestAcked < len
        BY DEF LargestInv
      <4> QED BY <4>1, <4>2
    <3>2. ~(len <= tx[e].largestAcked)
      BY <1>3, <3>1
    <3>3. LossCandidates(history[e] \cup {len}, tx[e].largestAcked)
            = LossCandidates(history[e], tx[e].largestAcked)
      BY <3>2 DEF LossCandidates
    <3> QED BY <1>10, <1>13, <2>2, <3>3 DEF TimerInv
  <2> QED BY <2>1, <2>2
<1>21. InFlightExact'
  <2>1. ASSUME NEW f \in Endpoint, f # e
        PROVE  (Eliciting(f, history[f]))' = Eliciting(f, history[f])
    BY <1>12, <2>1 DEF Eliciting
  <2>2. history[e] \subseteq 0..len - 1
    BY DEF FateInv
  <2>3. \A n \in history[e] : n + 1 \in 1..len
    BY <1>3, <2>2
  <2>4. \A n \in history[e] : sent'[e][n + 1] = sent[e][n + 1]
    BY <1>11, <2>3
  <2>5. len \notin history[e]
    BY <1>3, <2>2
  <2>6. (Eliciting(e, history[e]))'
          = Eliciting(e, history[e]) \cup (IF eliciting THEN {len} ELSE {})
    BY <1>6, <1>11, <1>13, <2>4 DEF Eliciting
  <2>7. Eliciting(e, history[e]) \subseteq history[e]
    BY DEF Eliciting
  <2>8. IsFiniteSet(Eliciting(e, history[e])) /\ Cardinality(Eliciting(e, history[e])) \in Nat
    BY <1>2, <2>7, PNBound, FS_Subset, FS_CardinalityType
  <2>9. Cardinality(Eliciting(e, history[e]) \cup {len}) = Cardinality(Eliciting(e, history[e])) + 1
    BY <2>5, <2>7, <2>8, FS_AddElement
  <2>10. Cardinality((Eliciting(e, history[e]))') = Cardinality(Eliciting(e, history[e])) + k
    <3>1. CASE eliciting
      BY <2>6, <2>9, <3>1
    <3>2. CASE ~eliciting
      BY <2>6, <2>8, <3>2
    <3> QED BY <3>1, <3>2
  <2>11. \A f \in Endpoint : /\ tx[f].inFlight = Cardinality(Eliciting(f, history[f]))
                             /\ tx[f].elicitingInFlight = Cardinality(Eliciting(f, history[f]))
                             /\ tx[f].cc = Cardinality(Eliciting(f, history[f]))
    BY DEF InFlightExact
  <2> SUFFICES ASSUME NEW f \in Endpoint
               PROVE  /\ tx'[f].inFlight = Cardinality((Eliciting(f, history[f]))')
                      /\ tx'[f].elicitingInFlight = Cardinality((Eliciting(f, history[f]))')
                      /\ tx'[f].cc = Cardinality((Eliciting(f, history[f]))')
    BY DEF InFlightExact
  <2>12. CASE f # e
    BY <1>12, <2>1, <2>11, <2>12
  <2>13. CASE f = e
    <3> HIDE DEF k
    <3> QED BY <1>10, <1>13, <2>10, <2>11, <2>13
  <2> QED BY <2>12, <2>13
<1>22. AckOwed'
  <2> SUFFICES ASSUME NEW f \in Endpoint, NEW n \in rx'[f].set,
                      sent'[Peer(f)][n + 1].eliciting
               PROVE  \/ rx'[f].desired \/ rx'[f].flush \/ rx'[f].wantAck
                      \/ \E i \in history'[f] \cup acked[f] : n \in sent'[f][i + 1].ack
                      \/ rx'[f].last # {} /\ \A m \in rx'[f].last : n < m
    BY <1>1 DEF AckOwed
  <2>1. n \in rx[f].set
    BY <1>8, <1>12, <1>13
  <2>2. n \in 0..Len(sent[Peer(f)]) - 1
    BY <2>1 DEF HandledInv
  <2>3. sent[Peer(f)][n + 1].eliciting
    <3>1. CASE Peer(f) # e
      BY <1>12, <3>1, PeerLemma
    <3>2. CASE Peer(f) = e
      <4>1. n + 1 \in 1..len
        BY <1>3, <2>2, <3>2
      <4> QED BY <1>11, <3>2, <4>1
    <3> QED BY <3>1, <3>2
  <2>4. \A i \in history[f] \cup acked[f] : sent'[f][i + 1] = sent[f][i + 1]
    <3>1. CASE f # e
      BY <1>12, <3>1
    <3>2. CASE f = e
      <4>1. history[e] \cup acked[e] \subseteq 0..len - 1
        BY DEF FateInv
      <4>2. \A i \in history[e] \cup acked[e] : i + 1 \in 1..len
        BY <1>3, <4>1
      <4> QED BY <1>11, <3>2, <4>2
    <3> QED BY <3>1, <3>2
  <2>5. history[f] \subseteq history'[f]
    BY <1>12, <1>13
  <2>6. CASE rx'[f] = rx[f]
    BY <2>1, <2>3, <2>4, <2>5, <2>6 DEF AckOwed
  <2>7. CASE rx'[f] # rx[f]
    <3>1. f = e /\ due
      BY <1>8, <1>12, <1>13, <2>7
    <3>2. CASE n \in AckFrame(rx[e])
      <4>1. n \in sent'[e][len + 1].ack
        BY <1>6, <1>11, <3>1, <3>2
      <4> QED BY <1>13, <3>1, <4>1
    <3>3. CASE n \notin AckFrame(rx[e])
      <4>1. rx'[e].last = AckFrame(rx[e])
        BY <1>8, <1>13, <3>1
      <4>2. AckFrame(rx[e]) # {} /\ \A m \in AckFrame(rx[e]) : n < m
        BY <1>5, <2>1, <3>1, <3>3
      <4> QED BY <3>1, <4>1, <4>2
    <3> QED BY <3>2, <3>3
  <2> QED BY <2>6, <2>7
<1> QED BY <1>14, <1>15, <1>16, <1>17, <1>18, <1>19, <1>20, <1>21, <1>22

\* Packets N are acknowledged and packets L are lost.
LEMMA ResolveStep ==
    ASSUME IInv, UNCHANGED sent, NEW e \in Endpoint,
           NEW N \in SUBSET history[e], NEW L \in SUBSET (history[e] \ N),
           history' = [history EXCEPT ![e] = @ \ (N \cup L)],
           acked' = [acked EXCEPT ![e] = @ \cup N],
           lost' = [lost EXCEPT ![e] = @ \cup L],
           NEW t \in TxState,
           t.inFlight = tx[e].inFlight, t.elicitingInFlight = tx[e].elicitingInFlight,
           t.cc = tx[e].cc,
           t.largestAcked < Len(sent[e]), tx[e].largestAcked <= t.largestAcked,
           \A n \in N \cup L : n <= t.largestAcked,
           tx' = [tx EXCEPT ![e] = Resolved(e, t, N \cup L)]
    PROVE  /\ history' \in [Endpoint -> SUBSET PN] /\ acked' \in [Endpoint -> SUBSET PN]
           /\ lost' \in [Endpoint -> SUBSET PN] /\ tx' \in [Endpoint -> TxState]
           /\ FateInv' /\ LargestInv' /\ TimerInv' /\ InFlightExact'
<1> USE DEF IInv
<1> DEFINE u == Resolved(e, t, N \cup L)
           k == Cardinality(Eliciting(e, history[e] \ (N \cup L)))
<1>1. /\ history \in [Endpoint -> SUBSET PN] /\ acked \in [Endpoint -> SUBSET PN]
      /\ lost \in [Endpoint -> SUBSET PN] /\ tx \in [Endpoint -> TxState]
  BY DEF TypeOK
<1>2. /\ u \in TxState /\ Armed(u)
      /\ u.largestAcked = t.largestAcked
      /\ u.lossTime <=> LossCandidates(history[e] \ (N \cup L), t.largestAcked) # {}
      /\ u.inFlight = k /\ u.elicitingInFlight = k /\ u.cc = k
  <2>1. history[e] \in SUBSET PN /\ N \cup L \in SUBSET history[e]
    BY <1>1
  <2>2. /\ t.inFlight = Cardinality(Eliciting(e, history[e]))
        /\ t.elicitingInFlight = Cardinality(Eliciting(e, history[e]))
        /\ t.cc = Cardinality(Eliciting(e, history[e]))
    BY DEF InFlightExact
  <2> QED BY <2>1, <2>2, ResolvedLemma
<1> HIDE DEF u, k
<1>3. tx' = [tx EXCEPT ![e] = u]
  BY DEF u
<1>4. \A f \in Endpoint : f # e => /\ tx'[f] = tx[f] /\ history'[f] = history[f]
                                  /\ acked'[f] = acked[f] /\ lost'[f] = lost[f]
  BY <1>1, <1>3
<1>5. /\ tx'[e] = u /\ history'[e] = history[e] \ (N \cup L)
      /\ acked'[e] = acked[e] \cup N /\ lost'[e] = lost[e] \cup L
  BY <1>1, <1>3
<1>6. /\ history' \in [Endpoint -> SUBSET PN] /\ acked' \in [Endpoint -> SUBSET PN]
      /\ lost' \in [Endpoint -> SUBSET PN]
  <2>1. N \in SUBSET PN /\ L \in SUBSET PN
    BY <1>1
  <2> QED BY <1>1, <2>1
<1>7. tx' \in [Endpoint -> TxState]
  BY <1>1, <1>2, <1>3
<1>8. FateInv'
  <2> SUFFICES ASSUME NEW f \in Endpoint
               PROVE  /\ history'[f] \cup acked'[f] \cup lost'[f] = 0..Len(sent[f]) - 1
                      /\ history'[f] \cap acked'[f] = {}
    BY DEF FateInv
  <2>1. /\ history[f] \cup acked[f] \cup lost[f] = 0..Len(sent[f]) - 1
        /\ history[f] \cap acked[f] = {}
    BY DEF FateInv
  <2>2. CASE f # e
    BY <1>4, <2>1, <2>2
  <2>3. CASE f = e
    <3>1. history'[e] \cup acked'[e] \cup lost'[e] = history[e] \cup acked[e] \cup lost[e]
      BY <1>5
    <3>2. history'[e] \cap acked'[e] = {}
      BY <1>5, <2>1, <2>3
    <3> QED BY <2>1, <2>3, <3>1, <3>2
  <2> QED BY <2>2, <2>3
<1>9. LargestInv'
  <2> SUFFICES ASSUME NEW f \in Endpoint
               PROVE  /\ tx'[f].largestAcked < Len(sent[f])
                      /\ \A n \in acked'[f] \cup lost'[f] : n <= tx'[f].largestAcked
    BY DEF LargestInv
  <2>1. CASE f # e
    BY <1>4, <2>1 DEF LargestInv
  <2>2. CASE f = e
    <3>1. ASSUME NEW n \in acked[e] \cup lost[e]
          PROVE  n <= t.largestAcked
      <4>1. n <= tx[e].largestAcked
        BY DEF LargestInv
      <4>2. n \in Int /\ tx[e].largestAcked \in Int /\ t.largestAcked \in Int
        <5>1. n \in PN /\ tx[e] \in TxState
          BY <1>1
        <5> QED BY <5>1, PNBound, LargestInt
      <4> QED BY <4>1, <4>2
    <3> QED BY <1>2, <1>5, <2>2, <3>1
  <2> QED BY <2>1, <2>2
<1>10. TimerInv'
  <2> SUFFICES ASSUME NEW f \in Endpoint
               PROVE  /\ tx'[f].lossTime
                            <=> LossCandidates(history'[f], tx'[f].largestAcked) # {}
                      /\ Armed(tx'[f])
    BY DEF TimerInv, Armed, LossCandidates
  <2>1. CASE f # e
    BY <1>4, <2>1 DEF TimerInv, Armed
  <2>2. CASE f = e
    BY <1>2, <1>5, <2>2
  <2> QED BY <2>1, <2>2
<1>11. InFlightExact'
  <2> SUFFICES ASSUME NEW f \in Endpoint
               PROVE  /\ tx'[f].inFlight = Cardinality(Eliciting(f, history'[f]))
                      /\ tx'[f].elicitingInFlight = Cardinality(Eliciting(f, history'[f]))
                      /\ tx'[f].cc = Cardinality(Eliciting(f, history'[f]))
    <3>1. \A f \in Endpoint : (Eliciting(f, history[f]))' = Eliciting(f, history'[f])
      BY DEF Eliciting
    <3> QED BY <3>1 DEF InFlightExact
  <2>1. CASE f # e
    BY <1>4, <2>1 DEF InFlightExact
  <2>2. CASE f = e
    BY <1>2, <1>5, <2>2 DEF k
  <2> QED BY <2>1, <2>2
<1> QED BY <1>6, <1>7, <1>8, <1>9, <1>10, <1>11

\* Meanwhile the receive side becomes q, which owes no less.
LEMMA ReportStep ==
    ASSUME IInv, UNCHANGED sent, NEW e \in Endpoint,
           NEW N \in SUBSET history[e], NEW L \in SUBSET (history[e] \ N),
           history' = [history EXCEPT ![e] = @ \ (N \cup L)],
           acked' = [acked EXCEPT ![e] = @ \cup N],
           NEW q,
           rx' = [rx EXCEPT ![e] = q],
           rx[e].desired \/ rx[e].flush => q.desired \/ q.flush,
           rx[e].wantAck => q.wantAck,
           \A n \in L : sent[e][n + 1].ack # {} => q.wantAck,
           q.last = rx[e].last,
           \A n \in q.set : \/ n \in rx[e].set \/ q.desired \/ q.flush
                            \/ ~sent[Peer(e)][n + 1].eliciting
    PROVE  AckOwed'
<1> USE DEF IInv
<1> SUFFICES ASSUME NEW f \in Endpoint, NEW n \in rx'[f].set, sent[Peer(f)][n + 1].eliciting
             PROVE  \/ rx'[f].desired \/ rx'[f].flush \/ rx'[f].wantAck
                    \/ \E i \in history'[f] \cup acked'[f] : n \in sent[f][i + 1].ack
                    \/ rx'[f].last # {} /\ \A m \in rx'[f].last : n < m
  BY DEF AckOwed
<1>1. /\ history \in [Endpoint -> SUBSET PN] /\ acked \in [Endpoint -> SUBSET PN]
      /\ rx \in [Endpoint -> RxState]
  BY DEF TypeOK
<1>2. CASE f # e
  <2>1. rx'[f] = rx[f] /\ history'[f] = history[f] /\ acked'[f] = acked[f]
    BY <1>1, <1>2
  <2> QED BY <2>1 DEF AckOwed
<1>3. CASE f = e
  <2>1. /\ rx'[e] = q /\ history'[e] = history[e] \ (N \cup L)
        /\ acked'[e] = acked[e] \cup N
    BY <1>1
  <2>2. CASE n \notin rx[e].set
    BY <1>3, <2>1, <2>2
  <2>3. CASE n \in rx[e].set
    <3>1. \/ rx[e].desired \/ rx[e].flush \/ rx[e].wantAck
          \/ \E i \in history[e] \cup acked[e] : n \in sent[e][i + 1].ack
          \/ rx[e].last # {} /\ \A m \in rx[e].last : n < m
      BY <1>3, <2>3 DEF AckOwed
    <3>2. ASSUME NEW i \in history[e] \cup acked[e], n \in sent[e][i + 1].ack
          PROVE  q.wantAck \/ i \in history'[e] \cup acked'[e]
      BY <2>1, <3>2
    <3> QED BY <1>3, <2>1, <3>1, <3>2
  <2> QED BY <2>2, <2>3
<1> QED BY <1>2, <1>3

\* A timeout.
LEMMA TimeoutInv ==
    ASSUME IInv, NEW e \in Endpoint, Timeout(e)
    PROVE  IInv'
<1> USE DEF IInv
<1>1. UNCHANGED <<sent, acked, batch, handled>>
  BY DEF Timeout
<1>2. /\ tx \in [Endpoint -> TxState] /\ rx \in [Endpoint -> RxState]
      /\ history \in [Endpoint -> SUBSET PN]
  BY DEF TypeOK
<1>3. CASE ProbeTimeout(e)
  <2> DEFINE v == [tx[e] EXCEPT !.probe = @ + 1]
             u == SetLossDetectionTimer(v)
  <2>1. tx' = [tx EXCEPT ![e] = u] /\ UNCHANGED <<history, lost, rx>> /\ tx[e].probe < MaxProbe[e]
    BY <1>3 DEF ProbeTimeout
  <2>2. /\ v \in TxState
        /\ v.largestAcked = tx[e].largestAcked /\ v.lossTime = tx[e].lossTime
        /\ v.inFlight = tx[e].inFlight /\ v.elicitingInFlight = tx[e].elicitingInFlight
        /\ v.cc = tx[e].cc
    <3>1. tx[e].probe + 1 \in Nat /\ tx[e] \in TxState
      BY <1>2, <2>1, AckmConstants DEF TxState
    <3> QED BY <3>1 DEF TxState
  <2> HIDE DEF v
  <2>3. /\ u \in TxState /\ Armed(u)
        /\ u.largestAcked = tx[e].largestAcked /\ u.lossTime = tx[e].lossTime
        /\ u.inFlight = tx[e].inFlight /\ u.elicitingInFlight = tx[e].elicitingInFlight
        /\ u.cc = tx[e].cc
    BY <2>2, TimerLemma
  <2> HIDE DEF u
  <2>4. \A f \in Endpoint : tx'[f] = IF f = e THEN u ELSE tx[f]
    BY <1>2, <2>1
  <2>5. TypeOK'
    <3>1. tx' \in [Endpoint -> TxState]
      BY <1>2, <2>1, <2>3
    <3> QED BY <1>1, <2>1, <3>1 DEF TypeOK
  <2>6. FateInv' /\ HandledInv' /\ BatchInv' /\ SinceInv'
    BY <1>1, <2>1 DEF FateInv, HandledInv, BatchInv, SinceInv
  <2>7. LargestInv'
    BY <1>1, <2>1, <2>3, <2>4 DEF LargestInv
  <2>8. TimerInv'
    BY <2>1, <2>3, <2>4 DEF TimerInv, Armed, LossCandidates
  <2>9. InFlightExact'
    <3>1. \A f \in Endpoint : (Eliciting(f, history[f]))' = Eliciting(f, history[f])
      BY <1>1, <2>1 DEF Eliciting
    <3> QED BY <2>3, <2>4, <3>1 DEF InFlightExact
  <2>10. AckOwed'
    BY <1>1, <2>1 DEF AckOwed
  <2> QED BY <2>5, <2>6, <2>7, <2>8, <2>9, <2>10
<1>4. ASSUME NEW due, LossTimeout(e, due)
      PROVE  IInv'
  <2> DEFINE L == LostPkts(history[e], tx[e].largestAcked, due)
             q == Regenerated(e, rx[e], L)
  <2>1. /\ history' = [history EXCEPT ![e] = @ \ L]
        /\ lost' = [lost EXCEPT ![e] = @ \cup L]
        /\ tx' = [tx EXCEPT ![e] = Resolved(e, @, L)]
        /\ rx' = [rx EXCEPT ![e] = q]
    BY <1>4 DEF LossTimeout
  <2>2. L \subseteq history[e] /\ \A n \in L : n <= tx[e].largestAcked
    BY DEF LostPkts, LossCandidates
  <2>3. rx[e] \in RxState /\ tx[e] \in TxState
    BY <1>2
  <2>4. /\ q \in RxState
        /\ q.set = rx[e].set /\ q.watermark = rx[e].watermark /\ q.desired = rx[e].desired
        /\ q.flush = rx[e].flush /\ q.since = rx[e].since /\ q.last = rx[e].last
        /\ rx[e].wantAck => q.wantAck
        /\ \A n \in L : sent[e][n + 1].ack # {} => q.wantAck
    <3> HIDE DEF L
    <3> QED BY <2>3, RegeneratedLemma
  <2> HIDE DEF L, q
  <2>5. /\ history' = [history EXCEPT ![e] = @ \ ({} \cup L)]
        /\ acked' = [acked EXCEPT ![e] = @ \cup {}]
        /\ tx' = [tx EXCEPT ![e] = Resolved(e, tx[e], {} \cup L)]
        /\ {} \in SUBSET history[e] /\ L \in SUBSET (history[e] \ {})
        /\ \A n \in {} \cup L : n <= tx[e].largestAcked
    <3>1. {} \cup L = L
      OBVIOUS
    <3>2. acked' = acked /\ acked \in [Endpoint -> SUBSET PN] /\ acked[e] \cup {} = acked[e]
      BY <1>1 DEF TypeOK
    <3>3. acked' = [acked EXCEPT ![e] = @ \cup {}]
      BY <3>2
    <3> QED BY <1>2, <2>1, <2>2, <3>1, <3>3
  <2>6. tx[e].largestAcked < Len(sent[e]) /\ tx[e].largestAcked <= tx[e].largestAcked
    BY <2>3, LargestInt DEF LargestInv
  <2>7. /\ history' \in [Endpoint -> SUBSET PN] /\ acked' \in [Endpoint -> SUBSET PN]
        /\ lost' \in [Endpoint -> SUBSET PN] /\ tx' \in [Endpoint -> TxState]
        /\ FateInv' /\ LargestInv' /\ TimerInv' /\ InFlightExact'
    <3> USE ResolveStep
    <3> QED BY <1>1, <2>1, <2>3, <2>5, <2>6
  <2>8. AckOwed'
    <3>1. /\ rx[e].desired \/ rx[e].flush => q.desired \/ q.flush
          /\ \A n \in q.set : n \in rx[e].set
      BY <2>4
    <3>2. \A n \in q.set : \/ n \in rx[e].set \/ q.desired \/ q.flush
                           \/ ~sent[Peer(e)][n + 1].eliciting
      BY <3>1
    <3>3. UNCHANGED sent
      BY <1>1
    <3>4. rx' = [rx EXCEPT ![e] = q]
      BY <2>1
    <3>5. /\ rx[e].wantAck => q.wantAck
          /\ \A n \in L : sent[e][n + 1].ack # {} => q.wantAck
          /\ q.last = rx[e].last
      BY <2>4
    <3> HIDE DEF IInv
    <3> QED BY <2>5, <3>1, <3>2, <3>3, <3>4, <3>5, ReportStep
  <2>9. \A f \in Endpoint : rx'[f] = IF f = e THEN q ELSE rx[f]
    BY <1>2, <2>1
  <2>10. TypeOK'
    <3>1. rx' \in [Endpoint -> RxState]
      BY <1>2, <2>1, <2>4
    <3> QED BY <1>1, <2>7, <3>1 DEF TypeOK
  <2>11. HandledInv' /\ SinceInv' /\ BatchInv'
    BY <1>1, <2>4, <2>9 DEF HandledInv, SinceInv, BatchInv
  <2> QED BY <2>7, <2>8, <2>10, <2>11
<1> QED BY <1>3, <1>4 DEF Timeout

\* Taking the first element off a sequence.
LEMMA HeadTail ==
    ASSUME NEW S, NEW s \in Seq(S), s # <<>>
    PROVE  /\ 1 \in 1..Len(s) /\ Head(s) = s[1] /\ Head(s) \in S
           /\ Tail(s) \in Seq(S) /\ Len(Tail(s)) = Len(s) - 1
           /\ \A i \in 1..Len(Tail(s)) : Tail(s)[i] = s[i + 1]
<1>1. Len(s) \in Nat /\ Len(s) # 0
  OBVIOUS
<1>2. 1 \in 1..Len(s) /\ Head(s) = s[1] /\ s[1] \in S
  BY <1>1
<1>3. Tail(s) \in Seq(S) /\ Len(Tail(s)) = Len(s) - 1
  BY <1>1
<1>4. \A i \in 1..Len(Tail(s)) : Tail(s)[i] = s[i + 1]
  BY <1>1, <1>3
<1> QED BY <1>2, <1>3, <1>4

\* Handling a packet.
LEMMA HandleInv ==
    ASSUME IInv, NEW e \in Endpoint, NEW due, Handle(e, due)
    PROVE  /\ IInv'
           /\ LET n == Head(batch[e].pns)
                  N == history[e] \cap sent[Peer(e)][n + 1].ack
              IN  \E L \in SUBSET (history[e] \ N) :
                     /\ n \in 0..Len(sent[Peer(e)]) - 1
                     /\ N \subseteq handled[Peer(e)]
                     /\ handled' = [handled EXCEPT ![e] = @ \cup {n}]
                     /\ history' = [history EXCEPT ![e] = @ \ (N \cup L)]
                     /\ acked' = [acked EXCEPT ![e] = @ \cup N]
                     /\ lost' = [lost EXCEPT ![e] = @ \cup L]
<1> USE DEF IInv
<1> DEFINE n    == Head(batch[e].pns)
           rest == Tail(batch[e].pns)
           p    == sent[Peer(e)][n + 1]
           t    == [tx[e] EXCEPT !.largestAcked = LargestAcked(@, p.ack)]
           N    == history[e] \cap p.ack
           L    == IF N = {} THEN {} ELSE LostPkts(history[e] \ N, t.largestAcked, due)
           r0   == Regenerated(e, rx[e], L)
           r    == ProvablyAcked(e, r0, N)
           q    == OnRxPacket(r, n, p.eliciting)
<1>1. /\ batch[e].pns # <<>>
      /\ batch' = [batch EXCEPT ![e] = [pns |-> rest, handling |-> rest # <<>>]]
      /\ history' = [history EXCEPT ![e] = @ \ (N \cup L)]
      /\ acked' = [acked EXCEPT ![e] = @ \cup N]
      /\ lost' = [lost EXCEPT ![e] = @ \cup L]
      /\ tx' = [tx EXCEPT ![e] = IF N = {} THEN t ELSE Resolved(e, t, N \cup L)]
      /\ rx' = [rx EXCEPT ![e] = q]
      /\ handled' = [handled EXCEPT ![e] = @ \cup {n}]
      /\ UNCHANGED sent
  BY DEF Handle
<1>2. /\ tx \in [Endpoint -> TxState] /\ rx \in [Endpoint -> RxState]
      /\ history \in [Endpoint -> SUBSET PN] /\ handled \in [Endpoint -> SUBSET PN]
      /\ batch \in [Endpoint -> [pns : Seq(PN), handling : BOOLEAN]]
      /\ \A f \in Endpoint : Len(sent[f]) \in Nat
  BY DEF TypeOK
<1>3. /\ batch[e].pns \in Seq(PN) /\ n \in PN /\ rest \in Seq(PN)
      /\ Len(rest) = Len(batch[e].pns) - 1
      /\ \A i \in 1..Len(rest) : rest[i] = batch[e].pns[i + 1]
  <2>1. batch[e].pns \in Seq(PN)
    BY <1>2
  <2>2. batch[e].pns # <<>>
    BY <1>1
  <2> QED BY <2>1, <2>2, HeadTail
<1>4. n \in Nat /\ n < Len(sent[Peer(e)])
  <2>1. 1 \in 1..Len(batch[e].pns) /\ n = batch[e].pns[1]
    BY <1>1, <1>3, HeadTail
  <2> QED BY <1>3, <2>1, PNBound DEF BatchInv
<1>5. /\ p \in Packet /\ p.eliciting \in BOOLEAN /\ p.ack \in SUBSET PN
      /\ p.ack \subseteq handled[Peer(e)] /\ p.ack \subseteq 0..Len(sent[e]) - 1
  <2>1. Peer(e) \in Endpoint /\ Peer(Peer(e)) = e
    BY PeerLemma
  <2>2. n + 1 \in 1..Len(sent[Peer(e)]) /\ p \in Packet /\ p.eliciting \in BOOLEAN
        /\ p.ack \in SUBSET PN
    BY <1>4, <2>1, SentPacket
  <2>3. p.ack \subseteq handled[Peer(e)]
    BY <2>1, <2>2 DEF HandledInv
  <2>4. handled[Peer(e)] \subseteq 0..Len(sent[e]) - 1
    BY <2>1 DEF HandledInv
  <2> QED BY <2>2, <2>3, <2>4
<1> HIDE DEF n, rest, p
<1> DEFINE la == LargestAcked(tx[e].largestAcked, p.ack)
<1>6. tx[e] \in TxState /\ tx[e].largestAcked \in Int /\ tx[e].largestAcked < Len(sent[e])
  BY <1>2, LargestInt DEF LargestInv
<1>7. /\ la \in PN \cup {None} /\ la \in Int /\ la < Len(sent[e])
      /\ tx[e].largestAcked <= la
      /\ \A m \in p.ack : m <= la
  <2>1. tx[e].largestAcked \in PN \cup {None}
    BY <1>6 DEF TxState
  <2>2. CASE p.ack = {}
    BY <1>6, <2>1, <2>2 DEF LargestAcked
  <2>3. CASE p.ack # {}
    <3>1. MaxOf(p.ack) \in p.ack /\ \A m \in p.ack : m <= MaxOf(p.ack)
      BY <1>5, <2>3, MaxOfLemma
    <3>2. \A m \in p.ack : m \in PN /\ m \in Nat /\ m < Len(sent[e])
      BY <1>2, <1>5, PNBound
    <3>3. CASE MaxOf(p.ack) <= tx[e].largestAcked
      <4>1. la = tx[e].largestAcked
        BY <3>3 DEF LargestAcked
      <4> QED BY <1>6, <2>1, <3>1, <3>2, <3>3, <4>1
    <3>4. CASE ~(MaxOf(p.ack) <= tx[e].largestAcked)
      <4>1. la = MaxOf(p.ack)
        BY <2>3, <3>4 DEF LargestAcked
      <4> QED BY <1>6, <3>1, <3>2, <3>4, <4>1
    <3> QED BY <3>3, <3>4
  <2> QED BY <2>2, <2>3
<1> HIDE DEF la
<1>8. /\ t \in TxState /\ t.largestAcked = la
      /\ t.inFlight = tx[e].inFlight /\ t.elicitingInFlight = tx[e].elicitingInFlight
      /\ t.cc = tx[e].cc
  <2>1. t = [tx[e] EXCEPT !.largestAcked = la]
    BY DEF la
  <2> HIDE DEF t
  <2> QED BY <1>6, <1>7, <2>1 DEF TxState
<1>9. N = {} => t = tx[e] /\ L = {}
  <2> SUFFICES ASSUME N = {}
               PROVE  t = tx[e]
    OBVIOUS
  <2>1. \A m \in p.ack : m \in acked[e] \cup lost[e]
    BY <1>5 DEF FateInv
  <2>2. \A m \in p.ack : m <= tx[e].largestAcked
    BY <2>1 DEF LargestInv
  <2>3. la = tx[e].largestAcked
    <3>1. CASE p.ack = {}
      BY <3>1 DEF la, LargestAcked
    <3>2. CASE p.ack # {}
      <4>1. MaxOf(p.ack) \in p.ack
        BY <1>5, <3>2, MaxOfLemma
      <4> QED BY <2>2, <4>1 DEF la, LargestAcked
    <3> QED BY <3>1, <3>2
  <2>4. t = [tx[e] EXCEPT !.largestAcked = tx[e].largestAcked]
    BY <2>3 DEF la
  <2> QED BY <1>6, <2>4 DEF TxState
<1>10. /\ N \in SUBSET history[e] /\ L \in SUBSET (history[e] \ N)
       /\ \A m \in N \cup L : m <= t.largestAcked
  <2> HIDE DEF t
  <2> QED BY <1>7, <1>8 DEF LostPkts, LossCandidates
<1>11. N \in SUBSET (0..Len(sent[e]) - 1)
  BY <1>5
<1> HIDE DEF t, N, L
<1>12. /\ r0 \in RxState
       /\ r0.set = rx[e].set /\ r0.watermark = rx[e].watermark /\ r0.desired = rx[e].desired
       /\ r0.flush = rx[e].flush /\ r0.since = rx[e].since /\ r0.last = rx[e].last
       /\ rx[e].wantAck => r0.wantAck
       /\ \A m \in L : sent[e][m + 1].ack # {} => r0.wantAck
  <2>1. rx[e] \in RxState
    BY <1>2
  <2> QED BY <2>1, RegeneratedLemma
<1> HIDE DEF r0
<1>13. Forgets(r0, r)
  BY <1>11, <1>12, ProvablyAckedLemma
<1> HIDE DEF r
<1>14. r \in RxState /\ SinceOK(r)
  BY <1>12, <1>13 DEF Forgets, SinceInv, SinceOK
<1>15. /\ Learns(r, q, {n})
       /\ p.eliciting /\ n \notin r.set /\ n \in q.set => q.desired \/ q.flush
  BY <1>3, <1>5, <1>14, OnRxPacketLemma
<1> HIDE DEF q
<1>16. /\ q \in RxState /\ SinceOK(q)
       /\ q.set \subseteq rx[e].set \cup {n}
       /\ \A m \in rx[e].set \cup {n} : m \in q.set \/ m < q.watermark
       /\ rx[e].watermark <= q.watermark
       /\ rx[e].desired \/ rx[e].flush => q.desired \/ q.flush
       /\ rx[e].wantAck => q.wantAck
       /\ \A m \in L : sent[e][m + 1].ack # {} => q.wantAck
       /\ q.last = rx[e].last
       /\ \A m \in q.set : m \in rx[e].set \/ (m = n /\ (p.eliciting => q.desired \/ q.flush))
  <2>1. /\ q \in RxState /\ SinceOK(q)
        /\ q.last = rx[e].last /\ q.wantAck = r0.wantAck
        /\ q.set \subseteq r.set \cup {n} /\ r.set \subseteq rx[e].set
        /\ rx[e].desired \/ rx[e].flush => q.desired \/ q.flush
    BY <1>12, <1>13, <1>15 DEF Learns, Forgets
  <2>2. /\ rx[e].watermark \in Nat /\ r.watermark \in Nat /\ q.watermark \in Nat
        /\ rx[e].set \subseteq Nat
    BY <1>2, <1>14, <2>1, PNBound DEF RxState
  <2>3. rx[e].watermark <= r.watermark /\ r.watermark <= q.watermark
    BY <1>12, <1>13, <1>15 DEF Learns, Forgets
  <2>4. rx[e].watermark <= q.watermark
    BY <2>2, <2>3
  <2>5. ASSUME NEW m \in rx[e].set \cup {n}
        PROVE  m \in q.set \/ m < q.watermark
    <3>1. m \in r.set \cup {n} \/ m < r.watermark
      BY <1>12, <1>13 DEF Forgets
    <3>2. m \in r.set \cup {n} => m \in q.set \/ m < q.watermark
      BY <1>15 DEF Learns
    <3>3. m \in Nat
      BY <1>4, <2>2
    <3> QED BY <2>2, <2>3, <3>1, <3>2, <3>3
  <2> QED BY <1>12, <1>15, <2>1, <2>4, <2>5
<1>17. /\ history' \in [Endpoint -> SUBSET PN] /\ acked' \in [Endpoint -> SUBSET PN]
       /\ lost' \in [Endpoint -> SUBSET PN] /\ tx' \in [Endpoint -> TxState]
       /\ FateInv' /\ LargestInv' /\ TimerInv' /\ InFlightExact'
  <2>1. CASE N # {}
    <3>1. tx' = [tx EXCEPT ![e] = Resolved(e, t, N \cup L)]
      BY <1>1, <2>1
    <3>2. t.largestAcked < Len(sent[e]) /\ tx[e].largestAcked <= t.largestAcked
      BY <1>7, <1>8
    <3> HIDE DEF IInv
    <3> QED BY <1>1, <1>8, <1>10, <3>1, <3>2, ResolveStep
  <2>2. CASE N = {}
    <3>1. UNCHANGED <<history, acked, lost, tx>>
      <4>1. N \cup L = {} /\ t = tx[e] /\ L = {}
        BY <1>9, <2>2
      <4>2. acked \in [Endpoint -> SUBSET PN] /\ lost \in [Endpoint -> SUBSET PN]
        BY DEF TypeOK
      <4>3. /\ history' = [history EXCEPT ![e] = history[e]]
            /\ acked' = [acked EXCEPT ![e] = acked[e]]
            /\ lost' = [lost EXCEPT ![e] = lost[e]]
            /\ tx' = [tx EXCEPT ![e] = tx[e]]
        BY <1>1, <2>2, <4>1
      <4> QED BY <1>2, <4>2, <4>3
    <3>2. UNCHANGED sent
      BY <1>1
    <3>3. FateInv' /\ LargestInv' /\ TimerInv' /\ InFlightExact'
      BY <3>1, <3>2 DEF FateInv, LargestInv, TimerInv, InFlightExact, LossCandidates, Eliciting
    <3> QED BY <3>1, <3>3 DEF TypeOK
  <2> QED BY <2>1, <2>2
<1>18. AckOwed'
  <2>1. \A m \in q.set : \/ m \in rx[e].set \/ q.desired \/ q.flush
                         \/ ~sent[Peer(e)][m + 1].eliciting
    BY <1>16 DEF p
  <2>2. /\ rx[e].desired \/ rx[e].flush => q.desired \/ q.flush
        /\ rx[e].wantAck => q.wantAck
        /\ \A m \in L : sent[e][m + 1].ack # {} => q.wantAck
        /\ q.last = rx[e].last
    BY <1>16
  <2> HIDE DEF IInv
  <2> QED BY <1>1, <1>10, <2>1, <2>2, ReportStep
<1>19. \A f \in Endpoint : f # e => /\ rx'[f] = rx[f] /\ handled'[f] = handled[f]
                                   /\ batch'[f] = batch[f]
  BY <1>1, <1>2
<1>20. rx'[e] = q /\ handled'[e] = handled[e] \cup {n} /\ batch'[e].pns = rest
  BY <1>1, <1>2
<1>21. TypeOK'
  <2>1. rx' \in [Endpoint -> RxState]
    BY <1>1, <1>2, <1>16
  <2>2. handled' \in [Endpoint -> SUBSET PN]
    BY <1>1, <1>2, <1>3
  <2>3. batch' \in [Endpoint -> [pns : Seq(PN), handling : BOOLEAN]]
    <3>1. [pns |-> rest, handling |-> rest # <<>>] \in [pns : Seq(PN), handling : BOOLEAN]
      BY <1>3
    <3> QED BY <1>1, <1>2, <3>1
  <2>4. sent' = sent
    BY <1>1
  <2> QED BY <1>17, <2>1, <2>2, <2>3, <2>4 DEF TypeOK
<1>22. HandledInv'
  <2> SUFFICES ASSUME NEW f \in Endpoint
               PROVE  /\ handled'[f] \subseteq 0..Len(sent[Peer(f)]) - 1
                      /\ rx'[f].set \subseteq handled'[f]
                      /\ \A m \in handled'[f] : m < rx'[f].watermark \/ m \in rx'[f].set
                      /\ \A i \in 1..Len(sent[f]) : sent[f][i].ack \subseteq handled'[f]
    BY <1>1 DEF HandledInv
  <2>1. CASE f # e
    BY <1>19, <2>1 DEF HandledInv
  <2>2. CASE f = e
    <3>1. n \in 0..Len(sent[Peer(e)]) - 1
      <4>1. Len(sent[Peer(e)]) \in Nat
        BY <1>2, PeerLemma
      <4> QED BY <1>4, <4>1
    <3>2. handled'[e] \subseteq 0..Len(sent[Peer(e)]) - 1
      BY <1>20, <3>1 DEF HandledInv
    <3>3. rx'[e].set \subseteq handled'[e]
      BY <1>16, <1>20 DEF HandledInv
    <3>4. ASSUME NEW m \in handled'[e]
          PROVE  m < rx'[e].watermark \/ m \in rx'[e].set
      <4>1. m < rx[e].watermark \/ m \in rx[e].set \cup {n}
        BY <1>20 DEF HandledInv
      <4>2. m \in Nat /\ rx[e].watermark \in Nat /\ q.watermark \in Nat
        <5>1. m \in PN
          BY <1>2, <1>3, <1>20
        <5>2. rx[e] \in RxState
          BY <1>2
        <5> QED BY <1>16, <5>1, <5>2, PNBound DEF RxState
      <4> QED BY <1>16, <1>20, <4>1, <4>2
    <3>5. \A i \in 1..Len(sent[e]) : sent[e][i].ack \subseteq handled'[e]
      BY <1>20 DEF HandledInv
    <3> QED BY <2>2, <3>2, <3>3, <3>4, <3>5
  <2> QED BY <2>1, <2>2
<1>23. BatchInv'
  <2> SUFFICES ASSUME NEW f \in Endpoint, NEW i \in 1..Len(batch'[f].pns)
               PROVE  batch'[f].pns[i] < Len(sent[Peer(f)])
    BY <1>1 DEF BatchInv
  <2>1. CASE f # e
    BY <1>19, <2>1 DEF BatchInv
  <2>2. CASE f = e
    <3>1. i \in 1..Len(rest) /\ batch'[e].pns[i] = batch[e].pns[i + 1]
      BY <1>3, <1>20, <2>2
    <3>2. i + 1 \in 1..Len(batch[e].pns)
      BY <1>3, <3>1
    <3> QED BY <2>2, <3>1, <3>2 DEF BatchInv
  <2> QED BY <2>1, <2>2
<1>24. SinceInv'
  BY <1>16, <1>19, <1>20 DEF SinceInv, SinceOK
<1>25. IInv'
  BY <1>17, <1>18, <1>21, <1>22, <1>23, <1>24
<1>26. n \in 0..Len(sent[Peer(e)]) - 1 /\ N \subseteq handled[Peer(e)]
  <2>1. Len(sent[Peer(e)]) \in Nat
    BY <1>2, PeerLemma
  <2> QED BY <1>4, <1>5, <2>1 DEF N
<1> HIDE DEF IInv
<1> QED BY <1>1, <1>10, <1>25, <1>26 DEF N, n, p

\* A deadline has passed or not.
LEMMA LateLemma ==
    ASSUME TypeOK, NEW e \in Endpoint
    PROVE  Late(e) \subseteq BOOLEAN
<1>1. rx[e] \in RxState
  BY DEF TypeOK
<1>2. rx[e].flush \in BOOLEAN
  BY <1>1 DEF RxState
<1> QED BY <1>2 DEF Late

\* Every step preserves the invariant.
LEMMA StepInv == IInv /\ [Next]_vars => IInv'
<1> SUFFICES ASSUME IInv, [Next]_vars
             PROVE  IInv'
  OBVIOUS
<1>1. CASE UNCHANGED vars
  <2>1. UNCHANGED <<sent, history, acked, lost, tx, rx, batch, handled>>
    BY <1>1 DEF vars
  <2>2. TypeOK' /\ FateInv' /\ LargestInv' /\ HandledInv' /\ BatchInv' /\ SinceInv' /\ AckOwed'
    BY <2>1 DEF IInv, TypeOK, FateInv, LargestInv, HandledInv, BatchInv, SinceInv, AckOwed
  <2>3. TimerInv' /\ InFlightExact'
    BY <2>1 DEF IInv, TimerInv, InFlightExact, LossCandidates, Eliciting
  <2> QED BY <2>2, <2>3 DEF IInv
<1>2. CASE Next
  <2>1. PICK e \in Endpoint :
           \/ \E n \in PN : Decrypt(e, n)
           \/ \E due \in Overdue(e) : Handle(e, due)
           \/ \E eliciting \in BOOLEAN, late \in Late(e) : Send(e, eliciting, late)
           \/ Timeout(e)
    BY <1>2 DEF Next
  <2>2. Late(e) \subseteq BOOLEAN
    BY LateLemma DEF IInv
  <2>3. CASE \E n \in PN : Decrypt(e, n)
    BY <2>3, DecryptInv
  <2>4. CASE \E due \in Overdue(e) : Handle(e, due)
    BY <2>4, HandleInv
  <2>5. CASE \E eliciting \in BOOLEAN, late \in Late(e) : Send(e, eliciting, late)
    BY <2>2, <2>5, SendInv
  <2>6. CASE Timeout(e)
    BY <2>6, TimeoutInv
  <2> QED BY <2>1, <2>3, <2>4, <2>5, <2>6
<1> QED BY <1>1, <1>2

-----------------------------------------------------------------------------
\* The theorems.

\* The inductive invariant holds in every reachable state of the ACK manager.
THEOREM Invariant == Spec => []IInv
<1>1. Init => IInv
  BY InitInv
<1>2. IInv /\ [Next]_vars => IInv'
  BY StepInv
<1> QED BY <1>1, <1>2, PTL DEF Spec

\* The ACK manager's state always has its type; the count of packets that were
\* not acknowledged yet never passes PKTS_BEFORE_ACK.
THEOREM TypeCorrect == Spec => []TypeOK
<1>1. IInv => TypeOK
  BY DEF IInv
<1> QED BY <1>1, Invariant, PTL

\* The counts of ossl_ackm_on_tx_packet(), ackm_on_pkts_acked() and
\* ackm_on_pkts_lost(), and the congestion controller's, are exact, whatever is lost.
THEOREM CountsExact == Spec => []InFlightExact
<1>1. IInv => InFlightExact
  BY DEF IInv
<1> QED BY <1>1, Invariant, PTL

\* ackm_set_loss_detection_timer() is called whenever it has to be: what is in
\* flight has a timer, and a probe timeout finds something in flight.
THEOREM AlwaysArmed == Spec => []TimerArmed
<1>1. IInv => TimerArmed
  <2> SUFFICES ASSUME IInv, NEW e \in Endpoint
               PROVE  /\ tx[e].elicitingInFlight > 0 => tx[e].deadline # "none"
                      /\ (tx[e].deadline = "loss")
                            <=> (LossCandidates(history[e], tx[e].largestAcked) # {})
                      /\ tx[e].deadline = "pto" => tx[e].elicitingInFlight > 0
    BY DEF TimerArmed
  <2>1. tx[e].elicitingInFlight \in Nat /\ tx[e].lossTime \in BOOLEAN
    <3>1. tx[e] \in TxState
      BY DEF IInv, TypeOK
    <3> QED BY <3>1 DEF TxState
  <2>2. /\ tx[e].lossTime <=> LossCandidates(history[e], tx[e].largestAcked) # {}
        /\ tx[e].deadline = IF tx[e].lossTime THEN "loss"
                            ELSE IF tx[e].elicitingInFlight = 0 THEN "none" ELSE "pto"
    BY DEF IInv, TimerInv
  <2> QED BY <2>1, <2>2
<1> QED BY <1>1, Invariant, PTL

\* No ACK-eliciting packet that was handled is left unacknowledged in silence: an
\* ACK frame is due, on its way, or was repeated after its loss.
THEOREM AcksArePaid == Spec => []AckOwed
<1>1. IInv => AckOwed
  BY DEF IInv
<1> QED BY <1>1, Invariant, PTL

\* ossl_ackm_is_rx_pn_processable() refuses every number that was handled, for
\* ever, although the numbers themselves are forgotten.
THEOREM HandledNeverAgain == Spec => NeverAgain
<1> DEFINE A == \A e \in Endpoint :
                  Len(batch'[e].pns) > Len(batch[e].pns) =>
                     batch'[e].pns[Len(batch'[e].pns)] \notin handled[e]
<1>1. ASSUME IInv, [Next]_vars
      PROVE  [A]_vars
  <2>1. CASE UNCHANGED vars
    BY <2>1
  <2>2. CASE Next
    <3>1. SUFFICES ASSUME NEW f \in Endpoint, Len(batch'[f].pns) > Len(batch[f].pns)
                   PROVE  batch'[f].pns[Len(batch'[f].pns)] \notin handled[f]
      OBVIOUS
    <3>2. /\ batch \in [Endpoint -> [pns : Seq(PN), handling : BOOLEAN]]
          /\ batch[f].pns \in Seq(PN) /\ Len(batch[f].pns) \in Nat
      BY <1>1 DEF IInv, TypeOK
    <3>3. PICK e \in Endpoint :
             \/ \E n \in PN : Decrypt(e, n)
             \/ \E due \in Overdue(e) : Handle(e, due)
             \/ \E eliciting \in BOOLEAN, late \in Late(e) : Send(e, eliciting, late)
             \/ Timeout(e)
      BY <2>2 DEF Next
    <3>4. CASE \E n \in PN : Decrypt(e, n)
      <4>1. PICK n \in PN : Decrypt(e, n)
        BY <3>4
      <4>2. batch' = [batch EXCEPT ![e].pns = Append(@, n)] /\ Processable(rx[e], n)
        BY <4>1 DEF Decrypt
      <4>3. f = e
        BY <3>1, <3>2, <4>2
      <4>4. batch'[e].pns = Append(batch[e].pns, n)
        BY <3>2, <4>2
      <4>5. batch'[e].pns[Len(batch'[e].pns)] = n
        BY <3>2, <4>3, <4>4
      <4>6. n \notin handled[e]
        <5>1. rx[e].watermark \in Nat /\ n \in Nat
          <6>1. rx[e] \in RxState
            BY <1>1 DEF IInv, TypeOK
          <6> QED BY <6>1, PNBound DEF RxState
        <5> QED BY <1>1, <4>2, <5>1 DEF IInv, HandledInv, Processable
      <4> QED BY <4>3, <4>5, <4>6
    <3>5. CASE \E due \in Overdue(e) : Handle(e, due)
      <4>1. /\ batch' = [batch EXCEPT ![e] = [pns |-> Tail(batch[e].pns),
                                            handling |-> Tail(batch[e].pns) # <<>>]]
            /\ batch[e].pns # <<>>
        BY <3>5 DEF Handle
      <4>2. f = e
        BY <3>1, <3>2, <4>1
      <4>3. batch'[e].pns = Tail(batch[e].pns)
        BY <3>2, <4>1
      <4>4. Len(Tail(batch[e].pns)) = Len(batch[e].pns) - 1
        BY <3>2, <4>1, <4>2, HeadTail
      <4> QED BY <3>1, <3>2, <4>2, <4>3, <4>4
    <3>6. CASE UNCHANGED batch
      BY <3>1, <3>2, <3>6
    <3> QED BY <3>3, <3>4, <3>5, <3>6 DEF Send, Timeout
  <2> QED BY <1>1, <2>1, <2>2
<1>2. NeverAgain <=> [][A]_vars
  BY DEF NeverAgain
<1> HIDE DEF A
<1> QED BY <1>1, <1>2, Invariant, PTL DEF Spec

\* The ACK manager implements PacketFate, on which the dispatcher and the streams
\* rely: a packet is never acknowledged and lost, and is acknowledged only if the
\* peer handled it.
THEOREM FateImplemented == Spec => ImplementsPacketFate
<1>1. Init => Fate!Init
  BY DEF Init, Fate!Init
<1>2. ASSUME IInv, [Next]_vars
      PROVE  [Fate!Next]_(Fate!vars)
  <2>1. CASE UNCHANGED vars
    BY <2>1 DEF vars, Fate!vars
  <2>2. CASE Next
    <3>0. /\ history \in [Endpoint -> SUBSET PN] /\ acked \in [Endpoint -> SUBSET PN]
          /\ lost \in [Endpoint -> SUBSET PN] /\ handled \in [Endpoint -> SUBSET PN]
          /\ \A f \in Endpoint : Len(sent[f]) \in Nat
      BY <1>2 DEF IInv, TypeOK
    <3>1. PICK e \in Endpoint :
             \/ \E n \in PN : Decrypt(e, n)
             \/ \E due \in Overdue(e) : Handle(e, due)
             \/ \E eliciting \in BOOLEAN, late \in Late(e) : Send(e, eliciting, late)
             \/ Timeout(e)
      BY <2>2 DEF Next
    <3>2. CASE UNCHANGED <<history, acked, lost, handled>>
      BY <3>2 DEF Fate!vars
    <3>3. \A f \in Endpoint : Fate!Sent(f) = 0..Len(sent[f]) - 1
      BY <1>2 DEF Fate!Sent, IInv, FateInv
    <3>4. CASE \E due \in Overdue(e) : Handle(e, due)
      <4> DEFINE n == Head(batch[e].pns)
                 N == history[e] \cap sent[Peer(e)][n + 1].ack
      <4>1. PICK L \in SUBSET (history[e] \ N) :
               /\ n \in 0..Len(sent[Peer(e)]) - 1
               /\ N \subseteq handled[Peer(e)]
               /\ handled' = [handled EXCEPT ![e] = @ \cup {n}]
               /\ history' = [history EXCEPT ![e] = @ \ (N \cup L)]
               /\ acked' = [acked EXCEPT ![e] = @ \cup N]
               /\ lost' = [lost EXCEPT ![e] = @ \cup L]
        BY <1>2, <3>4, HandleInv
      <4>2. N \in SUBSET (history[e] \cap handled[Peer(e)])
        BY <4>1
      <4> HIDE DEF n, N
      <4>3. n \in Fate!Sent(Peer(e))
        BY <3>3, <4>1, PeerLemma
      <4>4. Fate!Peer(e) = Peer(e)
        BY DEF Fate!Peer, Peer
      <4>5. acked'[e] = acked[e] \cup N
        BY <3>0, <4>1
      <4>6. history[e] \cap acked[e] = {}
        BY <1>2 DEF IInv, FateInv
      <4>7. history[e] \ (N \cup L) = history[e] \ (acked'[e] \cup L)
        BY <4>5, <4>6
      <4>8. L \in SUBSET (history[e] \ acked'[e])
        BY <4>5, <4>6
      <4>9. Fate!Acknowledge(e)
        BY <4>1, <4>2, <4>4 DEF Fate!Acknowledge
      <4>10. Fate!Lose(e)
        BY <4>1, <4>7, <4>8 DEF Fate!Lose
      <4> QED BY <4>1, <4>3, <4>4, <4>9, <4>10 DEF Fate!Next, Fate!Handle
    <3>5. CASE \E eliciting \in BOOLEAN, late \in Late(e) : Send(e, eliciting, late)
      <4>1. /\ history' = [history EXCEPT ![e] = @ \cup {Len(sent[e])}]
            /\ UNCHANGED <<acked, lost, handled>>
            /\ Len(sent[e]) < MaxPn[e]
        BY <3>5 DEF Send
      <4>2. Len(sent[e]) \in PN
        BY <3>0, <4>1, SentPN
      <4>3. Len(sent[e]) \notin Fate!Sent(e)
        BY <3>0, <3>3
      <4>4. Fate!Send(e)
        BY <4>1, <4>2, <4>3 DEF Fate!Send
      <4> QED BY <4>4 DEF Fate!Next
    <3>6. CASE Timeout(e)
      <4>1. UNCHANGED <<acked, handled>>
        BY <3>6 DEF Timeout
      <4>2. CASE ProbeTimeout(e)
        BY <3>2, <4>1, <4>2 DEF ProbeTimeout
      <4>3. ASSUME NEW due, LossTimeout(e, due)
            PROVE  Fate!Lose(e)
        <5> DEFINE L == LostPkts(history[e], tx[e].largestAcked, due)
        <5>1. /\ history' = [history EXCEPT ![e] = @ \ L]
              /\ lost' = [lost EXCEPT ![e] = @ \cup L]
          BY <4>3 DEF LossTimeout
        <5>2. L \subseteq history[e]
          BY DEF LostPkts, LossCandidates
        <5> HIDE DEF L
        <5>3. history[e] \cap acked'[e] = {}
          BY <1>2, <4>1 DEF IInv, FateInv
        <5>4. history[e] \ L = history[e] \ (acked'[e] \cup L) /\ L \in SUBSET (history[e] \ acked'[e])
          BY <5>2, <5>3
        <5> QED BY <5>1, <5>4 DEF Fate!Lose
      <4> QED BY <3>6, <4>1, <4>2, <4>3 DEF Timeout, Fate!Next, Fate!Expire
    <3> QED BY <3>1, <3>2, <3>4, <3>5, <3>6 DEF Decrypt
  <2> QED BY <1>2, <2>1, <2>2
<1>3. ImplementsPacketFate <=> Fate!Spec
  BY DEF ImplementsPacketFate
<1> QED BY <1>1, <1>2, <1>3, Invariant, PTL DEF Spec, Fate!Spec
=============================================================================
