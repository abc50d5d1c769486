------------------------- MODULE QuicStreamsProofs -------------------------
(***************************************************************************)
(* Flow control of QuicStreams, for any number of streams, any windows and *)
(* any amount of data: no endpoint ever accuses the other of a protocol    *)
(* error, the connection is charged exactly what its streams are, final    *)
(* sizes agree and the receive windows stay bounded.                       *)
(*                                                                         *)
(* The first part has the facts these proofs rest on: what the operators   *)
(* do to the record of a stream, field by field, and what is known of      *)
(* SumFunction, which the connection-level accounts are stated with.  The  *)
(* last part is about the data itself: no byte is lost or sent twice at a  *)
(* time, a stream taken as delivered has been received, and a stream with  *)
(* something to send is seen by the packetiser.                            *)
(***************************************************************************)
EXTENDS QuicStreams, FiniteSetTheorems, NatLemmas, TLAPS

-----------------------------------------------------------------------------
(* Sums.  SumFunction(f) is the sum of the values of a function with a     *)
(* finite domain.  It peels one element at a time off the domain, in an    *)
(* order that is the same for every function of that domain: so the sums of*)
(* two functions can be compared step by step and the order need not be    *)
(* known.                                                                  *)

\* The element that is taken off a set first, and the set without it.
First(s) == CHOOSE x \in s : TRUE
Rest(s) == s \ {First(s)}

\* g[s] is the sum of f over s, for every s.
Sums(f, S, g) ==
    /\ g \in [SUBSET S -> Int]
    /\ \A s \in SUBSET S :
        g[s] = IF s = {} THEN 0 ELSE f[First(s)] + g[Rest(s)]

\* A nonempty subset of S has its first element in S, and one element less
\* without it.
LEMMA RestIsSmaller ==
    ASSUME NEW S, IsFiniteSet(S), NEW s \in SUBSET S, s # {}
    PROVE  /\ First(s) \in s /\ First(s) \in S /\ Rest(s) \in SUBSET S
           /\ Cardinality(s) \in Nat /\ Cardinality(Rest(s)) \in Nat
           /\ Cardinality(Rest(s)) = Cardinality(s) - 1
<1>1. First(s) \in s
  BY DEF First
<1>2. IsFiniteSet(s) /\ Cardinality(s) \in Nat
  BY FS_Subset, FS_CardinalityType
<1>3. IsFiniteSet(Rest(s)) /\ Cardinality(Rest(s)) = Cardinality(s) - 1
  BY <1>1, <1>2, FS_RemoveElement DEF Rest
<1>4. Cardinality(Rest(s)) \in Nat
  BY <1>3, FS_CardinalityType
<1> QED BY <1>1, <1>2, <1>3, <1>4 DEF Rest

\* Induction along that order: the good sets are all there are.
LEMMA RestInduction ==
    ASSUME NEW S, IsFiniteSet(S), NEW Q \in SUBSET (SUBSET S), {} \in Q,
           \A s \in SUBSET S : s # {} /\ Rest(s) \in Q => s \in Q
    PROVE  Q = SUBSET S
<1> SUFFICES ASSUME Q # SUBSET S PROVE FALSE
  OBVIOUS
<1> DEFINE N == {Cardinality(s) : s \in (SUBSET S) \ Q}
<1>1. N \in SUBSET Nat
  <2>1. \A s \in SUBSET S : Cardinality(s) \in Nat
    BY FS_Subset, FS_CardinalityType
  <2> QED BY <2>1
<1>2. N # {}
  OBVIOUS
<1>3. PICK n \in N : \A m \in N : n <= m
  <2> HIDE DEF N
  <2> QED BY <1>1, <1>2, NatMin
<1>4. PICK s \in (SUBSET S) \ Q : n = Cardinality(s)
  OBVIOUS
<1>5. s # {}
  OBVIOUS
<1>6. Rest(s) \in (SUBSET S) \ Q
  BY <1>5, RestIsSmaller
<1>7. Cardinality(Rest(s)) \in N
  BY <1>6
<1>8. Cardinality(Rest(s)) < n
  BY <1>4, <1>5, RestIsSmaller
<1> QED BY <1>1, <1>3, <1>7, <1>8

\* The partial sums exist.
LEMMA SumsExist ==
    ASSUME NEW S, IsFiniteSet(S), NEW f \in [S -> Int]
    PROVE  \E g : Sums(f, S, g)
<1> DEFINE OK(g, n) == /\ g \in [SUBSET S -> Int]
                       /\ \A s \in SUBSET S : Cardinality(s) <= n =>
                            g[s] = IF s = {} THEN 0 ELSE f[First(s)] + g[Rest(s)]
           Bad == {n \in Nat : ~ \E g : OK(g, n)}
<1>1. Bad = {}
  <2> SUFFICES ASSUME Bad # {} PROVE FALSE
    OBVIOUS
  <2>1. Bad \in SUBSET Nat
    OBVIOUS
  <2>2. PICK n \in Bad : \A m \in Bad : n <= m
    <3> HIDE DEF Bad
    <3> QED BY <2>1, NatMin
  <2>3. n # 0
    <3> DEFINE z == [s \in SUBSET S |-> 0]
    <3>1. \A s \in SUBSET S : Cardinality(s) <= 0 => s = {}
      <4> SUFFICES ASSUME NEW s \in SUBSET S, Cardinality(s) <= 0, s # {}
                   PROVE  FALSE
        OBVIOUS
      <4>1. Cardinality(s) \in Nat /\ Cardinality(s) - 1 \in Nat
        BY RestIsSmaller
      <4> QED BY <4>1
    <3>2. OK(z, 0)
      BY <3>1
    <3>3. 0 \notin Bad
      <4> HIDE DEF z, OK
      <4> QED BY <3>2
    <3> QED
      <4> HIDE DEF Bad
      <4> QED BY <3>3
  <2>4. n - 1 \in Nat /\ n - 1 \notin Bad
    <3> HIDE DEF Bad
    <3> QED BY <2>1, <2>2, <2>3
  <2>5. PICK g : OK(g, n - 1)
    <3> HIDE DEF OK
    <3> QED BY <2>4
  <2> DEFINE h == [s \in SUBSET S |->
                     IF s = {} THEN 0 ELSE f[First(s)] + g[Rest(s)]]
  <2>6. h \in [SUBSET S -> Int]
    <3>1. \A s \in SUBSET S : s # {} => First(s) \in S /\ Rest(s) \in SUBSET S
      BY RestIsSmaller
    <3>2. \A s \in SUBSET S : s # {} => f[First(s)] + g[Rest(s)] \in Int
      BY <3>1, <2>5
    <3> QED BY <3>2
  <2>7. \A s \in SUBSET S : Cardinality(s) <= n =>
            h[s] = IF s = {} THEN 0 ELSE f[First(s)] + h[Rest(s)]
    <3> SUFFICES ASSUME NEW s \in SUBSET S, Cardinality(s) <= n, s # {}
                 PROVE  h[s] = f[First(s)] + h[Rest(s)]
      OBVIOUS
    <3>1. Rest(s) \in SUBSET S /\ Cardinality(Rest(s)) <= n - 1
      BY RestIsSmaller
    <3>2. g[Rest(s)] = h[Rest(s)]
      BY <2>5, <3>1
    <3> QED BY <3>2
  <2>8. OK(h, n)
    BY <2>6, <2>7
  <2> QED BY <2>2, <2>8
<1>2. Cardinality(S) \in Nat
  BY FS_CardinalityType
<1>3. PICK g : OK(g, Cardinality(S))
  BY <1>1, <1>2
<1>4. \A s \in SUBSET S : Cardinality(s) <= Cardinality(S)
  BY FS_Subset
<1> QED BY <1>3, <1>4 DEF Sums

\* SumFunction is the last of the partial sums.
LEMMA SumIsSums ==
    ASSUME NEW S, IsFiniteSet(S), NEW f \in [S -> Int]
    PROVE  \E g : Sums(f, S, g) /\ SumFunction(f) = g[S]
<1> DEFINE Eq(g) == g = [s \in SUBSET S |-> IF s = {} THEN 0
                                            ELSE f[First(s)] + g[Rest(s)]]
           iter == CHOOSE g : Eq(g)
<1>1. DOMAIN f = S
  OBVIOUS
<1>2. SumFunction(f) = iter[S]
  BY <1>1 DEF SumFunction, SumFunctionOnSet, FoldFunctionOnSet, MapThenFoldSet,
              First, Rest
<1>3. \E g : Eq(g)
  <2>1. PICK g : Sums(f, S, g)
    BY SumsExist
  <2>2. Eq(g)
    BY <2>1 DEF Sums
  <2> QED BY <2>2
<1>4. Eq(iter)
  <2> HIDE DEF Eq
  <2> QED BY <1>3
<1> DEFINE Q == {s \in SUBSET S : iter[s] \in Int}
<1>5. {} \in Q
  <2> HIDE DEF iter
  <2> QED BY <1>4
<1>6. \A s \in SUBSET S : s # {} /\ Rest(s) \in Q => s \in Q
  <2> HIDE DEF iter
  <2> TAKE s \in SUBSET S
  <2> HAVE s # {} /\ Rest(s) \in Q
  <2>1. iter[s] = f[First(s)] + iter[Rest(s)]
    BY <1>4
  <2>2. First(s) \in S
    BY RestIsSmaller
  <2> QED BY <2>1, <2>2
<1>7. Q = SUBSET S
  <2> HIDE DEF Q
  <2>1. Q \in SUBSET (SUBSET S)
    BY DEF Q
  <2> QED BY <1>5, <1>6, <2>1, RestInduction
<1>8. Sums(f, S, iter)
  <2> HIDE DEF iter
  <2> QED BY <1>4, <1>7 DEF Sums
<1> HIDE DEF iter
<1> QED BY <1>2, <1>8
\* A sum of integers is an integer, of natural numbers a natural number.
LEMMA SumType ==
    ASSUME NEW S, IsFiniteSet(S), NEW f \in [S -> Int]
    PROVE  SumFunction(f) \in Int
<1>1. PICK g : Sums(f, S, g) /\ SumFunction(f) = g[S]
  BY SumIsSums
<1> QED BY <1>1 DEF Sums

LEMMA SumNat ==
    ASSUME NEW S, IsFiniteSet(S), NEW f \in [S -> Nat]
    PROVE  SumFunction(f) \in Nat
<1>0. f \in [S -> Int]
  OBVIOUS
<1>1. PICK g : Sums(f, S, g) /\ SumFunction(f) = g[S]
  BY <1>0, SumIsSums
<1> DEFINE Q == {s \in SUBSET S : g[s] \in Nat}
<1>2. {} \in Q
  BY <1>1 DEF Sums
<1>3. \A s \in SUBSET S : s # {} /\ Rest(s) \in Q => s \in Q
  <2> SUFFICES ASSUME NEW s \in SUBSET S, s # {}, Rest(s) \in Q PROVE s \in Q
    OBVIOUS
  <2>1. g[s] = f[First(s)] + g[Rest(s)] /\ g[Rest(s)] \in Nat
    BY <1>1 DEF Sums
  <2>2. First(s) \in S
    BY RestIsSmaller
  <2> QED BY <2>1, <2>2
<1>4. Q = SUBSET S
  <2>1. Q \in SUBSET (SUBSET S)
    OBVIOUS
  <2> HIDE DEF Q
  <2> QED BY <1>2, <1>3, <2>1, RestInduction
<1> QED BY <1>1, <1>4

\* The sum of the sums of two functions is the sum of their sums.
LEMMA SumAdd ==
    ASSUME NEW S, IsFiniteSet(S), NEW f \in [S -> Int], NEW h \in [S -> Int],
           NEW k \in [S -> Int], \A x \in S : k[x] = f[x] + h[x]
    PROVE  SumFunction(k) = SumFunction(f) + SumFunction(h)
<1>1. PICK a : Sums(f, S, a) /\ SumFunction(f) = a[S]
  BY SumIsSums
<1>2. PICK b : Sums(h, S, b) /\ SumFunction(h) = b[S]
  BY SumIsSums
<1>3. PICK c : Sums(k, S, c) /\ SumFunction(k) = c[S]
  BY SumIsSums
<1> DEFINE Q == {s \in SUBSET S : c[s] = a[s] + b[s]}
<1>4. {} \in Q
  <2>1. a[{}] = 0 /\ b[{}] = 0
    BY <1>1, <1>2 DEF Sums
  <2>2. c[{}] = 0
    BY <1>3 DEF Sums
  <2> QED BY <2>1, <2>2
<1>5. \A s \in SUBSET S : s # {} /\ Rest(s) \in Q => s \in Q
  <2> SUFFICES ASSUME NEW s \in SUBSET S, s # {}, Rest(s) \in Q PROVE s \in Q
    OBVIOUS
  <2>1. c[s] = k[First(s)] + c[Rest(s)] /\ c[Rest(s)] = a[Rest(s)] + b[Rest(s)]
    BY <1>3 DEF Sums
  <2>2. a[s] = f[First(s)] + a[Rest(s)] /\ b[s] = h[First(s)] + b[Rest(s)]
    BY <1>1, <1>2 DEF Sums
  <2>3. First(s) \in S /\ Rest(s) \in SUBSET S
    BY RestIsSmaller
  <2>4. a[Rest(s)] \in Int /\ b[Rest(s)] \in Int
    BY <1>1, <1>2, <2>3 DEF Sums
  <2>5. f[First(s)] \in Int /\ h[First(s)] \in Int
        /\ k[First(s)] = f[First(s)] + h[First(s)]
    BY <2>3
  <2>6. c[s] = a[s] + b[s]
    BY <2>1, <2>2, <2>4, <2>5
  <2> QED BY <2>6
<1>6. Q = SUBSET S
  <2>1. Q \in SUBSET (SUBSET S)
    OBVIOUS
  <2> HIDE DEF Q
  <2> QED BY <1>4, <1>5, <2>1, RestInduction
<1> QED BY <1>1, <1>2, <1>3, <1>6

\* The sum of a function that is 0 but at x is its value there.
LEMMA SumPoint ==
    ASSUME NEW S, IsFiniteSet(S), NEW f \in [S -> Int], NEW x \in S,
           \A y \in S : y # x => f[y] = 0
    PROVE  SumFunction(f) = f[x]
<1>1. PICK a : Sums(f, S, a) /\ SumFunction(f) = a[S]
  BY SumIsSums
<1> DEFINE Q == {s \in SUBSET S : a[s] = IF x \in s THEN f[x] ELSE 0}
<1>4. {} \in Q
  <2>1. a[{}] = 0
    BY <1>1 DEF Sums
  <2> QED BY <2>1
<1>5. \A s \in SUBSET S : s # {} /\ Rest(s) \in Q => s \in Q
  <2> SUFFICES ASSUME NEW s \in SUBSET S, s # {}, Rest(s) \in Q PROVE s \in Q
    OBVIOUS
  <2>1. a[s] = f[First(s)] + a[Rest(s)]
    BY <1>1 DEF Sums
  <2>2. First(s) \in S /\ First(s) \in s
    BY RestIsSmaller
  <2>3. a[Rest(s)] = IF x \in Rest(s) THEN f[x] ELSE 0
    OBVIOUS
  <2>4. f[First(s)] \in Int /\ f[x] \in Int
    BY <2>2
  <2>5. CASE First(s) = x
    <3>1. x \notin Rest(s)
      BY <2>5 DEF Rest
    <3> QED BY <2>1, <2>2, <2>3, <2>4, <2>5, <3>1
  <2>6. CASE First(s) # x
    <3>1. x \in s <=> x \in Rest(s)
      BY <2>6 DEF Rest
    <3>2. f[First(s)] = 0
      BY <2>2, <2>6
    <3> QED BY <2>1, <2>3, <2>4, <3>1, <3>2
  <2> QED BY <2>5, <2>6
<1>6. Q = SUBSET S
  <2>1. Q \in SUBSET (SUBSET S)
    OBVIOUS
  <2> HIDE DEF Q
  <2> QED BY <1>4, <1>5, <2>1, RestInduction
<1>7. S \in Q
  <2> HIDE DEF Q
  <2> QED BY <1>6
<1> QED BY <1>1, <1>7

\* The sum of zeroes is zero.
LEMMA SumZero ==
    ASSUME NEW S, IsFiniteSet(S), NEW f \in [S -> Int], \A y \in S : f[y] = 0
    PROVE  SumFunction(f) = 0
<1>1. \A y \in S : f[y] = f[y] + f[y]
  OBVIOUS
<1>2. SumFunction(f) = SumFunction(f) + SumFunction(f)
  BY <1>1, SumAdd
<1>3. SumFunction(f) \in Int
  BY SumType
<1>4. \A n \in Int : n = n + n => n = 0
  OBVIOUS
<1> QED BY <1>2, <1>3, <1>4

\* A function that is nowhere smaller has no smaller sum.
LEMMA SumMono ==
    ASSUME NEW S, IsFiniteSet(S), NEW f \in [S -> Int], NEW h \in [S -> Int],
           \A x \in S : f[x] <= h[x]
    PROVE  SumFunction(f) <= SumFunction(h)
<1> DEFINE d == [x \in S |-> h[x] - f[x]]
<1>1. d \in [S -> Nat]
  OBVIOUS
<1>2. d \in [S -> Int] /\ \A x \in S : h[x] = f[x] + d[x]
  OBVIOUS
<1> HIDE DEF d
<1>3. SumFunction(d) \in Nat
  BY <1>1, SumNat
<1>4. SumFunction(h) = SumFunction(f) + SumFunction(d)
  BY <1>2, SumAdd
<1>5. SumFunction(f) \in Int /\ SumFunction(h) \in Int
  BY SumType
<1> QED BY <1>3, <1>4, <1>5

\* A function that differs from another at x only.
LEMMA SumChange ==
    ASSUME NEW S, IsFiniteSet(S), NEW f \in [S -> Int], NEW h \in [S -> Int],
           NEW x \in S, \A y \in S : y # x => h[y] = f[y]
    PROVE  SumFunction(h) = SumFunction(f) + (h[x] - f[x])
<1> DEFINE d == [y \in S |-> h[y] - f[y]]
<1>1. d \in [S -> Int] /\ \A y \in S : h[y] = f[y] + d[y]
  OBVIOUS
<1>2. \A y \in S : y # x => d[y] = 0
  OBVIOUS
<1>3. d[x] = h[x] - f[x]
  OBVIOUS
<1> HIDE DEF d
<1>4. SumFunction(d) = d[x]
  BY <1>1, <1>2, SumPoint
<1>5. SumFunction(h) = SumFunction(f) + SumFunction(d)
  BY <1>1, SumAdd
<1>6. SumFunction(h) = SumFunction(f) + d[x]
  BY <1>4, <1>5
<1> QED BY <1>3, <1>6

-----------------------------------------------------------------------------
(* Shapes *)

RxRec == [swm : Nat, cwm : Nat, rwm : Nat, hwm : Nat, win : Nat, max : Nat,
          fin : BOOLEAN, err : Errors, changed : BOOLEAN]

StRec == [sendState : SendStates, size : Nat, fin : BOOLEAN,
          new : SUBSET Nat, sentFin : BOOLEAN,
          acked : SUBSET Nat, ackedFin : BOOLEAN,
          finalSize : Nat, wantReset : BOOLEAN, peerStop : BOOLEAN,
          txSwm : Nat, txCwm : Nat, recvState : RecvStates,
          got : SUBSET Nat, stop : BOOLEAN, wantStop : BOOLEAN,
          ackedStop : BOOLEAN, wantMaxStreamData : BOOLEAN,
          rx : RxRec, deleted : BOOLEAN, readyForGc : BOOLEAN,
          active : BOOLEAN]

FrameRec == [stop : BOOLEAN, reset : Int, maxStreamData : Int,
             bytes : SUBSET Nat, fin : BOOLEAN, end : Int]

\* The fields that the handlers leave alone, in groups.
SameRecv(t, u) ==
    /\ u.recvState = t.recvState /\ u.got = t.got /\ u.stop = t.stop
    /\ u.wantStop = t.wantStop
    /\ u.wantMaxStreamData = t.wantMaxStreamData /\ u.rx = t.rx

SameCredit(t, u) == u.txSwm = t.txSwm /\ u.txCwm = t.txCwm

SameBuffer(t, u) ==
    /\ u.size = t.size /\ u.fin = t.fin /\ u.new = t.new
    /\ u.sentFin = t.sentFin /\ u.acked = t.acked /\ u.ackedFin = t.ackedFin

-----------------------------------------------------------------------------
(* The stream as a whole *)

\* UpdateState may find the send part delivered, and decides on the flags.
LEMMA UpdateEffect ==
    ASSUME NEW t \in StRec, NEW c \in Int
    PROVE  LET u == UpdateState(t, c) IN
           /\ u \in StRec
           /\ SameRecv(t, u) /\ SameCredit(t, u)
           /\ u.size = t.size /\ u.fin = t.fin /\ u.sentFin = t.sentFin
           /\ u.ackedFin = t.ackedFin /\ u.finalSize = t.finalSize
           /\ u.wantReset = t.wantReset /\ u.peerStop = t.peerStop
           /\ u.ackedStop = t.ackedStop /\ u.deleted = t.deleted
           /\ t.readyForGc => u.readyForGc
           /\ \/ /\ u.sendState = t.sendState
                 /\ u.new = t.new /\ u.acked = t.acked
              \/ /\ t.sendState = "DATA_SENT" /\ IsTotallyAcked(t)
                 /\ u.sendState = "DATA_RECVD" /\ u.new = {} /\ u.acked = {}
           /\ ~(t.sendState = "DATA_SENT" /\ IsTotallyAcked(t))
                => u.sendState = t.sendState /\ u.new = t.new /\ u.acked = t.acked
           /\ u.active <=> ShouldBeActive(u, c)
<1> DEFINE d == t.sendState = "DATA_SENT" /\ IsTotallyAcked(t)
           a == IF d THEN [FreeSStream(t) EXCEPT !.sendState = "DATA_RECVD"] ELSE t
           g == [a EXCEPT !.readyForGc = @ \/ ReadyForGc(a)]
           u == [g EXCEPT !.active = ShouldBeActive(g, c)]
<1>1. UpdateState(t, c) = u
  BY DEF UpdateState
<1>2. a \in StRec
  <2>1. FreeSStream(t) \in StRec
    BY DEF StRec, FreeSStream
  <2>2. [FreeSStream(t) EXCEPT !.sendState = "DATA_RECVD"] \in StRec
    BY <2>1 DEF StRec, SendStates
  <2> QED BY <2>2
<1>3. /\ SameRecv(t, a) /\ SameCredit(t, a)
      /\ a.size = t.size /\ a.fin = t.fin /\ a.sentFin = t.sentFin
      /\ a.ackedFin = t.ackedFin /\ a.finalSize = t.finalSize
      /\ a.wantReset = t.wantReset /\ a.peerStop = t.peerStop
      /\ a.ackedStop = t.ackedStop /\ a.deleted = t.deleted
      /\ a.readyForGc = t.readyForGc
  BY DEF StRec, FreeSStream, SameRecv, SameCredit
<1>4. /\ d => a.sendState = "DATA_RECVD" /\ a.new = {} /\ a.acked = {}
      /\ ~d => a.sendState = t.sendState /\ a.new = t.new /\ a.acked = t.acked
  BY DEF StRec, FreeSStream
<1> HIDE DEF a, d
<1>5. /\ g \in StRec
      /\ \A x \in DOMAIN a \ {"readyForGc"} : g[x] = a[x]
      /\ a.readyForGc => g.readyForGc
  BY <1>2 DEF StRec, ReadyForGc
<1>6. /\ SameRecv(a, g) /\ SameCredit(a, g) /\ SameBuffer(a, g)
      /\ g.finalSize = a.finalSize /\ g.sendState = a.sendState
      /\ g.wantReset = a.wantReset /\ g.peerStop = a.peerStop
      /\ g.ackedStop = a.ackedStop /\ g.deleted = a.deleted
  BY <1>2 DEF StRec, SameRecv, SameCredit, SameBuffer
<1> HIDE DEF g
<1>7. /\ u \in StRec /\ u.active = ShouldBeActive(g, c)
  BY <1>5 DEF StRec, ShouldBeActive
<1>8. /\ SameRecv(g, u) /\ SameCredit(g, u) /\ SameBuffer(g, u)
      /\ u.finalSize = g.finalSize /\ u.sendState = g.sendState
      /\ u.wantReset = g.wantReset /\ u.peerStop = g.peerStop
      /\ u.ackedStop = g.ackedStop /\ u.deleted = g.deleted
      /\ u.readyForGc = g.readyForGc
  BY <1>5 DEF StRec, SameRecv, SameCredit, SameBuffer
<1> HIDE DEF u
<1>9. ShouldBeActive(g, c) <=> ShouldBeActive(u, c)
  BY <1>8 DEF SameRecv, SameCredit, SameBuffer, ShouldBeActive, HasDataToSend,
              HasSStream, FcLimit
<1>10. d <=> t.sendState = "DATA_SENT" /\ IsTotallyAcked(t)
  BY DEF d
<1>11. SameRecv(t, u) /\ SameCredit(t, u)
  BY <1>3, <1>6, <1>8 DEF SameRecv, SameCredit
<1>12. /\ u.size = t.size /\ u.fin = t.fin /\ u.sentFin = t.sentFin
       /\ u.ackedFin = t.ackedFin /\ u.finalSize = t.finalSize
       /\ u.wantReset = t.wantReset /\ u.peerStop = t.peerStop
       /\ u.ackedStop = t.ackedStop /\ u.deleted = t.deleted
       /\ t.readyForGc => u.readyForGc
  BY <1>3, <1>5, <1>6, <1>8 DEF SameBuffer
<1>13. /\ d => u.sendState = "DATA_RECVD" /\ u.new = {} /\ u.acked = {}
       /\ ~d => u.sendState = t.sendState /\ u.new = t.new /\ u.acked = t.acked
  BY <1>4, <1>6, <1>8 DEF SameBuffer
<1>14. u.active <=> ShouldBeActive(u, c)
  BY <1>7, <1>9
<1> QED BY <1>1, <1>7, <1>10, <1>11, <1>12, <1>13, <1>14

\* What ResetSendPart leaves alone, and what it does to a live send part.
LEMMA ResetEffect ==
    ASSUME NEW t \in StRec, NEW c \in Int
    PROVE  LET u == ResetSendPart(t, c) IN
           /\ u \in StRec
           /\ SameRecv(t, u) /\ SameCredit(t, u)
           /\ u.size = t.size /\ u.fin = t.fin /\ u.sentFin = t.sentFin
           /\ u.ackedFin = t.ackedFin
           /\ u.peerStop = t.peerStop
           /\ u.ackedStop = t.ackedStop /\ u.deleted = t.deleted
           /\ \/ /\ t.sendState \in {"DATA_RECVD", "RESET_SENT", "RESET_RECVD"}
                 /\ u = t
              \/ /\ t.sendState \in {"READY", "SEND", "DATA_SENT"}
                 /\ u.sendState = "RESET_SENT" /\ u.wantReset
                 /\ u.new = {} /\ u.acked = {}
                 /\ t.sendState = "DATA_SENT" => u.finalSize = t.finalSize
                 /\ t.sendState # "DATA_SENT" => u.finalSize = t.txSwm
                 /\ u.active <=> ShouldBeActive(u, c)
<1> DEFINE x == [FreeSStream(t) EXCEPT
             !.finalSize = IF t.sendState = "DATA_SENT" THEN @ ELSE t.txSwm,
             !.wantReset = TRUE,
             !.sendState = "RESET_SENT"]
<1>1. CASE t.sendState \in {"DATA_RECVD", "RESET_SENT", "RESET_RECVD"}
  <2>1. ResetSendPart(t, c) = t
    BY <1>1 DEF ResetSendPart
  <2> QED BY <1>1, <2>1 DEF SameRecv, SameCredit
<1>2. CASE ~(t.sendState \in {"DATA_RECVD", "RESET_SENT", "RESET_RECVD"})
  <2>1. ResetSendPart(t, c) = UpdateState(x, c)
    BY <1>2 DEF ResetSendPart
  <2>2. FreeSStream(t) \in StRec
    BY DEF StRec, FreeSStream
  <2>3. x \in StRec
    BY <2>2 DEF StRec, SendStates
  <2>4. /\ SameRecv(t, x) /\ SameCredit(t, x)
        /\ x.size = t.size /\ x.fin = t.fin /\ x.sentFin = t.sentFin
        /\ x.ackedFin = t.ackedFin
        /\ x.peerStop = t.peerStop
        /\ x.ackedStop = t.ackedStop /\ x.deleted = t.deleted
    BY DEF StRec, FreeSStream, SameRecv, SameCredit
  <2>5. /\ x.sendState = "RESET_SENT" /\ x.wantReset /\ x.new = {} /\ x.acked = {}
        /\ t.sendState = "DATA_SENT" => x.finalSize = t.finalSize
        /\ t.sendState # "DATA_SENT" => x.finalSize = t.txSwm
    BY DEF StRec, FreeSStream
  <2>6. t.sendState \in {"READY", "SEND", "DATA_SENT"}
    BY <1>2 DEF StRec, SendStates
  <2> HIDE DEF x
  <2>7. /\ UpdateState(x, c) \in StRec
        /\ SameRecv(x, UpdateState(x, c)) /\ SameCredit(x, UpdateState(x, c))
        /\ UpdateState(x, c).size = x.size /\ UpdateState(x, c).fin = x.fin
        /\ UpdateState(x, c).sentFin = x.sentFin
        /\ UpdateState(x, c).ackedFin = x.ackedFin
        /\ UpdateState(x, c).finalSize = x.finalSize
        /\ UpdateState(x, c).wantReset = x.wantReset
        /\ UpdateState(x, c).peerStop = x.peerStop
        /\ UpdateState(x, c).ackedStop = x.ackedStop
        /\ UpdateState(x, c).deleted = x.deleted
        /\ UpdateState(x, c).sendState = "RESET_SENT"
        /\ UpdateState(x, c).new = {} /\ UpdateState(x, c).acked = {}
        /\ UpdateState(x, c).active <=> ShouldBeActive(UpdateState(x, c), c)
    BY <2>3, <2>5, UpdateEffect
  <2> QED BY <2>1, <2>4, <2>5, <2>6, <2>7 DEF SameRecv, SameCredit
<1> QED BY <1>1, <1>2

\* ScheduleStopSending asks for a STOP_SENDING frame, or does nothing.
LEMMA ScheduleStopEffect ==
    ASSUME NEW t \in StRec, NEW c \in Int
    PROVE  \/ ScheduleStopSending(t, c) = t
           \/ \E x \in StRec :
                /\ ScheduleStopSending(t, c) = UpdateState(x, c)
                /\ SameCredit(t, x) /\ SameBuffer(t, x)
                /\ x.sendState = t.sendState /\ x.finalSize = t.finalSize
                /\ x.wantReset = t.wantReset /\ x.peerStop = t.peerStop
                /\ x.ackedStop = t.ackedStop /\ x.deleted = t.deleted
                /\ x.recvState = t.recvState /\ x.got = t.got /\ x.stop = t.stop
                /\ x.wantMaxStreamData = t.wantMaxStreamData /\ x.rx = t.rx
                /\ x.readyForGc = t.readyForGc
<1> DEFINE x == [t EXCEPT !.wantStop = TRUE]
<1>1. x \in StRec
  BY DEF StRec
<1>2. /\ SameCredit(t, x) /\ SameBuffer(t, x)
      /\ x.sendState = t.sendState /\ x.finalSize = t.finalSize
      /\ x.wantReset = t.wantReset /\ x.peerStop = t.peerStop
      /\ x.ackedStop = t.ackedStop /\ x.deleted = t.deleted
      /\ x.recvState = t.recvState /\ x.got = t.got /\ x.stop = t.stop
      /\ x.wantMaxStreamData = t.wantMaxStreamData /\ x.rx = t.rx
      /\ x.readyForGc = t.readyForGc
  BY DEF StRec, SameCredit, SameBuffer
<1>3. ScheduleStopSending(t, c) \in {t, UpdateState(x, c)}
  BY DEF ScheduleStopSending
<1> QED BY <1>1, <1>2, <1>3

-----------------------------------------------------------------------------
(* The RX flow controller *)

\* The flow controller r becomes q when n bytes are retired: no credit is taken
\* back, and no more is granted than the largest window beyond what was read.
Retired(r, n, q) ==
    /\ q \in RxRec
    /\ q.swm = r.swm /\ q.hwm = r.hwm /\ q.max = r.max
    /\ q.fin = r.fin /\ q.err = r.err /\ q.rwm = r.rwm + n
    /\ q.cwm >= r.cwm
    /\ q.cwm - q.rwm <= q.max
    /\ r.changed => q.changed
    /\ q.cwm # r.cwm => q.changed

LEMMA RetireEffect ==
    ASSUME NEW r \in RxRec, NEW n \in Nat, NEW minWnd \in Nat,
           NEW double \in BOOLEAN, r.cwm - r.rwm <= r.max
    PROVE  Retired(r, n, RxRetire(r, n, minWnd, double))
<1> DEFINE q == [r EXCEPT !.rwm = @ + n]
           w == AdjustedWindow(q, minWnd, double)
           z == [q EXCEPT !.win = w, !.cwm = Larger(@, q.rwm + w),
                          !.changed = @ \/ q.rwm + w > q.cwm]
<1>1. RxRetire(r, n, minWnd, double) = IF ~CwmBumpDesired(q) THEN q ELSE z
  BY DEF RxRetire
<1>2. q \in RxRec
  BY DEF RxRec
<1>3. /\ q.swm = r.swm /\ q.hwm = r.hwm /\ q.max = r.max /\ q.win = r.win
      /\ q.fin = r.fin /\ q.err = r.err /\ q.rwm = r.rwm + n
      /\ q.cwm = r.cwm /\ q.changed = r.changed
  BY DEF RxRec
<1>4. r.cwm \in Nat /\ r.rwm \in Nat /\ r.max \in Nat /\ r.win \in Nat
      /\ q.cwm \in Nat /\ q.rwm \in Nat /\ q.max \in Nat /\ q.win \in Nat
  BY <1>2 DEF RxRec
<1> HIDE DEF q
<1>5. w \in Nat /\ w <= q.max
  BY <1>4 DEF AdjustedWindow, Larger, Smaller
<1> HIDE DEF w
<1>6. /\ Larger(q.cwm, q.rwm + w) \in Nat
      /\ Larger(q.cwm, q.rwm + w) >= q.cwm
      /\ Larger(q.cwm, q.rwm + w) - q.rwm <= q.max
      /\ Larger(q.cwm, q.rwm + w) # q.cwm => q.rwm + w > q.cwm
  BY <1>3, <1>4, <1>5 DEF Larger
<1>7. /\ z.swm = q.swm /\ z.hwm = q.hwm /\ z.max = q.max
      /\ z.fin = q.fin /\ z.err = q.err /\ z.rwm = q.rwm
      /\ z.cwm = Larger(q.cwm, q.rwm + w)
      /\ z.changed = (q.changed \/ q.rwm + w > q.cwm)
  BY <1>2 DEF RxRec
<1>8. z \in RxRec
  BY <1>2, <1>5, <1>6 DEF RxRec
<1> HIDE DEF z
<1>9. CASE CwmBumpDesired(q)
  <2>1. RxRetire(r, n, minWnd, double) = z
    BY <1>1, <1>9
  <2>2. z.cwm >= r.cwm /\ z.cwm - z.rwm <= z.max
    BY <1>3, <1>4, <1>6, <1>7
  <2>3. (r.changed => z.changed) /\ (z.cwm # r.cwm => z.changed)
    BY <1>3, <1>6, <1>7
  <2> QED BY <1>3, <1>7, <1>8, <2>1, <2>2, <2>3 DEF Retired
<1>10. CASE ~CwmBumpDesired(q)
  <2>1. RxRetire(r, n, minWnd, double) = q
    BY <1>1, <1>10
  <2>2. q.cwm >= r.cwm /\ q.cwm - q.rwm <= q.max
    BY <1>3, <1>4
  <2> QED BY <1>2, <1>3, <2>1, <2>2 DEF Retired
<1> QED BY <1>9, <1>10

\* A frame that ends at or below b, the most that the sender may have sent, and
\* at b itself if it carries the final size, raises no error.
LEMMA StreamFrameEffect ==
    ASSUME NEW r \in RxRec, NEW end \in Int, NEW fin \in BOOLEAN, NEW b \in Nat,
           r.swm = r.hwm, r.hwm <= b, b <= r.cwm, r.err = "NONE",
           r.fin => r.hwm = b, end <= b, fin => end = b
    PROVE  LET q == OnRxStreamFrame(r, end, fin) IN
           /\ q \in RxRec
           /\ q.err = "NONE" /\ q.swm = q.hwm /\ q.hwm = Larger(r.hwm, end)
           /\ q.hwm <= b /\ r.hwm <= q.hwm
           /\ q.cwm = r.cwm /\ q.rwm = r.rwm /\ q.win = r.win /\ q.max = r.max
           /\ q.changed = r.changed
           /\ q.fin <=> (r.fin \/ fin)
           /\ q.fin => q.hwm = b
<1>1. r.swm \in Nat /\ r.hwm \in Nat /\ r.cwm \in Nat /\ r.fin \in BOOLEAN
  BY DEF RxRec
<1>2. ~(r.fin /\ ((fin /\ r.hwm # end) \/ end > r.hwm))
  BY <1>1
<1> DEFINE f == [r EXCEPT !.fin = @ \/ fin]
<1>3. f \in RxRec
  BY DEF RxRec
<1>4. /\ f.err = r.err /\ f.swm = r.swm /\ f.hwm = r.hwm /\ f.cwm = r.cwm
      /\ f.rwm = r.rwm /\ f.win = r.win /\ f.max = r.max
      /\ f.changed = r.changed /\ (f.fin <=> (r.fin \/ fin))
  BY DEF RxRec
<1>5. CASE end > r.hwm
  <2> DEFINE g == [f EXCEPT !.hwm = end]
             h == [g EXCEPT !.swm = @ + (end - r.hwm)]
  <2> HIDE DEF f
  <2>1. g \in RxRec
    BY <1>1, <1>3, <1>5 DEF RxRec
  <2>2. /\ g.err = f.err /\ g.swm = f.swm /\ g.hwm = end /\ g.cwm = f.cwm
        /\ g.rwm = f.rwm /\ g.win = f.win /\ g.max = f.max
        /\ g.changed = f.changed /\ g.fin = f.fin
    BY <1>3 DEF RxRec
  <2> HIDE DEF g
  <2>3. ~(end - r.hwm > g.cwm - g.swm)
    BY <1>1, <1>4, <2>2
  <2>4. OnRxStreamFrame(r, end, fin) = OnRxControlledBytes(g, end - r.hwm)
    BY <1>2, <1>5 DEF OnRxStreamFrame, f, g
  <2>5. OnRxStreamFrame(r, end, fin) = h
    BY <2>3, <2>4 DEF OnRxControlledBytes
  <2>6. g.swm + (end - r.hwm) = end /\ end \in Nat
    BY <1>1, <1>4, <1>5, <2>2
  <2>7. h \in RxRec
    BY <2>1, <2>6 DEF RxRec
  <2>8. /\ h.err = g.err /\ h.swm = end /\ h.hwm = g.hwm /\ h.cwm = g.cwm
        /\ h.rwm = g.rwm /\ h.win = g.win /\ h.max = g.max
        /\ h.changed = g.changed /\ h.fin = g.fin
    BY <2>1, <2>6 DEF RxRec
  <2> HIDE DEF h
  <2>9. Larger(r.hwm, end) = end
    BY <1>1, <1>5 DEF Larger
  <2>10. h.hwm <= b /\ r.hwm <= h.hwm
    BY <1>1, <1>5, <2>2, <2>8
  <2>11. h.fin => h.hwm = b
    BY <1>1, <1>4, <1>5, <2>2, <2>8
  <2> QED BY <1>4, <2>2, <2>5, <2>7, <2>8, <2>9, <2>10, <2>11
<1>6. CASE ~(end > r.hwm)
  <2> HIDE DEF f
  <2>1. ~(end < r.hwm /\ fin)
    BY <1>1
  <2>2. OnRxStreamFrame(r, end, fin) = f
    BY <1>2, <1>6, <2>1 DEF OnRxStreamFrame, f
  <2>3. Larger(r.hwm, end) = r.hwm
    BY <1>1, <1>6 DEF Larger
  <2>4. f.hwm <= b /\ r.hwm <= f.hwm
    BY <1>1, <1>4
  <2>5. f.fin => f.hwm = b
    BY <1>1, <1>4, <1>6
  <2> QED BY <1>3, <1>4, <2>2, <2>3, <2>4, <2>5
<1> QED BY <1>5, <1>6

\* No more can be read than has been received.
LEMMA ReadableBound ==
    ASSUME NEW t \in StRec, t.got \subseteq t.rx.rwm..(t.rx.hwm - 1),
           t.rx.rwm <= t.rx.hwm
    PROVE  /\ Cardinality(Readable(t)) \in Nat
           /\ t.rx.rwm + Cardinality(Readable(t)) <= t.rx.hwm
           /\ IsFiniteSet(Readable(t))
<1>1. t.rx.rwm \in Nat /\ t.rx.hwm \in Nat
  BY DEF StRec, RxRec
<1> DEFINE I == t.rx.rwm..(t.rx.hwm - 1)
<1>2. Readable(t) \subseteq I
  BY DEF Readable
<1>3. IsFiniteSet(I) /\ Cardinality(I) = t.rx.hwm - t.rx.rwm
  <2>1. t.rx.hwm - 1 \in Int /\ t.rx.rwm \in Int
    BY <1>1
  <2>2. IsFiniteSet(I) /\ Cardinality(I) =
           IF t.rx.rwm > t.rx.hwm - 1 THEN 0 ELSE (t.rx.hwm - 1) - t.rx.rwm + 1
    BY <2>1, FS_Interval
  <2> HIDE DEF I
  <2> QED BY <1>1, <2>2
<1> HIDE DEF I
<1>4. IsFiniteSet(Readable(t)) /\ Cardinality(Readable(t)) <= Cardinality(I)
  BY <1>2, <1>3, FS_Subset
<1>5. Cardinality(Readable(t)) \in Nat
  BY <1>4, FS_CardinalityType
<1> QED BY <1>1, <1>3, <1>4, <1>5

-----------------------------------------------------------------------------
(* The fate of a packet *)

\* OnAcked: nothing, or the frames are marked, perhaps followed by an update.
LEMMA AckedEffect ==
    ASSUME NEW t \in StRec, NEW c \in Int, NEW f \in FrameRec
    PROVE  \/ (~HasChunk(f) \/ ~HasSStream(t)) /\ OnAcked(t, f, c) = t
           \/ /\ HasChunk(f) /\ HasSStream(t)
              /\ \E u \in StRec :
                   /\ OnAcked(t, f, c) \in {u, UpdateState(u, c)}
                   /\ u.acked = t.acked \cup f.bytes
                   /\ u.ackedFin = (t.ackedFin \/ f.fin)
                   /\ u.ackedStop = (t.ackedStop \/ f.stop)
                   /\ SameRecv(t, u) /\ SameCredit(t, u)
                   /\ u.sendState = t.sendState /\ u.size = t.size
                   /\ u.fin = t.fin /\ u.new = t.new /\ u.sentFin = t.sentFin
                   /\ u.finalSize = t.finalSize /\ u.wantReset = t.wantReset
                   /\ u.peerStop = t.peerStop /\ u.deleted = t.deleted
                   /\ u.readyForGc = t.readyForGc /\ u.active = t.active
<1>1. CASE ~HasChunk(f) \/ ~HasSStream(t)
  BY <1>1 DEF OnAcked
<1>2. CASE HasChunk(f) /\ HasSStream(t)
  <2>1. PICK A : A = t.acked \cup f.bytes
    OBVIOUS
  <2>2. PICK b : b = (t.ackedFin \/ f.fin)
    OBVIOUS
  <2>3. PICK d : d = (t.ackedStop \/ f.stop)
    OBVIOUS
  <2> DEFINE u == [t EXCEPT !.acked = A, !.ackedFin = b, !.ackedStop = d]
  <2>4. f.bytes \in SUBSET Nat /\ f.fin \in BOOLEAN /\ f.stop \in BOOLEAN
    BY DEF FrameRec
  <2>5. A \in SUBSET Nat /\ b \in BOOLEAN /\ d \in BOOLEAN
    <3>1. t.acked \in SUBSET Nat /\ t.ackedFin \in BOOLEAN /\ t.ackedStop \in BOOLEAN
      BY DEF StRec
    <3> QED BY <2>1, <2>2, <2>3, <2>4, <3>1
  <2>6. t.sendState # "RESET_SENT"
    BY <1>2 DEF HasSStream
  <2>7. [t EXCEPT !.acked = @ \cup f.bytes,
                  !.ackedFin = @ \/ f.fin,
                  !.ackedStop = @ \/ f.stop,
                  !.sendState = IF f.reset # None /\ @ = "RESET_SENT"
                                THEN "RESET_RECVD" ELSE @] = u
    <3>1. [t EXCEPT !.acked = @ \cup f.bytes,
                    !.ackedFin = @ \/ f.fin,
                    !.ackedStop = @ \/ f.stop,
                    !.sendState = IF f.reset # None /\ @ = "RESET_SENT"
                                  THEN "RESET_RECVD" ELSE @]
          = [u EXCEPT !.sendState = t.sendState]
      BY <2>1, <2>2, <2>3, <2>6
    <3>2. u.sendState = t.sendState
      BY DEF StRec
    <3>3. u = [u EXCEPT !.sendState = t.sendState]
      BY <3>2 DEF StRec
    <3> QED BY <3>1, <3>3
  <2>8. OnAcked(t, f, c) \in {u, UpdateState(u, c)}
    BY <1>2, <2>7 DEF OnAcked
  <2>9. u \in StRec
    BY <2>5 DEF StRec
  <2>10. /\ u.acked = A /\ u.ackedFin = b /\ u.ackedStop = d
         /\ SameRecv(t, u) /\ SameCredit(t, u)
         /\ u.sendState = t.sendState /\ u.size = t.size
         /\ u.fin = t.fin /\ u.new = t.new /\ u.sentFin = t.sentFin
         /\ u.finalSize = t.finalSize /\ u.wantReset = t.wantReset
         /\ u.peerStop = t.peerStop /\ u.deleted = t.deleted
         /\ u.readyForGc = t.readyForGc /\ u.active = t.active
    BY <2>5 DEF StRec, SameRecv, SameCredit
  <2> HIDE DEF u
  <2> QED BY <1>2, <2>1, <2>2, <2>3, <2>8, <2>9, <2>10
<1> QED BY <1>1, <1>2

\* OnLost: nothing, or the frames are due again, followed by an update.
LEMMA LostEffect ==
    ASSUME NEW t \in StRec, NEW c \in Int, NEW f \in FrameRec
    PROVE  \/ (~HasChunk(f) \/ ~HasSStream(t)) /\ OnLost(t, f, c) = t
           \/ /\ HasChunk(f) /\ HasSStream(t)
              /\ \E u \in StRec :
                   /\ OnLost(t, f, c) \in {UpdateState(u, c),
                                           UpdateState(ScheduleStopSending(u, c), c)}
                   /\ u.new = t.new \cup f.bytes
                   /\ u.sentFin = (t.sentFin /\ ~(f.fin /\ ~t.ackedFin))
                   /\ u.wantReset = (t.wantReset \/ f.reset # None)
                   /\ u.acked = t.acked /\ u.ackedFin = t.ackedFin
                   /\ u.ackedStop = t.ackedStop /\ SameCredit(t, u)
                   /\ u.sendState = t.sendState /\ u.size = t.size
                   /\ u.fin = t.fin /\ u.finalSize = t.finalSize
                   /\ u.peerStop = t.peerStop /\ u.deleted = t.deleted
                   /\ u.readyForGc = t.readyForGc
                   /\ u.recvState = t.recvState /\ u.got = t.got
                   /\ u.stop = t.stop /\ u.wantStop = t.wantStop /\ u.rx = t.rx
<1>1. CASE ~HasChunk(f) \/ ~HasSStream(t)
  BY <1>1 DEF OnLost
<1>2. CASE HasChunk(f) /\ HasSStream(t)
  <2>1. PICK A : A = t.new \cup f.bytes
    OBVIOUS
  <2>2. PICK b : b = (t.sentFin /\ ~(f.fin /\ ~t.ackedFin))
    OBVIOUS
  <2>3. PICK d : d = (t.wantReset \/ f.reset # None)
    OBVIOUS
  <2> DEFINE u == [t EXCEPT !.new = A, !.sentFin = b, !.wantReset = d,
                            !.wantMaxStreamData = TRUE]
  <2>4. f.bytes \in SUBSET Nat /\ f.fin \in BOOLEAN
    BY DEF FrameRec
  <2>5. A \in SUBSET Nat /\ b \in BOOLEAN /\ d \in BOOLEAN
    <3>1. t.new \in SUBSET Nat /\ t.sentFin \in BOOLEAN /\ t.wantReset \in BOOLEAN
      BY DEF StRec
    <3> QED BY <2>1, <2>2, <2>3, <2>4, <3>1
  <2>6. [t EXCEPT !.new = @ \cup f.bytes,
                  !.sentFin = @ /\ ~(f.fin /\ ~t.ackedFin),
                  !.wantReset = @ \/ f.reset # None,
                  !.wantMaxStreamData = TRUE] = u
    BY <2>1, <2>2, <2>3
  <2>7. OnLost(t, f, c) \in {UpdateState(u, c),
                             UpdateState(ScheduleStopSending(u, c), c)}
    BY <1>2, <2>6 DEF OnLost
  <2>8. u \in StRec
    BY <2>5 DEF StRec
  <2>9. /\ u.new = A /\ u.sentFin = b /\ u.wantReset = d
        /\ u.acked = t.acked /\ u.ackedFin = t.ackedFin
        /\ u.ackedStop = t.ackedStop /\ SameCredit(t, u)
        /\ u.sendState = t.sendState /\ u.size = t.size
        /\ u.fin = t.fin /\ u.finalSize = t.finalSize
        /\ u.peerStop = t.peerStop /\ u.deleted = t.deleted
        /\ u.readyForGc = t.readyForGc
        /\ u.recvState = t.recvState /\ u.got = t.got
        /\ u.stop = t.stop /\ u.wantStop = t.wantStop /\ u.rx = t.rx
    BY <2>5 DEF StRec, SameCredit
  <2> HIDE DEF u
  <2> QED BY <1>2, <2>1, <2>2, <2>3, <2>7, <2>8, <2>9
<1> QED BY <1>1, <1>2

-----------------------------------------------------------------------------
(* Sending *)

\* The flow controller but for the flag that says it has news.
SameRx(r, q) ==
    /\ q.swm = r.swm /\ q.cwm = r.cwm /\ q.rwm = r.rwm /\ q.hwm = r.hwm
    /\ q.max = r.max /\ q.fin = r.fin /\ q.err = r.err /\ q.win = r.win

\* t after its frames f have been written, before the update.
Written(t, f, used, w) ==
    /\ w \in StRec
    /\ ~w.wantStop /\ ~w.wantReset
    /\ w.wantMaxStreamData = (t.wantMaxStreamData /\ f.maxStreamData = None)
    /\ w.rx.changed = (t.rx.changed /\ f.maxStreamData = None)
    /\ w.new = t.new \ f.bytes /\ w.sentFin = (t.sentFin \/ f.fin)
    /\ w.txSwm = t.txSwm + used
    /\ SameRx(t.rx, w.rx)
    /\ w.sendState = t.sendState /\ w.size = t.size /\ w.fin = t.fin
    /\ w.acked = t.acked /\ w.ackedFin = t.ackedFin /\ w.finalSize = t.finalSize
    /\ w.peerStop = t.peerStop /\ w.txCwm = t.txCwm
    /\ w.recvState = t.recvState /\ w.got = t.got /\ w.stop = t.stop
    /\ w.ackedStop = t.ackedStop /\ w.deleted = t.deleted
    /\ w.readyForGc = t.readyForGc

\* u becomes v when everything has been sent for the first time.
AllSent(u, v) ==
    /\ u.sendState = "SEND" /\ u.fin /\ u.new = {} /\ u.sentFin
    /\ v \in StRec /\ v.sendState = "DATA_SENT" /\ v.finalSize = u.size
    /\ SameRecv(u, v) /\ SameCredit(u, v) /\ SameBuffer(u, v)
    /\ v.wantReset = u.wantReset /\ v.peerStop = u.peerStop
    /\ v.ackedStop = u.ackedStop /\ v.deleted = u.deleted
    /\ v.readyForGc = u.readyForGc /\ v.active = u.active

LEMMA TxEffect ==
    ASSUME NEW t \in StRec, NEW c \in Int, NEW f \in FrameRec, NEW used \in Nat
    PROVE  \E w : /\ Written(t, f, used, w)
                  /\ \/ AfterTx(t, f, used, c) = UpdateState(w, c)
                     \/ AllSent(UpdateState(w, c), AfterTx(t, f, used, c))
<1>1. t.rx \in RxRec /\ t.txSwm \in Nat /\ t.new \in SUBSET Nat
      /\ t.sentFin \in BOOLEAN /\ t.wantMaxStreamData \in BOOLEAN
  BY DEF StRec
<1>2. f.fin \in BOOLEAN /\ f.bytes \in SUBSET Nat
  BY DEF FrameRec
<1>3. PICK m : m = (t.wantMaxStreamData /\ f.maxStreamData = None)
  OBVIOUS
<1>4. PICK h : h = (t.rx.changed /\ f.maxStreamData = None)
  OBVIOUS
<1>5. PICK A : A = t.new \ f.bytes
  OBVIOUS
<1>6. PICK b : b = (t.sentFin \/ f.fin)
  OBVIOUS
<1>7. PICK k : k = t.txSwm + used
  OBVIOUS
<1>8. m \in BOOLEAN /\ h \in BOOLEAN /\ A \in SUBSET Nat /\ b \in BOOLEAN /\ k \in Nat
  BY <1>1, <1>2, <1>3, <1>4, <1>5, <1>6, <1>7
<1>9. PICK q : q = [t.rx EXCEPT !.changed = h]
  OBVIOUS
<1>10. q \in RxRec /\ SameRx(t.rx, q) /\ q.changed = h
  BY <1>1, <1>8, <1>9 DEF RxRec, SameRx
<1> DEFINE w == [t EXCEPT !.wantStop = FALSE, !.wantReset = FALSE,
                          !.wantMaxStreamData = m, !.rx = q,
                          !.new = A, !.sentFin = b, !.txSwm = k]
           w0 == [t EXCEPT !.wantStop = FALSE, !.wantReset = FALSE,
                         !.wantMaxStreamData = @ /\ f.maxStreamData = None,
                         !.rx.changed = @ /\ f.maxStreamData = None,
                         !.new = @ \ f.bytes, !.sentFin = @ \/ f.fin,
                         !.txSwm = @ + used]
<1>11. w0 = w
  BY <1>3, <1>4, <1>5, <1>6, <1>7, <1>9
<1>12. w \in StRec
  BY <1>8, <1>10 DEF StRec
<1>13. /\ ~w.wantStop /\ ~w.wantReset /\ w.wantMaxStreamData = m /\ w.rx = q
       /\ w.new = A /\ w.sentFin = b /\ w.txSwm = k
       /\ w.sendState = t.sendState /\ w.size = t.size /\ w.fin = t.fin
       /\ w.acked = t.acked /\ w.ackedFin = t.ackedFin /\ w.finalSize = t.finalSize
       /\ w.peerStop = t.peerStop /\ w.txCwm = t.txCwm
       /\ w.recvState = t.recvState /\ w.got = t.got /\ w.stop = t.stop
       /\ w.ackedStop = t.ackedStop /\ w.deleted = t.deleted
       /\ w.readyForGc = t.readyForGc
  BY DEF StRec
<1> HIDE DEF w
<1>14. Written(t, f, used, w)
  BY <1>3, <1>4, <1>5, <1>6, <1>7, <1>10, <1>12, <1>13 DEF Written
<1>15. PICK u : u = UpdateState(w, c)
  OBVIOUS
<1>16. u \in StRec
  BY <1>12, <1>15, UpdateEffect
<1> DEFINE v == [u EXCEPT !.sendState = "DATA_SENT", !.finalSize = u.size]
<1>17. AfterTx(t, f, used, c) =
          IF u.sendState = "SEND" /\ u.fin /\ ~HasPending(u) THEN v ELSE u
  <2>1. AfterTx(t, f, used, c) =
          LET x == UpdateState(w0, c)
          IN  IF x.sendState = "SEND" /\ x.fin /\ ~HasPending(x)
              THEN [x EXCEPT !.sendState = "DATA_SENT", !.finalSize = x.size] ELSE x
    BY Zenon DEF AfterTx
  <2> HIDE DEF w0
  <2>2. u = UpdateState(w0, c)
    BY <1>11, <1>15
  <2> QED BY <2>1, <2>2
<1>18. v \in StRec
  BY <1>16 DEF StRec, SendStates
<1>19. /\ v.sendState = "DATA_SENT" /\ v.finalSize = u.size
       /\ SameRecv(u, v) /\ SameCredit(u, v) /\ SameBuffer(u, v)
       /\ v.wantReset = u.wantReset /\ v.peerStop = u.peerStop
       /\ v.ackedStop = u.ackedStop /\ v.deleted = u.deleted
       /\ v.readyForGc = u.readyForGc /\ v.active = u.active
  BY <1>16 DEF StRec, SameRecv, SameCredit, SameBuffer
<1> HIDE DEF v
<1>20. CASE u.sendState = "SEND" /\ u.fin /\ ~HasPending(u)
  <2>1. AllSent(u, v)
    BY <1>18, <1>19, <1>20 DEF AllSent, HasPending
  <2> QED BY <1>14, <1>15, <1>17, <1>20, <2>1
<1>21. CASE ~(u.sendState = "SEND" /\ u.fin /\ ~HasPending(u))
  BY <1>14, <1>15, <1>17, <1>21
<1> QED BY <1>20, <1>21

\* The largest of a nonempty bounded set of offsets.
LEMMA MaxOffset ==
    ASSUME NEW S \in SUBSET Nat, S # {}, NEW k \in Nat, S \subseteq 0..(k - 1)
    PROVE  Max(S) \in S /\ Max(S) \in Nat /\ \A b \in S : b <= Max(S)
<1>1. \A b \in S : b <= k
  OBVIOUS
<1>2. PICK m \in S : \A b \in S : b <= m
  BY <1>1, NatMax
<1>3. Max(S) \in S /\ \A b \in S : Max(S) >= b
  BY <1>2 DEF Max
<1> QED BY <1>3

-----------------------------------------------------------------------------
(* Receiving *)

\* The whole of the send part, and what else a received frame leaves alone.
SameSend(t, u) ==
    /\ u.sendState = t.sendState /\ SameBuffer(t, u) /\ SameCredit(t, u)
    /\ u.finalSize = t.finalSize /\ u.wantReset = t.wantReset
    /\ u.peerStop = t.peerStop /\ u.ackedStop = t.ackedStop
    /\ u.deleted = t.deleted /\ u.readyForGc = t.readyForGc

\* All that is still to be read has been received.
AllHere(t) == t.rx.rwm + Cardinality(Readable(t)) = t.rx.hwm

\* RESET_STREAM discards what has been received, unless it was all there and
\* read: t becomes x with the flow controller r.
AfterReset(t, r, x) ==
    /\ SameSend(t, x) /\ x.rx = r /\ x.stop = t.stop
    /\ x.wantMaxStreamData = t.wantMaxStreamData
    /\ \/ /\ t.recvState \in {"RECV", "SIZE_KNOWN", "DATA_RECVD"}
          /\ x.recvState = "RESET_RECVD" /\ ~x.wantStop /\ x.got = {}
       \/ /\ t.recvState \in {"DATA_READ", "RESET_RECVD", "RESET_READ"}
          /\ x.recvState = t.recvState /\ x.wantStop = t.wantStop
          /\ x.got = t.got

LEMMA RecvResetEffect ==
    ASSUME NEW t \in StRec, NEW c \in Int, NEW final,
           NEW r \in RxRec, r = OnRxStreamFrame(t.rx, final, TRUE), r.err = "NONE"
    PROVE  \E x \in StRec : RecvReset(t, final, c) = UpdateState(x, c) /\ AfterReset(t, r, x)
<1> DEFINE u == [t EXCEPT !.rx = r]
           v == [u EXCEPT !.recvState = "RESET_RECVD", !.wantStop = FALSE, !.got = {}]
<1>1. u \in StRec
  BY DEF StRec
<1>2. /\ SameSend(t, u) /\ u.rx = r /\ u.stop = t.stop
      /\ u.wantMaxStreamData = t.wantMaxStreamData
      /\ u.recvState = t.recvState /\ u.wantStop = t.wantStop /\ u.got = t.got
  BY DEF StRec, SameSend, SameBuffer, SameCredit
<1>3. RecvReset(t, final, c) =
          IF t.recvState \in {"RECV", "SIZE_KNOWN", "DATA_RECVD"}
          THEN UpdateState(v, c) ELSE UpdateState(u, c)
  BY DEF RecvReset
<1> HIDE DEF u
<1>4. v \in StRec
  BY <1>1 DEF StRec, RecvStates
<1>5. /\ SameSend(u, v) /\ v.rx = u.rx /\ v.stop = u.stop
      /\ v.wantMaxStreamData = u.wantMaxStreamData
      /\ v.recvState = "RESET_RECVD" /\ ~v.wantStop /\ v.got = {}
  BY <1>1 DEF StRec, SameSend, SameBuffer, SameCredit
<1> HIDE DEF v
<1>6. CASE t.recvState \in {"RECV", "SIZE_KNOWN", "DATA_RECVD"}
  <2>1. RecvReset(t, final, c) = UpdateState(v, c)
    BY <1>3, <1>6
  <2>2. SameSend(t, v) /\ v.rx = r /\ v.stop = t.stop
        /\ v.wantMaxStreamData = t.wantMaxStreamData
    BY <1>2, <1>5 DEF SameSend, SameBuffer, SameCredit
  <2> QED BY <1>4, <1>5, <1>6, <2>1, <2>2 DEF AfterReset
<1>7. CASE ~(t.recvState \in {"RECV", "SIZE_KNOWN", "DATA_RECVD"})
  <2>1. RecvReset(t, final, c) = UpdateState(u, c)
    BY <1>3, <1>7
  <2>2. t.recvState \in {"DATA_READ", "RESET_RECVD", "RESET_READ"}
    BY <1>7 DEF StRec, RecvStates
  <2> QED BY <1>1, <1>2, <2>1, <2>2 DEF AfterReset
<1> QED BY <1>6, <1>7

\* A STREAM frame: dropped in a closed state, its bytes dropped after
\* STOP_SENDING, else stored; with the last gap the stream is complete.
LEMMA RecvStreamEffect ==
    ASSUME NEW t \in StRec, NEW f \in FrameRec,
           NEW r \in RxRec, r = OnRxStreamFrame(t.rx, f.end, f.fin), r.err = "NONE",
           NEW v, v = RecvStream(t, f)
    PROVE  /\ v \in StRec /\ SameSend(t, v) /\ v.rx = r /\ v.stop = t.stop
           /\ v.active = t.active
           /\ v.wantMaxStreamData = t.wantMaxStreamData
           /\ \/ /\ t.recvState \notin {"RECV", "SIZE_KNOWN"}
                 /\ v.recvState = t.recvState /\ v.got = t.got
                 /\ v.wantStop = t.wantStop
              \/ /\ t.recvState \in {"RECV", "SIZE_KNOWN"} /\ t.stop
                 /\ v.recvState = (IF f.fin THEN "SIZE_KNOWN" ELSE t.recvState)
                 /\ v.got = t.got /\ v.wantStop = t.wantStop
              \/ /\ t.recvState \in {"RECV", "SIZE_KNOWN"} /\ ~t.stop
                 /\ v.got = t.got \cup (f.bytes \ 0..(t.rx.rwm - 1))
                 /\ \/ /\ v.recvState = (IF f.fin THEN "SIZE_KNOWN" ELSE t.recvState)
                       /\ v.wantStop = t.wantStop
                       /\ v.recvState = "SIZE_KNOWN" => ~AllHere(v)
                    \/ /\ f.fin \/ t.recvState = "SIZE_KNOWN"
                       /\ v.recvState = "DATA_RECVD" /\ ~v.wantStop
                       /\ AllHere(v)
<1>1. PICK rs : rs = (IF f.fin THEN "SIZE_KNOWN" ELSE t.recvState)
  OBVIOUS
<1>2. PICK g : g = t.got \cup (f.bytes \ 0..(t.rx.rwm - 1))
  OBVIOUS
<1>3. rs \in RecvStates /\ g \in SUBSET Nat
  <2>1. t.recvState \in RecvStates /\ t.got \in SUBSET Nat /\ f.bytes \in SUBSET Nat
    BY DEF StRec, FrameRec
  <2> QED BY <1>1, <1>2, <2>1 DEF RecvStates
<1> DEFINE d == [t EXCEPT !.rx = r]
           u == [t EXCEPT !.rx = r, !.recvState = rs]
           w == [u EXCEPT !.got = g]
           z == [w EXCEPT !.recvState = "DATA_RECVD", !.wantStop = FALSE]
<1>4. /\ d \in StRec /\ SameSend(t, d) /\ d.rx = r /\ d.stop = t.stop
      /\ d.active = t.active /\ d.wantMaxStreamData = t.wantMaxStreamData
      /\ d.recvState = t.recvState /\ d.got = t.got /\ d.wantStop = t.wantStop
  <2>1. d \in StRec
    BY DEF StRec
  <2>2. /\ SameSend(t, d) /\ d.rx = r /\ d.stop = t.stop
        /\ d.active = t.active /\ d.wantMaxStreamData = t.wantMaxStreamData
        /\ d.recvState = t.recvState /\ d.got = t.got /\ d.wantStop = t.wantStop
    BY DEF StRec, SameSend, SameBuffer, SameCredit
  <2> QED BY <2>1, <2>2
<1>5. /\ u \in StRec /\ SameSend(t, u) /\ u.rx = r /\ u.stop = t.stop
      /\ u.active = t.active /\ u.wantMaxStreamData = t.wantMaxStreamData
      /\ u.recvState = rs /\ u.got = t.got /\ u.wantStop = t.wantStop
  <2>1. u \in StRec
    BY <1>3 DEF StRec
  <2>2. /\ SameSend(t, u) /\ u.rx = r /\ u.stop = t.stop
        /\ u.active = t.active /\ u.wantMaxStreamData = t.wantMaxStreamData
        /\ u.recvState = rs /\ u.got = t.got /\ u.wantStop = t.wantStop
    BY DEF StRec, SameSend, SameBuffer, SameCredit
  <2> QED BY <2>1, <2>2
<1>6. v = IF t.recvState \notin {"RECV", "SIZE_KNOWN"} THEN d
          ELSE IF t.stop THEN u
          ELSE IF FinReadable(w) THEN z ELSE w
  <2>1. u.got = t.got
    BY <1>5
  <2> QED BY <1>1, <1>2, <2>1 DEF RecvStream
<1> HIDE DEF d, u
<1>7. /\ w \in StRec /\ SameSend(u, w) /\ w.rx = u.rx /\ w.stop = u.stop
      /\ w.active = u.active /\ w.wantMaxStreamData = u.wantMaxStreamData
      /\ w.recvState = u.recvState /\ w.got = g /\ w.wantStop = u.wantStop
  <2>1. w \in StRec
    BY <1>3, <1>5 DEF StRec
  <2>2. /\ SameSend(u, w) /\ w.rx = u.rx /\ w.stop = u.stop
        /\ w.active = u.active /\ w.wantMaxStreamData = u.wantMaxStreamData
        /\ w.recvState = u.recvState /\ w.got = g /\ w.wantStop = u.wantStop
    BY <1>5 DEF StRec, SameSend, SameBuffer, SameCredit
  <2> QED BY <2>1, <2>2
<1> HIDE DEF w
<1>8. /\ z \in StRec /\ SameSend(w, z) /\ z.rx = w.rx /\ z.stop = w.stop
      /\ z.active = w.active /\ z.wantMaxStreamData = w.wantMaxStreamData
      /\ z.recvState = "DATA_RECVD" /\ z.got = w.got /\ ~z.wantStop
  <2>1. z \in StRec
    BY <1>7 DEF StRec, RecvStates
  <2>2. /\ SameSend(w, z) /\ z.rx = w.rx /\ z.stop = w.stop
        /\ z.active = w.active /\ z.wantMaxStreamData = w.wantMaxStreamData
        /\ z.recvState = "DATA_RECVD" /\ z.got = w.got /\ ~z.wantStop
    BY <1>7 DEF StRec, SameSend, SameBuffer, SameCredit
  <2> QED BY <2>1, <2>2
<1> HIDE DEF z
<1>9. SameSend(t, w) /\ SameSend(t, z)
  BY <1>5, <1>7, <1>8 DEF SameSend, SameBuffer, SameCredit
<1>10. CASE t.recvState \notin {"RECV", "SIZE_KNOWN"}
  BY <1>4, <1>6, <1>10
<1>11. CASE t.recvState \in {"RECV", "SIZE_KNOWN"} /\ t.stop
  BY <1>1, <1>5, <1>6, <1>11
<1>12. CASE t.recvState \in {"RECV", "SIZE_KNOWN"} /\ ~t.stop
  <2>1. CASE FinReadable(w)
    <3>1. v = z
      BY <1>6, <1>12, <2>1
    <3>2. w.recvState \in {"SIZE_KNOWN", "DATA_RECVD"} /\ AllHere(w)
      BY <2>1 DEF FinReadable, AllHere
    <3>3. AllHere(z)
      BY <1>8, <3>2 DEF AllHere, Readable
    <3>4. f.fin \/ t.recvState = "SIZE_KNOWN"
      BY <1>1, <1>5, <1>7, <1>12, <3>2
    <3>5. z.rx = r /\ z.stop = t.stop /\ z.active = t.active
          /\ z.wantMaxStreamData = t.wantMaxStreamData /\ z.got = g
      BY <1>5, <1>7, <1>8
    <3> QED BY <1>2, <1>8, <1>9, <1>12, <3>1, <3>3, <3>4, <3>5
  <2>2. CASE ~FinReadable(w)
    <3>1. v = w
      BY <1>6, <1>12, <2>2
    <3>2. w.recvState = "SIZE_KNOWN" => ~AllHere(w)
      BY <2>2 DEF FinReadable, AllHere
    <3>3. w.rx = r /\ w.stop = t.stop /\ w.active = t.active
          /\ w.wantMaxStreamData = t.wantMaxStreamData /\ w.got = g
          /\ w.recvState = rs /\ w.wantStop = t.wantStop
      BY <1>5, <1>7
    <3> QED BY <1>1, <1>2, <1>7, <1>9, <1>12, <3>1, <3>2, <3>3
  <2> QED BY <2>1, <2>2
<1> QED BY <1>10, <1>11, <1>12

-----------------------------------------------------------------------------
ConnRec == [txSwm : Nat, txCwm : Nat, rx : RxRec, wantMaxData : BOOLEAN]

FrameSet == [Stream -> FrameRec]

PktRec == [from : End, maxData : Int, str : FrameSet, onWire : BOOLEAN,
           inflight : BOOLEAN]

-----------------------------------------------------------------------------
(* The inductive invariant *)

\* The sender can say no more: it has reset the stream, or all its bytes are
\* sent and concluded.
Ended(t) == SendIsReset(t) \/ (t.fin /\ t.size = t.txSwm)

\* One end by itself, as a sender and as a receiver.
SendOK(t) ==
    /\ t.txSwm <= t.size /\ t.size <= MaxSize /\ t.finalSize <= MaxSize
    /\ t.new \subseteq 0..(t.size - 1)
    /\ t.acked \subseteq 0..(t.size - 1)
    /\ HasSStream(t) => t.txSwm..(t.size - 1) \subseteq t.new
    /\ t.sendState \in {"DATA_SENT", "DATA_RECVD", "RESET_SENT", "RESET_RECVD"}
        => t.finalSize = t.txSwm
    /\ t.sendState \in {"DATA_SENT", "DATA_RECVD"} => t.fin /\ t.size = t.txSwm
    /\ t.wantReset => SendIsReset(t)

RxOK(t) ==
    /\ t.rx.rwm <= t.rx.hwm /\ t.rx.swm = t.rx.hwm /\ t.rx.err = "NONE"
    /\ t.rx.max = StreamMaxWnd /\ t.rx.cwm - t.rx.rwm <= StreamMaxWnd
    /\ t.got \subseteq t.rx.rwm..(t.rx.hwm - 1)

LocalOK(t) == SendOK(t) /\ RxOK(t)

\* A sender t and its receiver q: what q has counted t has sent, within the
\* credit t knows of, which q has granted.
FlowOK(t, q) ==
    /\ q.rx.hwm <= t.txSwm /\ t.txSwm <= t.txCwm /\ t.txCwm <= q.rx.cwm
    /\ q.rx.fin => Ended(t) /\ q.rx.hwm = t.txSwm

\* The frames f of a packet under way, and their sender t.
FrameOK(t, f) ==
    /\ f.end <= t.txSwm
    /\ f.bytes \subseteq 0..(f.end - 1)
    /\ f.maxStreamData <= t.rx.cwm
    /\ f.fin => Ended(t) /\ f.end = t.txSwm
    /\ f.reset # None => SendIsReset(t) /\ f.reset = t.txSwm

Types ==
    /\ st \in [End -> [Stream -> StRec]]
    /\ conn \in [End -> ConnRec]
    /\ pkt \in [Slot -> PktRec \cup {NoPkt}]
    /\ error \in [End -> Errors]

StreamInv ==
    \A e \in End, s \in Stream :
        LocalOK(st[e][s]) /\ FlowOK(st[e][s], st[Peer(e)][s])

PacketInv ==
    \A i \in Slot : pkt[i] # NoPkt =>
        \A s \in Stream : FrameOK(st[pkt[i].from][s], pkt[i].str[s])

ConnInv ==
    \A e \in End :
        /\ conn[e].txSwm <= conn[e].txCwm
        /\ conn[e].txCwm <= conn[Peer(e)].rx.cwm
        /\ conn[e].rx.max = ConnMaxWnd
        /\ conn[e].rx.cwm - conn[e].rx.rwm <= ConnMaxWnd

\* A MAX_DATA frame promises no more than its sender has granted, and once it
\* has arrived its receiver knows of the credit.
MaxDataInv ==
    \A i \in Slot : pkt[i] # NoPkt =>
        /\ pkt[i].maxData <= conn[pkt[i].from].rx.cwm
        /\ pkt[i].onWire \/ pkt[i].maxData <= conn[Peer(pkt[i].from)].txCwm

FlowInv ==
    /\ Types /\ StreamInv /\ PacketInv /\ ConnInv /\ MaxDataInv
    /\ NoProtocolError /\ ConnAccounting /\ ConnCreditNotForgotten

-----------------------------------------------------------------------------
(* Constants and shapes *)

LEMMA PeerFacts ==
    ASSUME NEW e \in End
    PROVE  /\ Peer(e) \in End /\ Peer(e) # e /\ Peer(Peer(e)) = e
           /\ \A p \in End : p = e \/ p = Peer(e)
<1>1. PICK p \in End : End = {e, p} /\ p # e
  BY EndAssumption
<1>2. Peer(e) = p /\ Peer(p) = e
  BY <1>1 DEF Peer
<1> QED BY <1>1, <1>2

LEMMA NoPktIsNone == ASSUME NEW p \in PktRec PROVE p # NoPkt
<1>1. DOMAIN p = {"from", "maxData", "str", "onWire", "inflight"}
  BY DEF PktRec
<1>2. DOMAIN NoPkt = {"from"}
  BY DEF NoPkt
<1> QED BY <1>1, <1>2

\* The fields of a stream have their types.
LEMMA StFields ==
    ASSUME NEW t \in StRec
    PROVE  /\ t.txSwm \in Nat /\ t.txCwm \in Nat /\ t.size \in Nat
           /\ t.finalSize \in Nat /\ t.new \in SUBSET Nat /\ t.acked \in SUBSET Nat
           /\ t.got \in SUBSET Nat /\ t.rx \in RxRec
           /\ t.rx.swm \in Nat /\ t.rx.cwm \in Nat /\ t.rx.rwm \in Nat
           /\ t.rx.hwm \in Nat /\ t.rx.max \in Nat
           /\ t.fin \in BOOLEAN /\ t.sendState \in SendStates
           /\ t.recvState \in RecvStates /\ t.rx.fin \in BOOLEAN
<1>1. t.rx \in RxRec
  BY DEF StRec
<1>2. /\ t.rx.swm \in Nat /\ t.rx.cwm \in Nat /\ t.rx.rwm \in Nat
      /\ t.rx.hwm \in Nat /\ t.rx.max \in Nat /\ t.rx.fin \in BOOLEAN
  BY <1>1 DEF RxRec
<1>3. /\ t.txSwm \in Nat /\ t.txCwm \in Nat /\ t.size \in Nat
      /\ t.finalSize \in Nat /\ t.new \in SUBSET Nat /\ t.acked \in SUBSET Nat
      /\ t.got \in SUBSET Nat /\ t.fin \in BOOLEAN /\ t.sendState \in SendStates
      /\ t.recvState \in RecvStates
  BY DEF StRec
<1> QED BY <1>1, <1>2, <1>3

-----------------------------------------------------------------------------
(* Handlers that neither send nor receive *)

\* t becomes u: the credit and what has been received stay, and a sender that
\* can say no more stays so.
Quiet(t, u) ==
    /\ u \in StRec /\ LocalOK(u)
    /\ u.rx = t.rx /\ SameCredit(t, u)
    /\ Ended(t) => Ended(u)
    /\ SendIsReset(t) => SendIsReset(u)

LEMMA QuietRefl == ASSUME NEW t \in StRec, LocalOK(t) PROVE Quiet(t, t)
BY DEF Quiet, SameCredit

LEMMA QuietTrans ==
    ASSUME NEW t, NEW u, NEW v, Quiet(t, u), Quiet(u, v)
    PROVE  Quiet(t, v)
BY DEF Quiet, SameCredit

LEMMA QuietUpdate ==
    ASSUME NEW t \in StRec, NEW c \in Int, LocalOK(t)
    PROVE  Quiet(t, UpdateState(t, c))
<1>1. PICK u : u = UpdateState(t, c)
  OBVIOUS
<1>2. u \in StRec /\ SameRecv(t, u) /\ SameCredit(t, u)
  BY <1>1, UpdateEffect
<1>3. /\ u.size = t.size /\ u.fin = t.fin /\ u.finalSize = t.finalSize
      /\ u.wantReset = t.wantReset
      /\ \/ u.sendState = t.sendState /\ u.new = t.new /\ u.acked = t.acked
         \/ /\ t.sendState = "DATA_SENT" /\ u.sendState = "DATA_RECVD"
            /\ u.new = {} /\ u.acked = {}
  BY <1>1, UpdateEffect
<1>4. SendOK(u)
  BY <1>2, <1>3 DEF LocalOK, SendOK, SameCredit, HasSStream, SendIsReset
<1>5. RxOK(u)
  BY <1>2 DEF LocalOK, RxOK, SameRecv
<1>6. (Ended(t) => Ended(u)) /\ (SendIsReset(t) => SendIsReset(u))
  BY <1>2, <1>3 DEF Ended, SendIsReset, SameCredit
<1> QED BY <1>1, <1>2, <1>4, <1>5, <1>6 DEF Quiet, LocalOK, SameRecv

LEMMA QuietReset ==
    ASSUME NEW t \in StRec, NEW c \in Int, LocalOK(t)
    PROVE  Quiet(t, ResetSendPart(t, c))
<1>1. PICK u : u = ResetSendPart(t, c)
  OBVIOUS
<1>2. u \in StRec /\ SameRecv(t, u) /\ SameCredit(t, u)
  BY <1>1, ResetEffect
<1>3. /\ u.size = t.size /\ u.fin = t.fin
      /\ \/ u = t
         \/ /\ u.sendState = "RESET_SENT" /\ u.new = {} /\ u.acked = {}
            /\ t.sendState = "DATA_SENT" => u.finalSize = t.finalSize
            /\ t.sendState # "DATA_SENT" => u.finalSize = t.txSwm
  BY <1>1, ResetEffect
<1>4. CASE u = t
  BY <1>1, <1>4, QuietRefl
<1>5. CASE u # t
  <2>1. SendOK(t) /\ t.txSwm \in Nat /\ t.size \in Nat /\ MaxSize \in Nat
    BY StFields, MaxSizeAssumption DEF LocalOK
  <2>2. u.finalSize = t.txSwm
    BY <1>3, <1>5, <2>1 DEF SendOK
  <2>3. SendOK(u)
    BY <1>2, <1>3, <1>5, <2>1, <2>2 DEF SendOK, SameCredit, HasSStream, SendIsReset
  <2>4. RxOK(u)
    BY <1>2 DEF LocalOK, RxOK, SameRecv
  <2>5. SendIsReset(u) /\ Ended(u)
    BY <1>3, <1>5 DEF Ended, SendIsReset
  <2> QED BY <1>1, <1>2, <2>3, <2>4, <2>5 DEF Quiet, LocalOK, SameRecv
<1> QED BY <1>4, <1>5

\* A change of flags that the invariant does not speak of.
LEMMA QuietFlags ==
    ASSUME NEW t \in StRec, LocalOK(t), NEW x \in StRec,
           SameCredit(t, x), SameBuffer(t, x), x.sendState = t.sendState,
           x.finalSize = t.finalSize, x.wantReset = t.wantReset, x.got = t.got,
           x.rx = t.rx
    PROVE  Quiet(t, x)
<1>1. SendOK(x)
  BY DEF LocalOK, SendOK, SameCredit, SameBuffer, HasSStream, SendIsReset
<1>2. RxOK(x)
  BY DEF LocalOK, RxOK
<1> QED BY <1>1, <1>2 DEF Quiet, LocalOK, Ended, SendIsReset, SameCredit, SameBuffer

LEMMA QuietStop ==
    ASSUME NEW t \in StRec, NEW c \in Int, LocalOK(t)
    PROVE  Quiet(t, ScheduleStopSending(t, c))
<1>1. CASE ScheduleStopSending(t, c) = t
  BY <1>1, QuietRefl
<1>2. CASE ScheduleStopSending(t, c) # t
  <2>1. PICK x \in StRec :
          /\ ScheduleStopSending(t, c) = UpdateState(x, c)
          /\ SameCredit(t, x) /\ SameBuffer(t, x)
          /\ x.sendState = t.sendState /\ x.finalSize = t.finalSize
          /\ x.wantReset = t.wantReset /\ x.got = t.got /\ x.rx = t.rx
    BY <1>2, ScheduleStopEffect
  <2>2. Quiet(t, x)
    BY <2>1, QuietFlags
  <2>3. Quiet(x, UpdateState(x, c))
    BY <2>2, QuietUpdate DEF Quiet
  <2> QED BY <2>1, <2>2, <2>3, QuietTrans
<1> QED BY <1>1, <1>2

\* The application writes, perhaps with a FIN.
LEMMA QuietWrite ==
    ASSUME NEW t \in StRec, NEW c \in Int, LocalOK(t), NEW n \in Nat,
           NEW conclude \in BOOLEAN,
           t.sendState \in {"READY", "SEND"}, ~t.fin, t.size + n <= MaxSize
    PROVE  Quiet(t, [UpdateState([t EXCEPT !.sendState = "SEND", !.size = @ + n,
                             !.new = @ \cup t.size..(t.size + n - 1)], c)
                       EXCEPT !.fin = conclude])
<1> DEFINE a == [t EXCEPT !.sendState = "SEND", !.size = @ + n,
                          !.new = @ \cup t.size..(t.size + n - 1)]
<1>1. t.size \in Nat /\ t.new \in SUBSET Nat /\ t.txSwm \in Nat /\ MaxSize \in Nat
  BY StFields, MaxSizeAssumption
<1>2. a \in StRec
  <2>1. t.size + n \in Nat /\ t.new \cup t.size..(t.size + n - 1) \in SUBSET Nat
    BY <1>1
  <2> QED BY <2>1 DEF StRec, SendStates
<1>3. /\ a.sendState = "SEND" /\ a.size = t.size + n
      /\ a.new = t.new \cup t.size..(t.size + n - 1)
      /\ SameRecv(t, a) /\ SameCredit(t, a)
      /\ a.acked = t.acked /\ a.fin = t.fin
      /\ a.finalSize = t.finalSize /\ a.wantReset = t.wantReset
  BY DEF StRec, SameRecv, SameCredit
<1> HIDE DEF a
<1>4. SendOK(t) /\ RxOK(t)
  BY DEF LocalOK
<1>5. SendOK(a)
  <2>1. a.txSwm <= a.size /\ a.size <= MaxSize /\ a.finalSize <= MaxSize
    BY <1>1, <1>3, <1>4 DEF SendOK, SameCredit
  <2>2. a.new \subseteq 0..(a.size - 1)
    BY <1>1, <1>3, <1>4 DEF SendOK
  <2>3. a.acked \subseteq 0..(a.size - 1)
    BY <1>1, <1>3, <1>4 DEF SendOK
  <2>4. a.txSwm..(a.size - 1) \subseteq a.new
    BY <1>1, <1>3, <1>4 DEF SendOK, SameCredit, HasSStream
  <2>5. ~a.wantReset
    BY <1>3, <1>4 DEF SendOK, SendIsReset
  <2> QED BY <1>3, <2>1, <2>2, <2>3, <2>4, <2>5 DEF SendOK
<1>6. LocalOK(a)
  BY <1>3, <1>4, <1>5 DEF LocalOK, RxOK, SameRecv
<1>7. PICK u : u = UpdateState(a, c)
  OBVIOUS
<1>8. Quiet(a, u)
  BY <1>2, <1>6, <1>7, QuietUpdate
<1>9. u.sendState = "SEND"
  BY <1>2, <1>3, <1>7, UpdateEffect
<1> DEFINE v == [u EXCEPT !.fin = conclude]
<1>10. u \in StRec
  BY <1>8 DEF Quiet
<1>11. v \in StRec
  BY <1>10 DEF StRec
<1>12. /\ SameRecv(u, v) /\ SameCredit(u, v)
       /\ v.size = u.size /\ v.new = u.new /\ v.acked = u.acked
       /\ v.finalSize = u.finalSize /\ v.wantReset = u.wantReset
       /\ v.sendState = u.sendState
  BY <1>10 DEF StRec, SameRecv, SameCredit
<1>13. v = [UpdateState(a, c) EXCEPT !.fin = conclude]
  BY <1>7
<1> HIDE DEF v
<1>14. SendOK(v)
  BY <1>8, <1>9, <1>12 DEF Quiet, LocalOK, SendOK, SameCredit, HasSStream, SendIsReset
<1>15. RxOK(v)
  BY <1>8, <1>12 DEF Quiet, LocalOK, RxOK, SameRecv
<1>16. v.rx = t.rx /\ SameCredit(t, v)
  BY <1>3, <1>8, <1>12 DEF Quiet, SameCredit, SameRecv
<1>17. ~Ended(t) /\ ~SendIsReset(t)
  BY DEF Ended, SendIsReset
<1>18. Quiet(t, v)
  BY <1>11, <1>14, <1>15, <1>16, <1>17 DEF Quiet, LocalOK
<1> QED BY <1>13, <1>18 DEF a

\* The application concludes, with or without an update of the stream.
LEMMA QuietConclude ==
    ASSUME NEW t \in StRec, NEW c \in Int, LocalOK(t),
           t.sendState \in {"READY", "SEND"}, ~t.fin
    PROVE  Quiet(t, UpdateState([t EXCEPT !.sendState = "SEND", !.fin = TRUE], c))
<1> DEFINE a == [t EXCEPT !.sendState = "SEND", !.fin = TRUE]
<1>1. a \in StRec
  BY DEF StRec, SendStates
<1>2. /\ a.sendState = "SEND" /\ a.size = t.size /\ a.new = t.new
      /\ SameRecv(t, a) /\ SameCredit(t, a) /\ a.acked = t.acked
      /\ a.finalSize = t.finalSize /\ a.wantReset = t.wantReset
  BY DEF StRec, SameRecv, SameCredit
<1> HIDE DEF a
<1>3. SendOK(a)
  BY <1>2 DEF LocalOK, SendOK, SameCredit, HasSStream, SendIsReset
<1>4. RxOK(a)
  BY <1>2 DEF LocalOK, RxOK, SameRecv
<1>5. ~Ended(t) /\ ~SendIsReset(t)
  BY DEF Ended, SendIsReset
<1>6. Quiet(t, a)
  BY <1>1, <1>2, <1>3, <1>4, <1>5 DEF Quiet, LocalOK, SameRecv
<1>7. Quiet(a, UpdateState(a, c))
  BY <1>1, <1>3, <1>4, QuietUpdate DEF LocalOK
<1>8. Quiet(t, UpdateState(a, c))
  BY <1>6, <1>7, QuietTrans
<1> QED BY <1>8 DEF a

LEMMA QuietEmptyWrite ==
    ASSUME NEW t \in StRec, LocalOK(t), HasSStream(t), ~t.fin
    PROVE  Quiet(t, [t EXCEPT !.fin = TRUE])
<1> DEFINE a == [t EXCEPT !.fin = TRUE]
<1>1. a \in StRec
  BY DEF StRec
<1>2. /\ a.sendState = t.sendState /\ a.size = t.size /\ a.new = t.new
      /\ SameRecv(t, a) /\ SameCredit(t, a) /\ a.acked = t.acked
      /\ a.finalSize = t.finalSize /\ a.wantReset = t.wantReset
  BY DEF StRec, SameRecv, SameCredit
<1> HIDE DEF a
<1>3. t.sendState \in {"READY", "SEND"}
  BY DEF LocalOK, SendOK, HasSStream
<1>4. SendOK(a)
  BY <1>2, <1>3 DEF LocalOK, SendOK, SameCredit, HasSStream, SendIsReset
<1>5. RxOK(a)
  BY <1>2 DEF LocalOK, RxOK, SameRecv
<1>6. ~Ended(t) /\ ~SendIsReset(t)
  BY <1>3 DEF Ended, SendIsReset
<1>7. Quiet(t, a)
  BY <1>1, <1>2, <1>4, <1>5, <1>6 DEF Quiet, LocalOK, SameRecv
<1> QED BY <1>7 DEF a

\* The application lets go of a stream.
LEMMA QuietFree ==
    ASSUME NEW t \in StRec, NEW c \in Int, LocalOK(t)
    PROVE  LET r == IF t.sendState \in {"READY", "SEND"} /\ ~t.fin
                    THEN ResetSendPart(t, c) ELSE t
               p == IF r.recvState \in {"RECV", "SIZE_KNOWN"} /\ ~r.stop
                    THEN ScheduleStopSending([r EXCEPT !.stop = TRUE], c) ELSE r
           IN  Quiet(t, UpdateState([p EXCEPT !.deleted = TRUE], c))
<1> DEFINE r == IF t.sendState \in {"READY", "SEND"} /\ ~t.fin
                THEN ResetSendPart(t, c) ELSE t
           x == [r EXCEPT !.stop = TRUE]
           p == IF r.recvState \in {"RECV", "SIZE_KNOWN"} /\ ~r.stop
                THEN ScheduleStopSending(x, c) ELSE r
           y == [p EXCEPT !.deleted = TRUE]
<1>1. Quiet(t, r)
  BY QuietRefl, QuietReset
<1> HIDE DEF r
<1>2. r \in StRec /\ LocalOK(r)
  BY <1>1 DEF Quiet
<1>3. x \in StRec
  BY <1>2 DEF StRec
<1>4. Quiet(r, x)
  <2>1. /\ SameCredit(r, x) /\ SameBuffer(r, x) /\ x.sendState = r.sendState
        /\ x.finalSize = r.finalSize /\ x.wantReset = r.wantReset
        /\ x.got = r.got /\ x.rx = r.rx
    BY <1>2 DEF StRec, SameCredit, SameBuffer
  <2> HIDE DEF x
  <2> QED BY <1>2, <1>3, <2>1, QuietFlags
<1> HIDE DEF x
<1>5. Quiet(x, ScheduleStopSending(x, c))
  BY <1>3, <1>4, QuietStop DEF Quiet
<1>6. Quiet(t, p)
  <2>1. Quiet(t, ScheduleStopSending(x, c))
    BY <1>1, <1>4, <1>5, QuietTrans
  <2> QED BY <1>1, <2>1
<1> HIDE DEF p
<1>7. p \in StRec /\ LocalOK(p)
  BY <1>6 DEF Quiet
<1>8. y \in StRec
  BY <1>7 DEF StRec
<1>9. Quiet(p, y)
  <2>1. /\ SameCredit(p, y) /\ SameBuffer(p, y) /\ y.sendState = p.sendState
        /\ y.finalSize = p.finalSize /\ y.wantReset = p.wantReset
        /\ y.got = p.got /\ y.rx = p.rx
    BY <1>7 DEF StRec, SameCredit, SameBuffer
  <2> HIDE DEF y
  <2> QED BY <1>7, <1>8, <2>1, QuietFlags
<1> HIDE DEF y
<1>10. Quiet(y, UpdateState(y, c))
  BY <1>8, <1>9, QuietUpdate DEF Quiet
<1>11. Quiet(t, UpdateState(y, c))
  BY <1>6, <1>9, <1>10, QuietTrans
<1> QED BY <1>11 DEF y, p, x, r

LEMMA QuietReadReset ==
    ASSUME NEW t \in StRec, LocalOK(t)
    PROVE  Quiet(t, [t EXCEPT !.recvState = "RESET_READ"])
<1> DEFINE x == [t EXCEPT !.recvState = "RESET_READ"]
<1>1. x \in StRec
  BY DEF StRec, RecvStates
<1>2. /\ SameCredit(t, x) /\ SameBuffer(t, x) /\ x.sendState = t.sendState
      /\ x.finalSize = t.finalSize /\ x.wantReset = t.wantReset
      /\ x.got = t.got /\ x.rx = t.rx
  BY DEF StRec, SameCredit, SameBuffer
<1> HIDE DEF x
<1>3. Quiet(t, x)
  BY <1>1, <1>2, QuietFlags
<1> QED BY <1>3 DEF x

\* The bytes of a frame under way are bytes of its stream.
LEMMA FrameBytes ==
    ASSUME NEW t \in StRec, LocalOK(t), NEW f \in FrameRec, FrameOK(t, f)
    PROVE  f.bytes \subseteq 0..(t.size - 1)
<1>1. f.end <= t.txSwm /\ t.txSwm <= t.size /\ f.bytes \subseteq 0..(f.end - 1)
  BY DEF FrameOK, LocalOK, SendOK
<1>2. t.txSwm \in Nat /\ t.size \in Nat /\ f.end \in Int
  BY StFields DEF FrameRec
<1> QED BY <1>1, <1>2

\* A packet of the stream is acknowledged.
LEMMA QuietAcked ==
    ASSUME NEW t \in StRec, NEW c \in Int, LocalOK(t), NEW f \in FrameRec,
           FrameOK(t, f)
    PROVE  Quiet(t, OnAcked(t, f, c))
<1>1. CASE OnAcked(t, f, c) = t
  BY <1>1, QuietRefl
<1>2. CASE OnAcked(t, f, c) # t
  <2>1. PICK u \in StRec :
          /\ OnAcked(t, f, c) \in {u, UpdateState(u, c)}
          /\ u.acked = t.acked \cup f.bytes
          /\ SameRecv(t, u) /\ SameCredit(t, u)
          /\ u.sendState = t.sendState /\ u.size = t.size
          /\ u.fin = t.fin /\ u.new = t.new
          /\ u.finalSize = t.finalSize /\ u.wantReset = t.wantReset
    BY <1>2, AckedEffect
  <2>2. SendOK(u)
    BY <2>1, FrameBytes DEF LocalOK, SendOK, SameCredit, HasSStream, SendIsReset
  <2>3. RxOK(u)
    BY <2>1 DEF LocalOK, RxOK, SameRecv
  <2>4. Quiet(t, u)
    BY <2>1, <2>2, <2>3 DEF Quiet, LocalOK, Ended, SendIsReset, SameRecv, SameCredit
  <2>5. Quiet(u, UpdateState(u, c))
    BY <2>2, <2>3, QuietUpdate DEF LocalOK
  <2>6. Quiet(t, UpdateState(u, c))
    BY <2>4, <2>5, QuietTrans
  <2> QED BY <2>1, <2>4, <2>6
<1> QED BY <1>1, <1>2

\* A packet of the stream is taken as lost.
LEMMA QuietLost ==
    ASSUME NEW t \in StRec, NEW c \in Int, LocalOK(t), NEW f \in FrameRec,
           FrameOK(t, f)
    PROVE  Quiet(t, OnLost(t, f, c))
<1>1. CASE OnLost(t, f, c) = t
  BY <1>1, QuietRefl
<1>2. CASE OnLost(t, f, c) # t
  <2>1. HasSStream(t)
    BY <1>2, LostEffect
  <2>2. PICK u \in StRec :
          /\ OnLost(t, f, c) \in {UpdateState(u, c),
                                  UpdateState(ScheduleStopSending(u, c), c)}
          /\ u.new = t.new \cup f.bytes
          /\ u.wantReset = (t.wantReset \/ f.reset # None)
          /\ u.acked = t.acked /\ SameCredit(t, u)
          /\ u.sendState = t.sendState /\ u.size = t.size
          /\ u.fin = t.fin /\ u.finalSize = t.finalSize
          /\ u.got = t.got /\ u.rx = t.rx
    BY <1>2, LostEffect
  <2>3. f.reset = None
    BY <2>1 DEF FrameOK, HasSStream, SendIsReset
  <2>4. SendOK(u)
    BY <2>2, <2>3, FrameBytes DEF LocalOK, SendOK, SameCredit, HasSStream, SendIsReset
  <2>5. RxOK(u)
    BY <2>2 DEF LocalOK, RxOK
  <2>6. Quiet(t, u)
    BY <2>2, <2>4, <2>5 DEF Quiet, LocalOK, Ended, SendIsReset, SameCredit
  <2>7. Quiet(u, UpdateState(u, c))
    BY <2>4, <2>5, QuietUpdate DEF LocalOK
  <2>8. PICK w : w = ScheduleStopSending(u, c)
    OBVIOUS
  <2>9. Quiet(u, w)
    BY <2>4, <2>5, <2>8, QuietStop DEF LocalOK
  <2>10. Quiet(w, UpdateState(w, c))
    BY <2>9, QuietUpdate DEF Quiet
  <2>11. Quiet(t, UpdateState(u, c)) /\ Quiet(t, UpdateState(w, c))
    BY <2>6, <2>7, <2>9, <2>10, QuietTrans
  <2> QED BY <2>2, <2>8, <2>11
<1> QED BY <1>1, <1>2

-----------------------------------------------------------------------------
(* Reading, sending and receiving *)

\* What any step does to the sender of a packet that is under way.
Adv(t, u) ==
    /\ u.txSwm >= t.txSwm
    /\ u.rx.cwm >= t.rx.cwm
    /\ Ended(t) => Ended(u) /\ u.txSwm = t.txSwm
    /\ SendIsReset(t) => SendIsReset(u)

LEMMA QuietAdv ==
    ASSUME NEW t \in StRec, NEW u, Quiet(t, u)
    PROVE  Adv(t, u)
BY StFields DEF Quiet, Adv, SameCredit

LEMMA FrameStable ==
    ASSUME NEW t \in StRec, NEW u \in StRec, NEW f \in FrameRec, Adv(t, u),
           FrameOK(t, f)
    PROVE  FrameOK(u, f)
<1>1. /\ t.txSwm \in Nat /\ u.txSwm \in Nat /\ t.rx.cwm \in Nat /\ u.rx.cwm \in Nat
      /\ f.end \in Int /\ f.maxStreamData \in Int
  BY StFields DEF FrameRec
<1>2. SendIsReset(t) => Ended(t)
  BY DEF Ended
<1> QED BY <1>1, <1>2 DEF Adv, FrameOK

\* The application has read n bytes of t, which becomes v.
ReadDone(t, n, v) ==
    /\ v \in StRec /\ LocalOK(v) /\ Adv(t, v)
    /\ SameCredit(t, v) /\ (Ended(t) => Ended(v))
    /\ v.rx.hwm = t.rx.hwm /\ v.rx.swm = t.rx.swm /\ v.rx.fin = t.rx.fin
    /\ v.rx.rwm = t.rx.rwm + n /\ v.rx.cwm >= t.rx.cwm

LEMMA ReadEffect ==
    ASSUME NEW t \in StRec, NEW c \in Int, LocalOK(t), NEW n \in Nat,
           NEW double \in BOOLEAN, n <= Cardinality(Readable(t)),
           NEW rs \in RecvStates
    PROVE  LET rx == RxRetire(t.rx, n, 0, double)
               u  == [t EXCEPT !.rx = IF n = 0 THEN @ ELSE rx,
                               !.got = @ \ t.rx.rwm..(t.rx.rwm + n - 1),
                               !.recvState = rs]
               v  == IF n = 0 THEN u ELSE UpdateState(u, c)
           IN  ReadDone(t, n, v) /\ rx.win \in Nat
<1> DEFINE rx == RxRetire(t.rx, n, 0, double)
           nrx == IF n = 0 THEN t.rx ELSE rx
           ngot == t.got \ t.rx.rwm..(t.rx.rwm + n - 1)
           u  == [t EXCEPT !.rx = IF n = 0 THEN @ ELSE rx,
                           !.got = @ \ t.rx.rwm..(t.rx.rwm + n - 1),
                           !.recvState = rs]
           v  == IF n = 0 THEN u ELSE UpdateState(u, c)
<1>1. /\ t.rx \in RxRec /\ t.rx.cwm \in Nat /\ t.rx.rwm \in Nat /\ t.rx.hwm \in Nat
      /\ t.rx.max \in Nat /\ t.got \in SUBSET Nat /\ t.txSwm \in Nat
  BY StFields
<1>2. RxOK(t) /\ SendOK(t)
  BY DEF LocalOK
<1>3. t.rx.cwm - t.rx.rwm <= t.rx.max
  BY <1>2 DEF RxOK
<1>4. /\ rx \in RxRec
      /\ rx.swm = t.rx.swm /\ rx.hwm = t.rx.hwm /\ rx.max = t.rx.max
      /\ rx.fin = t.rx.fin /\ rx.err = t.rx.err /\ rx.rwm = t.rx.rwm + n
      /\ rx.cwm >= t.rx.cwm
      /\ rx.cwm - rx.rwm <= rx.max
  <2>1. 0 \in Nat
    OBVIOUS
  <2>2. Retired(t.rx, n, rx)
    BY <1>1, <1>3, <2>1, RetireEffect
  <2> QED BY <2>2 DEF Retired
<1> HIDE DEF rx
<1>5. /\ nrx \in RxRec
      /\ nrx.swm = t.rx.swm /\ nrx.hwm = t.rx.hwm /\ nrx.max = t.rx.max
      /\ nrx.fin = t.rx.fin /\ nrx.err = t.rx.err /\ nrx.rwm = t.rx.rwm + n
      /\ nrx.cwm >= t.rx.cwm
      /\ nrx.cwm - nrx.rwm <= nrx.max
  BY <1>1, <1>3, <1>4
<1>6. u = [t EXCEPT !.rx = nrx, !.got = ngot, !.recvState = rs]
  BY DEF StRec
<1> HIDE DEF nrx, u
<1>7. u \in StRec
  BY <1>1, <1>5, <1>6 DEF StRec
<1>8. /\ u.rx = nrx /\ u.got = ngot /\ SameCredit(t, u) /\ SameBuffer(t, u)
      /\ u.sendState = t.sendState /\ u.finalSize = t.finalSize
      /\ u.wantReset = t.wantReset
  BY <1>6 DEF StRec, SameCredit, SameBuffer
<1>9. t.rx.rwm + n <= t.rx.hwm
  <2>1. /\ Cardinality(Readable(t)) \in Nat
        /\ t.rx.rwm + Cardinality(Readable(t)) <= t.rx.hwm
    BY <1>2, ReadableBound DEF RxOK
  <2> QED BY <1>1, <2>1
<1>10. RxOK(u)
  <2>1. ngot \subseteq nrx.rwm..(nrx.hwm - 1)
    BY <1>1, <1>2, <1>5 DEF RxOK
  <2>2. nrx.rwm <= nrx.hwm
    BY <1>5, <1>9
  <2>3. nrx.swm = nrx.hwm /\ nrx.err = "NONE" /\ nrx.max = StreamMaxWnd
        /\ nrx.cwm - nrx.rwm <= StreamMaxWnd
    BY <1>2, <1>5 DEF RxOK
  <2> QED BY <1>8, <2>1, <2>2, <2>3 DEF RxOK
<1>11. SendOK(u) /\ (Ended(t) => Ended(u)) /\ (SendIsReset(t) => SendIsReset(u))
  BY <1>2, <1>8 DEF SendOK, SameCredit, SameBuffer, HasSStream, SendIsReset, Ended
<1>12. Quiet(u, v)
  BY <1>7, <1>10, <1>11, QuietRefl, QuietUpdate DEF LocalOK
<1>13. v \in StRec /\ LocalOK(v) /\ v.rx = nrx /\ SameCredit(t, v)
       /\ (Ended(t) => Ended(v)) /\ (SendIsReset(t) => SendIsReset(v))
  BY <1>8, <1>11, <1>12 DEF Quiet, SameCredit
<1>14. rx.win \in Nat
  BY <1>4 DEF RxRec
<1> HIDE DEF v
<1>15. Adv(t, v)
  BY <1>1, <1>5, <1>13 DEF Adv, SameCredit
<1>16. /\ v.rx.hwm = t.rx.hwm /\ v.rx.swm = t.rx.swm /\ v.rx.fin = t.rx.fin
       /\ v.rx.rwm = t.rx.rwm + n /\ v.rx.cwm >= t.rx.cwm
  BY <1>5, <1>13
<1>17. ReadDone(t, n, v)
  BY <1>13, <1>15, <1>16 DEF ReadDone
<1> QED BY <1>14, <1>17 DEF v, u, rx

\* What NewCredit charges for a set of bytes of the buffer.
LEMMA NewCreditFacts ==
    ASSUME NEW t \in StRec, LocalOK(t), NEW bytes, bytes \subseteq t.new
    PROVE  /\ NewCredit(t, bytes) \in Nat
           /\ bytes \in SUBSET Nat
           /\ \A b \in bytes : b < t.txSwm + NewCredit(t, bytes)
           /\ t.txSwm + NewCredit(t, bytes) <= t.size
           /\ bytes # {} => /\ Max(bytes) \in Nat
                            /\ Max(bytes) + 1 <= t.txSwm + NewCredit(t, bytes)
                            /\ bytes \subseteq 0..((Max(bytes) + 1) - 1)
<1>1. t.txSwm \in Nat /\ t.size \in Nat /\ t.txSwm <= t.size
      /\ t.new \subseteq 0..(t.size - 1)
  BY StFields DEF LocalOK, SendOK
<1>2. bytes \subseteq 0..(t.size - 1) /\ bytes \in SUBSET Nat
  BY <1>1
<1>3. CASE bytes = {}
  <2>1. NewCredit(t, bytes) = 0
    BY <1>3 DEF NewCredit
  <2> QED BY <1>1, <1>3, <2>1
<1>4. CASE bytes # {}
  <2>1. Max(bytes) \in bytes /\ Max(bytes) \in Nat /\ \A b \in bytes : b <= Max(bytes)
    BY <1>1, <1>2, <1>4, MaxOffset
  <2>2. PICK m \in Nat : m = Max(bytes)
    BY <2>1
  <2>3. m < t.size
    BY <1>1, <1>2, <2>1, <2>2
  <2>4. NewCredit(t, bytes) = Larger(0, m + 1 - t.txSwm)
    BY <1>4, <2>2 DEF NewCredit
  <2>5. PICK k : k = NewCredit(t, bytes)
    OBVIOUS
  <2>6. k \in Nat /\ m + 1 <= t.txSwm + k /\ t.txSwm + k <= t.size
    BY <1>1, <2>3, <2>4, <2>5 DEF Larger
  <2>7. \A b \in bytes : b \in Nat /\ b <= m
    BY <1>2, <2>1, <2>2
  <2>8. \A b \in bytes : b < t.txSwm + k
    BY <1>1, <2>6, <2>7
  <2>9. bytes \subseteq 0..((m + 1) - 1)
    BY <2>7
  <2> QED BY <1>2, <2>2, <2>5, <2>6, <2>8, <2>9
<1> QED BY <1>3, <1>4

\* The packetiser has written the frames of one stream.
LEMMA SentStream ==
    ASSUME NEW t \in StRec, LocalOK(t), NEW c \in Int, NEW bytes,
           bytes \subseteq t.new, ~HasSStream(t) => bytes = {},
           NEW fin \in BOOLEAN, fin \in FinChoices(t, bytes),
           NEW f, f = StreamFrames(t, bytes, fin),
           NEW u, u = AfterTx(t, f, NewCredit(t, bytes), c)
    PROVE  /\ f \in FrameRec /\ u \in StRec /\ LocalOK(u) /\ Adv(t, u)
           /\ FrameOK(u, f)
           /\ u.txSwm = t.txSwm + NewCredit(t, bytes) /\ u.txCwm = t.txCwm
           /\ SameRx(t.rx, u.rx)
<1>0. /\ t.txSwm \in Nat /\ t.size \in Nat /\ t.finalSize \in Nat
      /\ t.rx.cwm \in Nat /\ SendOK(t) /\ RxOK(t)
  BY StFields DEF LocalOK
<1>1. PICK k : k = NewCredit(t, bytes)
  OBVIOUS
<1>2. /\ k \in Nat /\ bytes \in SUBSET Nat
      /\ \A b \in bytes : b < t.txSwm + k
      /\ t.txSwm + k <= t.size
  BY <1>1, NewCreditFacts
<1>3. bytes # {} => /\ Max(bytes) \in Nat
                    /\ Max(bytes) + 1 <= t.txSwm + k
                    /\ bytes \subseteq 0..((Max(bytes) + 1) - 1)
  BY <1>1, NewCreditFacts
<1>4. fin => HasSStream(t) /\ t.fin /\ bytes = t.new
  BY DEF FinChoices
<1>5. /\ f.stop = t.wantStop
      /\ f.reset = (IF t.wantReset THEN t.finalSize ELSE None)
      /\ f.maxStreamData = None \/ f.maxStreamData = t.rx.cwm
      /\ f.bytes = bytes /\ f.fin = fin
      /\ f.end = (IF fin THEN t.size
                  ELSE IF bytes = {} THEN None ELSE Max(bytes) + 1)
  BY DEF StreamFrames
<1>6. f \in FrameRec
  <2>1. PICK x1 : x1 = t.wantStop
    OBVIOUS
  <2>2. PICK x2 : x2 = (IF t.wantReset THEN t.finalSize ELSE None)
    OBVIOUS
  <2>3. PICK x3 : x3 = (IF t.recvState = "RECV" /\ (t.wantMaxStreamData \/ t.rx.changed)
                        THEN t.rx.cwm ELSE None)
    OBVIOUS
  <2>4. PICK x4 : x4 = (IF fin THEN t.size
                        ELSE IF bytes = {} THEN None ELSE Max(bytes) + 1)
    OBVIOUS
  <2>5. f = [stop |-> x1, reset |-> x2, maxStreamData |-> x3, bytes |-> bytes,
             fin |-> fin, end |-> x4]
    BY <2>1, <2>2, <2>3, <2>4 DEF StreamFrames
  <2>6. x1 \in BOOLEAN
    BY <2>1 DEF StRec
  <2>7. x2 \in Int /\ x3 \in Int
    BY <1>0, <2>2, <2>3 DEF None
  <2>8. x4 \in Int
    BY <1>0, <1>3, <2>4 DEF None
  <2> QED BY <1>2, <2>5, <2>6, <2>7, <2>8 DEF FrameRec
<1>7. PICK w : /\ Written(t, f, k, w)
               /\ u = UpdateState(w, c) \/ AllSent(UpdateState(w, c), u)
  BY <1>1, <1>2, <1>6, TxEffect
<1>8. w \in StRec
  BY <1>7 DEF Written
<1>9. \A b \in (t.txSwm + k)..(t.size - 1) : b \in t.txSwm..(t.size - 1) /\ b \notin bytes
  BY <1>0, <1>2
<1>10. SendOK(w)
  <2>1. /\ w.txSwm = t.txSwm + k /\ w.size = t.size /\ w.finalSize = t.finalSize
        /\ w.new = t.new \ bytes /\ w.acked = t.acked /\ w.fin = t.fin
        /\ w.sendState = t.sendState /\ ~w.wantReset
    BY <1>5, <1>7 DEF Written
  <2>2. w.txSwm <= w.size /\ w.size <= MaxSize /\ w.finalSize <= MaxSize
    BY <1>0, <1>2, <2>1 DEF SendOK
  <2>3. w.new \subseteq 0..(w.size - 1) /\ w.acked \subseteq 0..(w.size - 1)
    BY <1>0, <2>1 DEF SendOK
  <2>4. HasSStream(w) => w.txSwm..(w.size - 1) \subseteq w.new
    BY <1>0, <1>9, <2>1 DEF SendOK, HasSStream
  <2>5. t.sendState # "READY" /\ t.sendState # "SEND" => k = 0
    <3>1. CASE HasSStream(t)
      <4> HAVE t.sendState # "READY" /\ t.sendState # "SEND"
      <4>1. t.size = t.txSwm
        BY <1>0, <3>1 DEF HasSStream, SendOK
      <4> QED BY <1>0, <1>2, <4>1
    <3>2. CASE ~HasSStream(t)
      BY <1>1, <3>2 DEF NewCredit
    <3> QED BY <3>1, <3>2
  <2>6. t.sendState # "READY" /\ t.sendState # "SEND" => w.txSwm = t.txSwm
    BY <1>0, <2>1, <2>5
  <2>7. w.sendState \in {"DATA_SENT", "DATA_RECVD", "RESET_SENT", "RESET_RECVD"}
          => w.finalSize = w.txSwm
    BY <1>0, <2>1, <2>6 DEF SendOK
  <2>8. w.sendState \in {"DATA_SENT", "DATA_RECVD"} => w.fin /\ w.size = w.txSwm
    BY <1>0, <2>1, <2>6 DEF SendOK
  <2> QED BY <2>1, <2>2, <2>3, <2>4, <2>7, <2>8 DEF SendOK
<1>11. RxOK(w)
  BY <1>0, <1>7 DEF Written, RxOK, SameRx
<1>12. PICK v : v = UpdateState(w, c)
  OBVIOUS
<1>13. Quiet(w, v)
  BY <1>8, <1>10, <1>11, <1>12, QuietUpdate DEF LocalOK
<1>14. /\ u \in StRec /\ LocalOK(u) /\ u.rx = w.rx /\ SameCredit(w, u)
       /\ Ended(w) => Ended(u)
       /\ SendIsReset(w) => SendIsReset(u)
  <2>1. CASE u = v
    BY <1>13, <2>1 DEF Quiet
  <2>2. CASE AllSent(v, u)
    <3>1. /\ v.sendState = "SEND" /\ v.fin /\ v.new = {}
          /\ u \in StRec /\ u.sendState = "DATA_SENT" /\ u.finalSize = v.size
          /\ SameRecv(v, u) /\ SameCredit(v, u) /\ SameBuffer(v, u)
          /\ u.wantReset = v.wantReset
      BY <2>2 DEF AllSent
    <3>2. v \in StRec /\ SendOK(v) /\ RxOK(v) /\ v.rx = w.rx /\ SameCredit(w, v)
      BY <1>13 DEF Quiet, LocalOK
    <3>3. v.txSwm \in Nat /\ v.size \in Nat
      BY <3>2, StFields
    <3>4. v.txSwm = v.size
      BY <3>1, <3>2, <3>3 DEF SendOK, HasSStream
    <3>5. SendOK(u)
      BY <3>1, <3>2, <3>4 DEF SendOK, SameCredit, SameBuffer, HasSStream, SendIsReset
    <3>6. RxOK(u)
      BY <3>1, <3>2 DEF RxOK, SameRecv
    <3>7. Ended(u)
      BY <3>1, <3>4 DEF Ended, SameBuffer, SameCredit
    <3>8. ~SendIsReset(w)
      BY <1>13, <3>1 DEF Quiet, SendIsReset
    <3> QED BY <3>1, <3>2, <3>5, <3>6, <3>7, <3>8 DEF LocalOK, SameRecv, SameCredit
  <2> QED BY <1>7, <1>12, <2>1, <2>2
<1>15. /\ u.txSwm = t.txSwm + k /\ u.txCwm = t.txCwm /\ SameRx(t.rx, u.rx)
  BY <1>7, <1>14 DEF Written, SameCredit
<1>16. /\ w.sendState = t.sendState /\ w.fin = t.fin /\ w.size = t.size
       /\ w.txSwm = t.txSwm + k
  BY <1>7 DEF Written
<1>17. SendIsReset(t) => k = 0
  BY <1>1 DEF NewCredit, SendIsReset, HasSStream
<1>18. Ended(t) => k = 0
  <2>1. t.fin /\ t.size = t.txSwm => k = 0
    BY <1>0, <1>2
  <2> QED BY <1>17, <2>1 DEF Ended
<1>19. (Ended(t) => Ended(w)) /\ (SendIsReset(t) => SendIsReset(w))
  <2>1. SendIsReset(t) => SendIsReset(w)
    BY <1>16 DEF SendIsReset
  <2>2. k = 0 => w.txSwm = t.txSwm
    BY <1>0, <1>16
  <2> QED BY <1>16, <1>18, <2>1, <2>2 DEF Ended
<1>20. Adv(t, u)
  <2>1. u.txSwm >= t.txSwm
    BY <1>0, <1>2, <1>15
  <2>2. u.rx.cwm >= t.rx.cwm
    BY <1>0, <1>15 DEF SameRx
  <2>3. Ended(t) => u.txSwm = t.txSwm
    BY <1>0, <1>15, <1>18
  <2> QED BY <1>14, <1>19, <2>1, <2>2, <2>3 DEF Adv
<1>21. fin => t.size = t.txSwm + k
  <2> HAVE fin
  <2>1. HasSStream(t) /\ bytes = t.new
    BY <1>4
  <2>2. t.txSwm..(t.size - 1) \subseteq bytes
    BY <1>0, <2>1 DEF SendOK
  <2>3. t.txSwm + k < t.size => t.txSwm + k \in bytes
    BY <1>0, <1>2, <2>2
  <2> QED BY <1>0, <1>2, <2>3
<1>22. FrameOK(u, f)
  <2>1. f.end <= u.txSwm
    BY <1>0, <1>2, <1>3, <1>5, <1>15, <1>21 DEF None
  <2>2. f.bytes \subseteq 0..(f.end - 1)
    <3>1. CASE fin
      <4>1. f.end = t.txSwm + k
        BY <1>5, <1>21, <3>1
      <4> QED BY <1>0, <1>2, <1>5, <4>1
    <3>2. CASE ~fin
      BY <1>3, <1>5, <3>2
    <3> QED BY <3>1, <3>2
  <2>3. f.maxStreamData <= u.rx.cwm
    BY <1>0, <1>5, <1>15 DEF SameRx, None
  <2>4. f.fin => Ended(u) /\ f.end = u.txSwm
    <3>1. fin => Ended(w)
      BY <1>4, <1>16, <1>21 DEF Ended
    <3> QED BY <1>5, <1>14, <1>15, <1>21, <3>1
  <2>5. f.reset # None => SendIsReset(u) /\ f.reset = u.txSwm
    <3>1. f.reset # None => t.wantReset /\ f.reset = t.finalSize
      BY <1>5
    <3>2. t.wantReset => SendIsReset(t) /\ t.finalSize = t.txSwm
      BY <1>0 DEF SendOK, SendIsReset
    <3>3. SendIsReset(t) => u.txSwm = t.txSwm
      BY <1>0, <1>15, <1>17
    <3> QED BY <1>14, <1>19, <3>1, <3>2, <3>3
  <2> QED BY <2>1, <2>2, <2>3, <2>4, <2>5 DEF FrameOK
<1> QED BY <1>1, <1>6, <1>14, <1>15, <1>20, <1>22

\* The receiver t has counted no more than its sender q has sent.
RxWithin(t, q) ==
    /\ t.rx.hwm <= q.txSwm /\ q.txSwm <= t.rx.cwm
    /\ t.rx.fin => Ended(q) /\ t.rx.hwm = q.txSwm

\* t becomes u by what it receives.
Recvd(t, u) ==
    /\ u \in StRec /\ LocalOK(u)
    /\ u.txSwm = t.txSwm
    /\ u.rx.cwm = t.rx.cwm /\ u.rx.rwm = t.rx.rwm /\ u.rx.hwm >= t.rx.hwm
    /\ Ended(t) => Ended(u)
    /\ SendIsReset(t) => SendIsReset(u)

LEMMA RecvdTrans ==
    ASSUME NEW t \in StRec, NEW u, NEW v, Recvd(t, u), Recvd(u, v)
    PROVE  Recvd(t, v)
<1>1. u \in StRec /\ v \in StRec
  BY DEF Recvd
<1>2. t.rx.hwm \in Nat /\ u.rx.hwm \in Nat /\ v.rx.hwm \in Nat
  BY <1>1, StFields
<1> QED BY <1>2 DEF Recvd

LEMMA RecvdQuiet ==
    ASSUME NEW t \in StRec, NEW u, Quiet(t, u), NEW q
    PROVE  Recvd(t, u) /\ (RxWithin(t, q) => RxWithin(u, q))
<1>1. t.rx.hwm \in Nat
  BY StFields
<1> QED BY <1>1 DEF Quiet, Recvd, RxWithin, SameCredit

\* The flow controller takes a frame of q that is under way.
LEMMA RxFrameStep ==
    ASSUME NEW t \in StRec, LocalOK(t), NEW q \in StRec, RxWithin(t, q),
           NEW end \in Int, NEW fin \in BOOLEAN, end <= q.txSwm,
           fin => Ended(q) /\ end = q.txSwm,
           NEW r, r = OnRxStreamFrame(t.rx, end, fin),
           NEW x \in StRec, SameSend(t, x), x.rx = r,
           x.got \subseteq t.got \cup (t.rx.rwm..(end - 1))
    PROVE  Recvd(t, x) /\ RxWithin(x, q)
<1>1. /\ t.rx \in RxRec /\ q.txSwm \in Nat /\ t.rx.hwm \in Nat /\ t.rx.rwm \in Nat
      /\ t.got \in SUBSET Nat
  BY StFields
<1>2. RxOK(t) /\ SendOK(t)
  BY DEF LocalOK
<1>3. /\ t.rx.swm = t.rx.hwm /\ t.rx.hwm <= q.txSwm /\ q.txSwm <= t.rx.cwm
      /\ t.rx.err = "NONE" /\ (t.rx.fin => t.rx.hwm = q.txSwm)
  BY <1>2 DEF RxOK, RxWithin
<1>4. /\ r \in RxRec
      /\ r.err = "NONE" /\ r.swm = r.hwm /\ r.hwm = Larger(t.rx.hwm, end)
      /\ r.hwm <= q.txSwm /\ t.rx.hwm <= r.hwm
      /\ r.cwm = t.rx.cwm /\ r.rwm = t.rx.rwm /\ r.max = t.rx.max
      /\ r.fin <=> (t.rx.fin \/ fin)
      /\ r.fin => r.hwm = q.txSwm
  BY <1>1, <1>3, StreamFrameEffect
<1>5. RxOK(x)
  <2>0. r.hwm \in Nat
    BY <1>4 DEF RxRec
  <2>1. x.rx.rwm <= x.rx.hwm
    <3>1. t.rx.rwm <= t.rx.hwm
      BY <1>2 DEF RxOK
    <3> QED BY <1>1, <1>4, <2>0, <3>1
  <2>2. x.got \subseteq x.rx.rwm..(x.rx.hwm - 1)
    <3>1. t.got \subseteq t.rx.rwm..(t.rx.hwm - 1)
      BY <1>2 DEF RxOK
    <3>2. r.hwm \in Nat /\ end <= r.hwm
      BY <1>1, <1>4, <2>0 DEF Larger
    <3>3. t.rx.rwm..(t.rx.hwm - 1) \subseteq t.rx.rwm..(r.hwm - 1)
      BY <1>1, <1>4, <3>2
    <3>4. t.rx.rwm..(end - 1) \subseteq t.rx.rwm..(r.hwm - 1)
      BY <1>1, <3>2
    <3> QED BY <1>4, <3>1, <3>3, <3>4
  <2> QED BY <1>2, <1>4, <2>1, <2>2 DEF RxOK
<1>6. SendOK(x) /\ (Ended(t) => Ended(x)) /\ (SendIsReset(t) => SendIsReset(x))
  BY <1>2 DEF SendOK, SameSend, SameCredit, SameBuffer, HasSStream, SendIsReset, Ended
<1>7. RxWithin(x, q)
  BY <1>3, <1>4 DEF RxWithin
<1>8. x.txSwm = t.txSwm
  BY DEF SameSend, SameCredit
<1> QED BY <1>4, <1>5, <1>6, <1>7, <1>8 DEF Recvd, LocalOK

LEMMA RecvResetStep ==
    ASSUME NEW t \in StRec, LocalOK(t), NEW q \in StRec, RxWithin(t, q),
           NEW c \in Int, SendIsReset(q), NEW u, u = RecvReset(t, q.txSwm, c)
    PROVE  Recvd(t, u) /\ RxWithin(u, q) /\ u.txCwm = t.txCwm
<1>1. /\ t.rx \in RxRec /\ q.txSwm \in Nat /\ t.rx.hwm \in Nat /\ t.rx.rwm \in Nat
      /\ q.txSwm \in Int
  BY StFields
<1>2. /\ t.rx.swm = t.rx.hwm /\ t.rx.hwm <= q.txSwm /\ q.txSwm <= t.rx.cwm
      /\ t.rx.err = "NONE" /\ (t.rx.fin => t.rx.hwm = q.txSwm)
  BY DEF LocalOK, RxOK, RxWithin
<1>3. PICK r : r = OnRxStreamFrame(t.rx, q.txSwm, TRUE)
  OBVIOUS
<1>4. r \in RxRec /\ r.err = "NONE"
  <2>1. q.txSwm <= q.txSwm
    BY <1>1
  <2> QED BY <1>1, <1>2, <1>3, <2>1, StreamFrameEffect
<1>5. PICK x \in StRec : /\ u = UpdateState(x, c)
                         /\ SameSend(t, x) /\ x.rx = r
                         /\ x.got = {} \/ x.got = t.got
  <2>1. \E x \in StRec : RecvReset(t, q.txSwm, c) = UpdateState(x, c)
                         /\ AfterReset(t, r, x)
    BY <1>3, <1>4, RecvResetEffect, Zenon
  <2> QED BY <2>1 DEF AfterReset
<1>6. Recvd(t, x) /\ RxWithin(x, q)
  <2>1. x.got \subseteq t.got \cup (t.rx.rwm..(q.txSwm - 1))
    BY <1>5
  <2>2. q.txSwm <= q.txSwm /\ Ended(q)
    BY <1>1 DEF Ended
  <2> QED BY <1>1, <1>3, <1>5, <2>1, <2>2, RxFrameStep
<1>7. Quiet(x, u)
  BY <1>5, <1>6, QuietUpdate DEF Recvd
<1>8. Recvd(x, u) /\ RxWithin(u, q)
  BY <1>6, <1>7, RecvdQuiet
<1>9. Recvd(t, u)
  BY <1>6, <1>8, RecvdTrans
<1>10. u.txCwm = t.txCwm
  BY <1>5, <1>7 DEF Quiet, SameCredit, SameSend
<1> QED BY <1>8, <1>9, <1>10

LEMMA RecvStreamStep ==
    ASSUME NEW t \in StRec, LocalOK(t), NEW q \in StRec, RxWithin(t, q),
           NEW f \in FrameRec, FrameOK(q, f), NEW u, u = RecvStream(t, f)
    PROVE  Recvd(t, u) /\ RxWithin(u, q) /\ u.txCwm = t.txCwm
<1>1. /\ t.rx \in RxRec /\ q.txSwm \in Nat /\ t.rx.hwm \in Nat /\ t.rx.rwm \in Nat
      /\ t.got \in SUBSET Nat
  BY StFields
<1>2. /\ f.end \in Int /\ f.fin \in BOOLEAN /\ f.bytes \in SUBSET Nat
      /\ f.end <= q.txSwm /\ f.bytes \subseteq 0..(f.end - 1)
      /\ f.fin => Ended(q) /\ f.end = q.txSwm
  BY DEF FrameRec, FrameOK
<1>3. /\ t.rx.swm = t.rx.hwm /\ t.rx.hwm <= q.txSwm /\ q.txSwm <= t.rx.cwm
      /\ t.rx.err = "NONE" /\ (t.rx.fin => t.rx.hwm = q.txSwm)
  BY DEF LocalOK, RxOK, RxWithin
<1>4. PICK r : r = OnRxStreamFrame(t.rx, f.end, f.fin)
  OBVIOUS
<1>5. r \in RxRec /\ r.err = "NONE"
  BY <1>1, <1>2, <1>3, <1>4, StreamFrameEffect
<1>6. /\ u \in StRec /\ SameSend(t, u) /\ u.rx = r
      /\ u.got = t.got \/ u.got = t.got \cup (f.bytes \ 0..(t.rx.rwm - 1))
  BY <1>4, <1>5, RecvStreamEffect
<1>7. u.got \subseteq t.got \cup (t.rx.rwm..(f.end - 1))
  BY <1>1, <1>2, <1>6
<1>8. Recvd(t, u) /\ RxWithin(u, q)
  BY <1>2, <1>4, <1>6, <1>7, RxFrameStep
<1> QED BY <1>6, <1>8 DEF SameSend, SameCredit

\* All the frames of a packet for one stream.
LEMMA RecvFramesStep ==
    ASSUME NEW t \in StRec, LocalOK(t), NEW q \in StRec, RxWithin(t, q),
           NEW f \in FrameRec, FrameOK(q, f), NEW maxData, NEW k \in Int,
           NEW u, u = RecvFrames(t, f, maxData, k)
    PROVE  /\ Recvd(t, u) /\ RxWithin(u, q)
           /\ u.txCwm >= t.txCwm
           /\ u.txCwm = t.txCwm \/ u.txCwm = f.maxStreamData
<1> DEFINE m == IF maxData # None THEN UpdateState(t, k) ELSE t
           m2 == [m EXCEPT !.peerStop = TRUE]
           p == IF f.stop THEN ResetSendPart(m2, k) ELSE m
           r == IF f.reset # None THEN RecvReset(p, f.reset, k) ELSE p
           r2 == [r EXCEPT !.txCwm = Larger(@, f.maxStreamData)]
           c == IF f.maxStreamData # None THEN UpdateState(r2, k) ELSE r
<1>1. u = IF f.end # None THEN RecvStream(c, f) ELSE c
  BY DEF RecvFrames
<1>2. Quiet(t, m)
  BY QuietRefl, QuietUpdate
<1> HIDE DEF m
<1>3. m \in StRec /\ LocalOK(m)
  BY <1>2 DEF Quiet
<1>4. m2 \in StRec
  BY <1>3 DEF StRec
<1>5. Quiet(m, m2)
  <2>1. /\ SameCredit(m, m2) /\ SameBuffer(m, m2) /\ m2.sendState = m.sendState
        /\ m2.finalSize = m.finalSize /\ m2.wantReset = m.wantReset
        /\ m2.got = m.got /\ m2.rx = m.rx
    BY <1>3 DEF StRec, SameCredit, SameBuffer
  <2> HIDE DEF m2
  <2> QED BY <1>3, <1>4, <2>1, QuietFlags
<1> HIDE DEF m2
<1>6. Quiet(m2, ResetSendPart(m2, k))
  BY <1>4, <1>5, QuietReset DEF Quiet
<1>7. Quiet(t, p)
  <2>1. Quiet(t, ResetSendPart(m2, k))
    BY <1>2, <1>5, <1>6, QuietTrans
  <2> QED BY <1>2, <2>1
<1> HIDE DEF p
<1>8. /\ p \in StRec /\ LocalOK(p) /\ p.txCwm = t.txCwm
      /\ Recvd(t, p) /\ RxWithin(p, q)
  BY <1>7, RecvdQuiet DEF Quiet, SameCredit
<1>9. Recvd(t, r) /\ RxWithin(r, q) /\ r.txCwm = t.txCwm
  <2>1. CASE f.reset # None
    <3>1. SendIsReset(q) /\ f.reset = q.txSwm
      BY <2>1 DEF FrameOK
    <3>2. r = RecvReset(p, q.txSwm, k)
      BY <2>1, <3>1
    <3> HIDE DEF r
    <3>3. Recvd(p, r) /\ RxWithin(r, q) /\ r.txCwm = p.txCwm
      BY <1>8, <3>1, <3>2, RecvResetStep
    <3> QED BY <1>8, <3>3, RecvdTrans
  <2>2. CASE ~(f.reset # None)
    BY <1>8, <2>2
  <2> QED BY <2>1, <2>2
<1> HIDE DEF r
<1>10. r \in StRec /\ LocalOK(r)
  BY <1>9 DEF Recvd
<1>11. r.txCwm \in Nat /\ f.maxStreamData \in Int /\ t.txCwm \in Nat
  BY <1>10, StFields DEF FrameRec
<1>12. PICK n : n = Larger(r.txCwm, f.maxStreamData)
  OBVIOUS
<1>13. n \in Nat /\ n >= r.txCwm /\ (n = r.txCwm \/ n = f.maxStreamData)
  BY <1>11, <1>12 DEF Larger
<1>14. r2 = [r EXCEPT !.txCwm = n]
  BY <1>12
<1> HIDE DEF r2
<1>15. /\ r2 \in StRec /\ SameBuffer(r, r2) /\ SameRecv(r, r2)
       /\ r2.txSwm = r.txSwm /\ r2.txCwm = n
       /\ r2.sendState = r.sendState /\ r2.finalSize = r.finalSize
       /\ r2.wantReset = r.wantReset
  <2>1. r2 \in StRec
    BY <1>10, <1>13, <1>14 DEF StRec
  <2>2. /\ SameBuffer(r, r2) /\ SameRecv(r, r2)
        /\ r2.txSwm = r.txSwm /\ r2.txCwm = n
        /\ r2.sendState = r.sendState /\ r2.finalSize = r.finalSize
        /\ r2.wantReset = r.wantReset
    BY <1>10, <1>14 DEF StRec, SameBuffer, SameRecv
  <2> QED BY <2>1, <2>2
<1>16. LocalOK(r2)
  <2>1. SendOK(r2)
    BY <1>10, <1>15 DEF LocalOK, SendOK, SameBuffer, HasSStream, SendIsReset
  <2>2. RxOK(r2)
    BY <1>10, <1>15 DEF LocalOK, RxOK, SameRecv
  <2> QED BY <2>1, <2>2 DEF LocalOK
<1>17. Recvd(r, r2) /\ RxWithin(r2, q)
  <2>1. /\ r2.rx = r.rx
        /\ (Ended(r) => Ended(r2)) /\ (SendIsReset(r) => SendIsReset(r2))
    BY <1>15 DEF Ended, SendIsReset, SameBuffer, SameRecv
  <2>2. r.rx.hwm \in Nat
    BY <1>10, StFields
  <2> QED BY <1>9, <1>15, <1>16, <2>1, <2>2 DEF Recvd, RxWithin
<1>18. Quiet(r2, UpdateState(r2, k))
  BY <1>15, <1>16, QuietUpdate
<1>19. /\ Recvd(t, c) /\ RxWithin(c, q) /\ c.txCwm >= t.txCwm
       /\ c.txCwm = t.txCwm \/ c.txCwm = f.maxStreamData
  <2>1. CASE f.maxStreamData # None
    <3>1. c = UpdateState(r2, k)
      BY <2>1
    <3> HIDE DEF c
    <3>2. Quiet(r2, c)
      BY <1>18, <3>1
    <3>3. Recvd(r2, c) /\ RxWithin(c, q)
      BY <1>15, <1>17, <3>2, RecvdQuiet
    <3>4. c.txCwm = n
      BY <1>15, <3>2 DEF Quiet, SameCredit
    <3>5. Recvd(r, c)
      BY <1>10, <1>17, <3>3, RecvdTrans
    <3>6. Recvd(t, c)
      BY <1>9, <3>5, RecvdTrans
    <3> QED BY <1>9, <1>11, <1>13, <3>3, <3>4, <3>6
  <2>2. CASE ~(f.maxStreamData # None)
    <3>1. c = r
      BY <2>2
    <3> QED BY <1>9, <1>11, <3>1
  <2> QED BY <2>1, <2>2
<1> HIDE DEF c
<1>20. c \in StRec /\ LocalOK(c)
  BY <1>19 DEF Recvd
<1>21. CASE f.end # None
  <2>1. u = RecvStream(c, f)
    BY <1>1, <1>21
  <2>2. Recvd(c, u) /\ RxWithin(u, q) /\ u.txCwm = c.txCwm
    BY <1>19, <1>20, <2>1, RecvStreamStep
  <2>3. Recvd(t, u)
    BY <1>19, <2>2, RecvdTrans
  <2> QED BY <1>19, <2>2, <2>3
<1>22. CASE ~(f.end # None)
  BY <1>1, <1>19, <1>22
<1> QED BY <1>21, <1>22

-----------------------------------------------------------------------------
(* Steps that leave the credit alone *)

LEMMA StateTypes ==
    ASSUME Types, NEW e \in End
    PROVE  /\ st[e] \in [Stream -> StRec]
           /\ \A s \in Stream : st[e][s] \in StRec
           /\ conn[e] \in ConnRec
           /\ conn[e].txSwm \in Nat /\ conn[e].txCwm \in Nat
           /\ conn[e].rx \in RxRec /\ ConnCredit(e) \in Int
           /\ conn[e].rx.cwm \in Nat /\ conn[e].rx.rwm \in Nat
           /\ conn[e].rx.swm \in Nat /\ conn[e].rx.max \in Nat
<1>1. st[e] \in [Stream -> StRec] /\ conn[e] \in ConnRec
  BY DEF Types
<1>2. conn[e].txSwm \in Nat /\ conn[e].txCwm \in Nat /\ conn[e].rx \in RxRec
  BY <1>1 DEF ConnRec
<1>3. /\ conn[e].rx.cwm \in Nat /\ conn[e].rx.rwm \in Nat
      /\ conn[e].rx.swm \in Nat /\ conn[e].rx.max \in Nat
  BY <1>2 DEF RxRec
<1>4. ConnCredit(e) \in Int
  BY <1>2 DEF ConnCredit
<1> QED BY <1>1, <1>2, <1>3, <1>4

LEMMA PacketTypes ==
    ASSUME Types, NEW i \in Slot, pkt[i] # NoPkt
    PROVE  /\ pkt[i] \in PktRec /\ pkt[i].from \in End /\ pkt[i].maxData \in Int
           /\ pkt[i].onWire \in BOOLEAN /\ pkt[i].inflight \in BOOLEAN
           /\ pkt[i].str \in FrameSet
           /\ \A s \in Stream : pkt[i].str[s] \in FrameRec
<1>1. pkt[i] \in PktRec
  BY DEF Types
<1>2. /\ pkt[i].from \in End /\ pkt[i].maxData \in Int
      /\ pkt[i].onWire \in BOOLEAN /\ pkt[i].inflight \in BOOLEAN
      /\ pkt[i].str \in FrameSet
  BY <1>1 DEF PktRec
<1> QED BY <1>1, <1>2 DEF FrameSet

LEMMA QuietFlow ==
    ASSUME NEW t, NEW u, NEW q, NEW z, Quiet(t, u), Quiet(q, z), FlowOK(t, q)
    PROVE  FlowOK(u, z)
BY DEF Quiet, FlowOK, SameCredit

\* The sums do not change when no stream's watermarks do.
LEMMA SameSums ==
    ASSUME ConnAccounting, NEW e \in End,
           \A s \in Stream : /\ st'[e][s].txSwm = st[e][s].txSwm
                             /\ st'[e][s].rx.swm = st[e][s].rx.swm
                             /\ st'[e][s].rx.rwm = st[e][s].rx.rwm,
           conn'[e].txSwm = conn[e].txSwm, conn'[e].rx.swm = conn[e].rx.swm,
           conn'[e].rx.rwm = conn[e].rx.rwm
    PROVE  /\ conn'[e].txSwm = SumFunction([s \in Stream |-> st'[e][s].txSwm])
           /\ conn'[e].rx.swm = SumFunction([s \in Stream |-> st'[e][s].rx.swm])
           /\ conn'[e].rx.rwm = SumFunction([s \in Stream |-> st'[e][s].rx.rwm])
<1>1. /\ conn[e].txSwm = SumFunction([s \in Stream |-> st[e][s].txSwm])
      /\ conn[e].rx.swm = SumFunction([s \in Stream |-> st[e][s].rx.swm])
      /\ conn[e].rx.rwm = SumFunction([s \in Stream |-> st[e][s].rx.rwm])
  BY DEF ConnAccounting
<1>2. [s \in Stream |-> st[e][s].txSwm] = [s \in Stream |-> st'[e][s].txSwm]
  OBVIOUS
<1>3. [s \in Stream |-> st[e][s].rx.swm] = [s \in Stream |-> st'[e][s].rx.swm]
  OBVIOUS
<1>4. [s \in Stream |-> st[e][s].rx.rwm] = [s \in Stream |-> st'[e][s].rx.rwm]
  OBVIOUS
<1> QED BY <1>1, <1>2, <1>3, <1>4

\* The packets under way afterwards were under way before.
PacketsKept ==
    \A i \in Slot :
        \/ pkt'[i] = NoPkt
        \/ /\ pkt[i] # NoPkt /\ pkt'[i].from = pkt[i].from
           /\ pkt'[i].str = pkt[i].str /\ pkt'[i].maxData = pkt[i].maxData
           /\ pkt'[i].onWire = pkt[i].onWire

LEMMA FramesKept ==
    ASSUME Types, Types', PacketInv, PacketsKept,
           \A e \in End, s \in Stream : Adv(st[e][s], st'[e][s])
    PROVE  PacketInv'
<1> SUFFICES ASSUME NEW i \in Slot, pkt'[i] # NoPkt, NEW s \in Stream
             PROVE  FrameOK(st'[pkt'[i].from][s], pkt'[i].str[s])
  BY DEF PacketInv
<1>1. pkt[i] # NoPkt /\ pkt'[i].from = pkt[i].from /\ pkt'[i].str = pkt[i].str
  BY DEF PacketsKept
<1>2. pkt[i].from \in End /\ pkt[i].str[s] \in FrameRec
  BY <1>1, PacketTypes
<1>3. st[pkt[i].from][s] \in StRec /\ st'[pkt[i].from][s] \in StRec
  BY <1>2 DEF Types
<1>4. FrameOK(st[pkt[i].from][s], pkt[i].str[s])
  BY <1>1 DEF PacketInv
<1>5. Adv(st[pkt[i].from][s], st'[pkt[i].from][s])
  BY <1>2
<1> QED BY <1>1, <1>2, <1>3, <1>4, <1>5, FrameStable

LEMMA QuietStep ==
    ASSUME FlowInv, Types', PacketsKept, error' = error,
           \A e \in End, s \in Stream : Quiet(st[e][s], st'[e][s]),
           \A e \in End : /\ conn'[e].txSwm = conn[e].txSwm
                          /\ conn'[e].txCwm = conn[e].txCwm
                          /\ conn'[e].rx = conn[e].rx,
           ConnCreditNotForgotten'
    PROVE  FlowInv'
<1> USE DEF FlowInv
<1>1. StreamInv'
  <2> SUFFICES ASSUME NEW e \in End, NEW s \in Stream
               PROVE  LocalOK(st'[e][s]) /\ FlowOK(st'[e][s], st'[Peer(e)][s])
    BY DEF StreamInv
  <2>1. Peer(e) \in End
    BY PeerFacts
  <2>2. FlowOK(st[e][s], st[Peer(e)][s])
    BY DEF StreamInv
  <2>3. FlowOK(st'[e][s], st'[Peer(e)][s])
    BY <2>1, <2>2, QuietFlow
  <2> QED BY <2>3 DEF Quiet
<1>2. PacketInv'
  <2>1. \A e \in End, s \in Stream : Adv(st[e][s], st'[e][s])
    BY StateTypes, QuietAdv
  <2> QED BY <2>1, FramesKept
<1>3. ConnInv'
  BY PeerFacts DEF ConnInv
<1>4. MaxDataInv'
  <2> SUFFICES ASSUME NEW i \in Slot, pkt'[i] # NoPkt
               PROVE  /\ pkt'[i].maxData <= conn'[pkt'[i].from].rx.cwm
                      /\ pkt'[i].onWire
                         \/ pkt'[i].maxData <= conn'[Peer(pkt'[i].from)].txCwm
    BY DEF MaxDataInv
  <2>1. /\ pkt[i] # NoPkt /\ pkt'[i].from = pkt[i].from
        /\ pkt'[i].maxData = pkt[i].maxData /\ pkt'[i].onWire = pkt[i].onWire
    BY DEF PacketsKept
  <2>2. pkt[i].from \in End /\ Peer(pkt[i].from) \in End
    BY <2>1, PacketTypes, PeerFacts
  <2> QED BY <2>1, <2>2 DEF MaxDataInv
<1>5. NoProtocolError'
  BY DEF NoProtocolError
<1>6. ConnAccounting'
  <2> SUFFICES ASSUME NEW e \in End
               PROVE  /\ conn'[e].txSwm = SumFunction([s \in Stream |-> st'[e][s].txSwm])
                      /\ conn'[e].rx.swm = SumFunction([s \in Stream |-> st'[e][s].rx.swm])
                      /\ conn'[e].rx.rwm = SumFunction([s \in Stream |-> st'[e][s].rx.rwm])
    BY DEF ConnAccounting
  <2>1. \A s \in Stream : /\ st'[e][s].txSwm = st[e][s].txSwm
                          /\ st'[e][s].rx.swm = st[e][s].rx.swm
                          /\ st'[e][s].rx.rwm = st[e][s].rx.rwm
    BY DEF Quiet, SameCredit
  <2>2. conn'[e].txSwm = conn[e].txSwm /\ conn'[e].rx.swm = conn[e].rx.swm
        /\ conn'[e].rx.rwm = conn[e].rx.rwm
    OBVIOUS
  <2> QED BY <2>1, <2>2, SameSums
<1> QED BY <1>1, <1>2, <1>3, <1>4, <1>5, <1>6

\* One stream of one end changes, quietly.
LEMMA QuietStreamStep ==
    ASSUME FlowInv, NEW e \in End, NEW s \in Stream, NEW x, Quiet(st[e][s], x),
           st' = [st EXCEPT ![e][s] = x], UNCHANGED <<conn, pkt, error>>
    PROVE  FlowInv'
<1>1. /\ Types /\ StreamInv
      /\ st \in [End -> [Stream -> StRec]] /\ x \in StRec
  BY DEF FlowInv, Types, Quiet
<1>2. st' \in [End -> [Stream -> StRec]]
  BY <1>1
<1>3. Types'
  BY <1>1, <1>2 DEF Types
<1>4. \A p \in End, z \in Stream :
        st'[p][z] = IF p = e /\ z = s THEN x ELSE st[p][z]
  BY <1>1
<1>5. \A p \in End, z \in Stream : Quiet(st[p][z], st[p][z])
  BY <1>1, QuietRefl DEF StreamInv
<1>6. \A p \in End, z \in Stream : Quiet(st[p][z], st'[p][z])
  BY <1>4, <1>5
<1>7. PacketsKept
  BY DEF PacketsKept
<1>8. ConnCreditNotForgotten'
  BY DEF FlowInv, ConnCreditNotForgotten, InFlight, UnderWay
<1> QED BY <1>3, <1>6, <1>7, <1>8, QuietStep

LEMMA WriteStep ==
    ASSUME FlowInv, NEW e \in End, NEW s \in Stream, NEW n \in 1..MaxSize,
           NEW conclude \in BOOLEAN, Write(e, s, n, conclude)
    PROVE  FlowInv'
<1> DEFINE t == st[e][s]
           x == [UpdateState([t EXCEPT !.sendState = "SEND", !.size = @ + n,
                             !.new = @ \cup t.size..(t.size + n - 1)], ConnCredit(e))
                   EXCEPT !.fin = conclude]
<1>1. t \in StRec /\ LocalOK(t) /\ ConnCredit(e) \in Int
  BY StateTypes DEF FlowInv, StreamInv
<1>2. /\ t.sendState \in {"READY", "SEND"} /\ ~t.fin
      /\ t.size + n <= Smaller(t.txCwm, MaxSize)
  BY DEF Write
<1>3. n \in Nat /\ t.size + n <= MaxSize
  <2>1. t.size \in Nat /\ t.txCwm \in Nat /\ MaxSize \in Nat /\ n \in Nat
    BY <1>1, StFields, MaxSizeAssumption
  <2> QED BY <1>2, <2>1 DEF Smaller
<1>4. Quiet(t, x)
  <2> HIDE DEF t
  <2> QED BY <1>1, <1>2, <1>3, QuietWrite
<1>5. st' = [st EXCEPT ![e][s] = x] /\ UNCHANGED <<conn, pkt, error>>
  BY DEF Write
<1> HIDE DEF x
<1> QED BY <1>4, <1>5, QuietStreamStep

LEMMA ConcludeStep ==
    ASSUME FlowInv, NEW e \in End, NEW s \in Stream, Conclude(e, s)
    PROVE  FlowInv'
<1> DEFINE t == st[e][s]
           x == UpdateState([t EXCEPT !.sendState = "SEND", !.fin = TRUE],
                            ConnCredit(e))
<1>1. t \in StRec /\ LocalOK(t) /\ ConnCredit(e) \in Int
  BY StateTypes DEF FlowInv, StreamInv
<1>2. t.sendState \in {"READY", "SEND"} /\ ~t.fin
  BY DEF Conclude
<1>3. Quiet(t, x)
  <2> HIDE DEF t
  <2> QED BY <1>1, <1>2, QuietConclude
<1>4. st' = [st EXCEPT ![e][s] = x] /\ UNCHANGED <<conn, pkt, error>>
  BY DEF Conclude
<1> HIDE DEF x
<1> QED BY <1>3, <1>4, QuietStreamStep

LEMMA EmptyWriteStep ==
    ASSUME FlowInv, NEW e \in End, NEW s \in Stream, ConcludeByEmptyWrite(e, s)
    PROVE  FlowInv'
<1> DEFINE t == st[e][s]
           x == [t EXCEPT !.fin = TRUE]
<1>1. t \in StRec /\ LocalOK(t)
  BY StateTypes DEF FlowInv, StreamInv
<1>2. HasSStream(t) /\ ~t.fin
  BY DEF ConcludeByEmptyWrite
<1>3. Quiet(t, x)
  <2> HIDE DEF t
  <2> QED BY <1>1, <1>2, QuietEmptyWrite
<1>4. st' = [st EXCEPT ![e][s] = x] /\ UNCHANGED <<conn, pkt, error>>
  BY DEF ConcludeByEmptyWrite
<1> HIDE DEF x
<1> QED BY <1>3, <1>4, QuietStreamStep

LEMMA ResetStep ==
    ASSUME FlowInv, NEW e \in End, NEW s \in Stream, Reset(e, s)
    PROVE  FlowInv'
<1>1. st[e][s] \in StRec /\ LocalOK(st[e][s]) /\ ConnCredit(e) \in Int
  BY StateTypes DEF FlowInv, StreamInv
<1>2. Quiet(st[e][s], ResetSendPart(st[e][s], ConnCredit(e)))
  BY <1>1, QuietReset
<1>3. /\ st' = [st EXCEPT ![e][s] = ResetSendPart(st[e][s], ConnCredit(e))]
      /\ UNCHANGED <<conn, pkt, error>>
  BY DEF Reset
<1> QED BY <1>2, <1>3, QuietStreamStep

LEMMA FreeStep ==
    ASSUME FlowInv, NEW e \in End, NEW s \in Stream, Free(e, s)
    PROVE  FlowInv'
<1> DEFINE t == st[e][s]
           c == ConnCredit(e)
           r == IF t.sendState \in {"READY", "SEND"} /\ ~t.fin
                THEN ResetSendPart(t, c) ELSE t
           p == IF r.recvState \in {"RECV", "SIZE_KNOWN"} /\ ~r.stop
                THEN ScheduleStopSending([r EXCEPT !.stop = TRUE], c) ELSE r
           x == UpdateState([p EXCEPT !.deleted = TRUE], c)
<1>1. t \in StRec /\ LocalOK(t) /\ c \in Int
  BY StateTypes DEF FlowInv, StreamInv
<1>2. Quiet(t, x)
  <2> HIDE DEF t, c
  <2> QED BY <1>1, QuietFree
<1>3. st' = [st EXCEPT ![e][s] = x] /\ UNCHANGED <<conn, pkt, error>>
  BY DEF Free
<1> HIDE DEF x
<1> QED BY <1>2, <1>3, QuietStreamStep

LEMMA ReadResetStep ==
    ASSUME FlowInv, NEW e \in End, NEW s \in Stream, ReadReset(e, s)
    PROVE  FlowInv'
<1> DEFINE t == st[e][s]
           x == [t EXCEPT !.recvState = "RESET_READ"]
<1>1. t \in StRec /\ LocalOK(t)
  BY StateTypes DEF FlowInv, StreamInv
<1>2. Quiet(t, x)
  <2> HIDE DEF t
  <2> QED BY <1>1, QuietReadReset
<1>3. st' = [st EXCEPT ![e][s] = x] /\ UNCHANGED <<conn, pkt, error>>
  BY DEF ReadReset
<1> HIDE DEF x
<1> QED BY <1>2, <1>3, QuietStreamStep

\* All the streams of one end change, quietly.
LEMMA QuietEndStep ==
    ASSUME FlowInv, NEW e \in End, NEW x \in [Stream -> StRec],
           \A s \in Stream : Quiet(st[e][s], x[s]),
           st' = [st EXCEPT ![e] = x]
    PROVE  /\ st' \in [End -> [Stream -> StRec]]
           /\ \A p \in End, s \in Stream : Quiet(st[p][s], st'[p][s])
<1>1. Types /\ StreamInv /\ st \in [End -> [Stream -> StRec]]
  BY DEF FlowInv, Types
<1>2. st' \in [End -> [Stream -> StRec]]
  BY <1>1
<1>3. \A p \in End : st'[p] = IF p = e THEN x ELSE st[p]
  BY <1>1
<1>4. \A p \in End, s \in Stream : Quiet(st[p][s], st[p][s])
  BY <1>1, QuietRefl DEF StreamInv
<1>5. \A p \in End, s \in Stream : Quiet(st[p][s], st'[p][s])
  BY <1>3, <1>4
<1> QED BY <1>2, <1>5

\* The credit e has granted is known, due or in flight.
CreditKnown(e) ==
    \/ conn[Peer(e)].txCwm = conn[e].rx.cwm
    \/ conn[e].wantMaxData \/ conn[e].rx.changed
    \/ \E i \in Slot : /\ pkt[i] # NoPkt /\ pkt[i].from = e /\ pkt[i].inflight
                       /\ pkt[i].maxData = conn[e].rx.cwm

LEMMA CreditKnownIs ==
    /\ ConnCreditNotForgotten <=> \A e \in End : CreditKnown(e)
    /\ ConnCreditNotForgotten' <=> \A e \in End : CreditKnown(e)'
BY DEF ConnCreditNotForgotten, CreditKnown, InFlight, UnderWay

LEMMA DropStep ==
    ASSUME FlowInv, NEW i \in Slot, Drop(i)
    PROVE  FlowInv'
<1>1. /\ pkt[i] # NoPkt /\ ~pkt[i].inflight /\ pkt' = [pkt EXCEPT ![i] = NoPkt]
      /\ UNCHANGED <<st, conn, error>>
  BY DEF Drop
<1>2. Types /\ StreamInv /\ ConnCreditNotForgotten /\ pkt \in [Slot -> PktRec \cup {NoPkt}]
  BY DEF FlowInv, Types
<1>3. Types'
  BY <1>1, <1>2 DEF Types
<1>4. \A j \in Slot : pkt'[j] = IF j = i THEN NoPkt ELSE pkt[j]
  BY <1>1, <1>2
<1>5. PacketsKept
  BY <1>1, <1>4 DEF PacketsKept
<1>6. \A p \in End, s \in Stream : Quiet(st[p][s], st'[p][s])
  BY <1>1, <1>2, QuietRefl, StateTypes DEF StreamInv
<1>7. ConnCreditNotForgotten'
  <2>1. \A e \in End : CreditKnown(e) => CreditKnown(e)'
    BY <1>1, <1>4 DEF CreditKnown
  <2> QED BY <1>2, <2>1, CreditKnownIs
<1> QED BY <1>1, <1>3, <1>5, <1>6, <1>7, QuietStep

LEMMA AckStep ==
    ASSUME FlowInv, NEW i \in Slot, Ack(i)
    PROVE  FlowInv'
<1> DEFINE e == pkt[i].from
           x == [s \in Stream |-> OnAcked(st[e][s], pkt[i].str[s], ConnCredit(e))]
<1>1. /\ pkt[i] # NoPkt /\ pkt[i].inflight /\ ~pkt[i].onWire
      /\ st' = [st EXCEPT ![e] = x]
      /\ pkt' = [pkt EXCEPT ![i] = NoPkt]
      /\ UNCHANGED <<conn, error>>
  BY DEF Ack
<1>2. /\ Types /\ StreamInv /\ PacketInv /\ ConnInv /\ MaxDataInv
      /\ ConnCreditNotForgotten /\ pkt \in [Slot -> PktRec \cup {NoPkt}]
  BY DEF FlowInv, Types
<1>3. e \in End /\ \A s \in Stream : pkt[i].str[s] \in FrameRec
  BY <1>1, <1>2, PacketTypes
<1>4. \A s \in Stream : Quiet(st[e][s], OnAcked(st[e][s], pkt[i].str[s], ConnCredit(e)))
  <2> TAKE s \in Stream
  <2>1. st[e][s] \in StRec /\ ConnCredit(e) \in Int
    BY <1>2, <1>3, StateTypes
  <2>2. LocalOK(st[e][s]) /\ FrameOK(st[e][s], pkt[i].str[s])
    BY <1>1, <1>2, <1>3 DEF StreamInv, PacketInv
  <2> QED BY <1>3, <2>1, <2>2, QuietAcked
<1>5. x \in [Stream -> StRec] /\ \A s \in Stream : Quiet(st[e][s], x[s])
  BY <1>4 DEF Quiet
<1>6. /\ st' \in [End -> [Stream -> StRec]]
      /\ \A p \in End, s \in Stream : Quiet(st[p][s], st'[p][s])
  <2> HIDE DEF x, e
  <2> QED BY <1>1, <1>3, <1>5, QuietEndStep
<1>7. Types'
  <2>1. pkt' \in [Slot -> PktRec \cup {NoPkt}]
    BY <1>1, <1>2
  <2> QED BY <1>1, <1>2, <1>6, <2>1 DEF Types
<1>8. \A j \in Slot : pkt'[j] = IF j = i THEN NoPkt ELSE pkt[j]
  BY <1>1, <1>2
<1>9. PacketsKept
  BY <1>8 DEF PacketsKept
<1>10. ConnCreditNotForgotten'
  <2>1. ASSUME NEW a \in End, CreditKnown(a) PROVE CreditKnown(a)'
    <3>1. CASE pkt[i].from = a /\ pkt[i].maxData = conn[a].rx.cwm
      <4>1. conn[a].rx.cwm <= conn[Peer(a)].txCwm
        BY <1>1, <1>2, <3>1 DEF MaxDataInv
      <4>2. conn[Peer(a)].txCwm <= conn[a].rx.cwm
        BY <1>2, PeerFacts DEF ConnInv
      <4>3. conn[a].rx.cwm \in Nat /\ conn[Peer(a)].txCwm \in Nat
        BY <1>2, PeerFacts, StateTypes
      <4>4. conn[Peer(a)].txCwm = conn[a].rx.cwm
        BY <4>1, <4>2, <4>3
      <4> QED BY <1>1, <4>4 DEF CreditKnown
    <3>2. CASE ~(pkt[i].from = a /\ pkt[i].maxData = conn[a].rx.cwm)
      BY <1>1, <1>8, <2>1, <3>2 DEF CreditKnown
    <3> QED BY <3>1, <3>2
  <2> QED BY <1>2, <2>1, CreditKnownIs
<1> QED BY <1>1, <1>6, <1>7, <1>9, <1>10, QuietStep

LEMMA LoseStep ==
    ASSUME FlowInv, NEW i \in Slot, Lose(i)
    PROVE  FlowInv'
<1> DEFINE e == pkt[i].from
           x == [s \in Stream |-> OnLost(st[e][s], pkt[i].str[s], ConnCredit(e))]
           q == [pkt[i] EXCEPT !.inflight = FALSE]
           b == (conn[e].wantMaxData \/ pkt[i].maxData # None)
<1>1. /\ pkt[i] # NoPkt /\ pkt[i].inflight
      /\ st' = [st EXCEPT ![e] = x]
      /\ conn' = [conn EXCEPT ![e] = ConnOnLost(@, pkt[i])]
      /\ pkt' = [pkt EXCEPT ![i] = Keep(q)]
      /\ error' = error
  BY DEF Lose
<1>2. /\ Types /\ StreamInv /\ PacketInv
      /\ ConnCreditNotForgotten /\ pkt \in [Slot -> PktRec \cup {NoPkt}]
      /\ conn \in [End -> ConnRec]
  BY DEF FlowInv, Types
<1>3. /\ e \in End /\ pkt[i] \in PktRec
      /\ \A s \in Stream : pkt[i].str[s] \in FrameRec
  BY <1>1, <1>2, PacketTypes
<1>4. \A s \in Stream : Quiet(st[e][s], OnLost(st[e][s], pkt[i].str[s], ConnCredit(e)))
  <2> TAKE s \in Stream
  <2>1. st[e][s] \in StRec /\ ConnCredit(e) \in Int
    BY <1>2, <1>3, StateTypes
  <2>2. LocalOK(st[e][s]) /\ FrameOK(st[e][s], pkt[i].str[s])
    BY <1>1, <1>2, <1>3 DEF StreamInv, PacketInv
  <2> QED BY <1>3, <2>1, <2>2, QuietLost
<1>5. x \in [Stream -> StRec] /\ \A s \in Stream : Quiet(st[e][s], x[s])
  BY <1>4 DEF Quiet
<1>6. /\ st' \in [End -> [Stream -> StRec]]
      /\ \A p \in End, s \in Stream : Quiet(st[p][s], st'[p][s])
  <2> HIDE DEF x, e
  <2> QED BY <1>1, <1>3, <1>5, QuietEndStep
<1>7. /\ q \in PktRec /\ q.from = pkt[i].from /\ q.str = pkt[i].str
      /\ q.maxData = pkt[i].maxData /\ q.onWire = pkt[i].onWire
  BY <1>3 DEF PktRec
<1>8. Keep(q) \in {NoPkt, q}
  BY DEF Keep
<1> HIDE DEF q
<1>9. \A j \in Slot : pkt'[j] = IF j = i THEN Keep(q) ELSE pkt[j]
  BY <1>1, <1>2
<1>10. PacketsKept
  BY <1>1, <1>7, <1>8, <1>9 DEF PacketsKept
<1>11. /\ conn'[e] \in ConnRec
       /\ conn'[e].txSwm = conn[e].txSwm /\ conn'[e].txCwm = conn[e].txCwm
       /\ conn'[e].rx = conn[e].rx
       /\ conn'[e].wantMaxData <=> (conn[e].wantMaxData \/ pkt[i].maxData # None)
  <2>1. conn[e] \in ConnRec
    BY <1>2, <1>3
  <2>2. PICK c : c = conn[e]
    OBVIOUS
  <2>3. conn'[e] = [c EXCEPT !.wantMaxData = c.wantMaxData \/ pkt[i].maxData # None]
    BY <1>1, <1>2, <1>3, <2>2 DEF ConnOnLost
  <2> HIDE DEF e
  <2> QED BY <2>1, <2>2, <2>3 DEF ConnRec
<1>12. \A p \in End : p # e => conn'[p] = conn[p]
  BY <1>1, <1>2, <1>3
<1>13. conn' \in [End -> ConnRec]
  <2>1. DOMAIN conn' = End /\ conn' = [p \in End |-> conn'[p]]
    BY <1>1, <1>2
  <2> HIDE DEF e
  <2>2. \A p \in End : conn'[p] \in ConnRec
    BY <1>2, <1>11, <1>12
  <2> QED BY <2>1, <2>2
<1>14. Types'
  <2>1. pkt' \in [Slot -> PktRec \cup {NoPkt}]
    BY <1>1, <1>2, <1>7, <1>8
  <2> QED BY <1>1, <1>2, <1>6, <1>13, <2>1 DEF Types
<1>15. \A p \in End : /\ conn'[p].txSwm = conn[p].txSwm
                      /\ conn'[p].txCwm = conn[p].txCwm
                      /\ conn'[p].rx = conn[p].rx
                      /\ conn[p].wantMaxData => conn'[p].wantMaxData
  <2> HIDE DEF e
  <2> QED BY <1>11, <1>12
<1>16. ConnCreditNotForgotten'
  <2>1. ASSUME NEW a \in End, CreditKnown(a) PROVE CreditKnown(a)'
    <3>0. Peer(a) \in End /\ conn[a].rx.cwm \in Nat
      BY <1>2, PeerFacts, StateTypes
    <3>1. CASE pkt[i].from = a /\ pkt[i].maxData = conn[a].rx.cwm
      <4>1. pkt[i].maxData # None
        BY <3>0, <3>1 DEF None
      <4>2. conn'[a].wantMaxData
        BY <1>11, <3>1, <4>1
      <4> QED BY <4>2 DEF CreditKnown
    <3>2. CASE ~(pkt[i].from = a /\ pkt[i].maxData = conn[a].rx.cwm)
      BY <1>9, <1>15, <2>1, <3>0, <3>2 DEF CreditKnown
    <3> QED BY <3>1, <3>2
  <2> QED BY <1>2, <2>1, CreditKnownIs
<1> QED BY <1>1, <1>6, <1>10, <1>14, <1>15, <1>16, QuietStep

-----------------------------------------------------------------------------
(* Reading *)

LEMMA ReadStep ==
    ASSUME FlowInv, NEW e \in End, NEW s \in Stream, NEW n \in 0..MaxSize,
           NEW dblStream \in BOOLEAN, NEW dblConn \in BOOLEAN,
           Read(e, s, n, dblStream, dblConn)
    PROVE  FlowInv'
<1> DEFINE t   == st[e][s]
           all == n = Cardinality(Readable(t)) /\ FinReadable(t)
           rx  == RxRetire(t.rx, n, 0, dblStream)
           rs  == IF all /\ t.recvState = "DATA_RECVD" THEN "DATA_READ" ELSE t.recvState
           u   == [t EXCEPT !.rx = IF n = 0 THEN @ ELSE rx,
                            !.got = @ \ t.rx.rwm..(t.rx.rwm + n - 1),
                            !.recvState = rs]
           v   == IF n = 0 THEN u ELSE UpdateState(u, ConnCredit(e))
<1>1. /\ st' = [st EXCEPT ![e][s] = v]
      /\ n <= Cardinality(Readable(t))
      /\ conn' = IF n = 0 THEN conn
                 ELSE [conn EXCEPT ![e] = ConnRetire(@, n, rx.win, dblConn)]
      /\ pkt' = pkt /\ error' = error
  BY DEF Read
<1>2. /\ Types /\ StreamInv /\ PacketInv /\ ConnInv /\ MaxDataInv
      /\ NoProtocolError /\ ConnAccounting /\ ConnCreditNotForgotten
      /\ conn \in [End -> ConnRec] /\ st \in [End -> [Stream -> StRec]]
  BY DEF FlowInv, Types
<1>3. t \in StRec /\ LocalOK(t) /\ ConnCredit(e) \in Int /\ n \in Nat
  <2>1. t \in StRec /\ ConnCredit(e) \in Int
    BY <1>2, StateTypes
  <2>2. LocalOK(t)
    BY <1>2 DEF StreamInv
  <2>3. n \in Nat
    BY MaxSizeAssumption
  <2> QED BY <2>1, <2>2, <2>3
<1>4. rs \in RecvStates
  <2>1. t.recvState \in RecvStates
    BY <1>3, StFields
  <2> QED BY <2>1 DEF RecvStates
<1>5. /\ v \in StRec /\ LocalOK(v) /\ Adv(t, v)
      /\ SameCredit(t, v) /\ (Ended(t) => Ended(v))
      /\ v.rx.hwm = t.rx.hwm /\ v.rx.swm = t.rx.swm /\ v.rx.fin = t.rx.fin
      /\ v.rx.rwm = t.rx.rwm + n /\ v.rx.cwm >= t.rx.cwm
      /\ rx.win \in Nat
  <2>1. ReadDone(t, n, v) /\ rx.win \in Nat
    <3> HIDE DEF t, rs
    <3> QED BY <1>1, <1>3, <1>4, ReadEffect, Zenon
  <2> HIDE DEF t, v, rx
  <2> QED BY <2>1 DEF ReadDone
<1> HIDE DEF v, rx
<1>6. /\ st' \in [End -> [Stream -> StRec]]
      /\ st'[e][s] = v
      /\ \A p \in End, z \in Stream : (p = e /\ z = s) \/ st'[p][z] = st[p][z]
  BY <1>1, <1>2, <1>5
<1> HIDE DEF u, t
<1>7. /\ conn'[e] \in ConnRec
      /\ conn'[e].txSwm = conn[e].txSwm /\ conn'[e].txCwm = conn[e].txCwm
      /\ conn'[e].wantMaxData = conn[e].wantMaxData
      /\ Retired(conn[e].rx, n, conn'[e].rx)
  <2>1. /\ conn[e] \in ConnRec /\ conn[e].rx \in RxRec
        /\ conn[e].rx.cwm \in Nat /\ conn[e].rx.rwm \in Nat /\ conn[e].rx.max \in Nat
        /\ conn[e].rx.cwm - conn[e].rx.rwm <= conn[e].rx.max
    BY <1>2, StateTypes DEF ConnInv
  <2>2. CASE n = 0
    <3>1. conn'[e] = conn[e]
      BY <1>1, <2>2
    <3>2. Retired(conn[e].rx, n, conn[e].rx)
      <4>1. conn[e].rx.rwm = conn[e].rx.rwm + n /\ conn[e].rx.cwm >= conn[e].rx.cwm
        BY <2>1, <2>2
      <4> QED BY <2>1, <4>1 DEF Retired
    <3> QED BY <2>1, <3>1, <3>2
  <2>3. CASE n # 0
    <3>1. PICK c : c = conn[e]
      OBVIOUS
    <3>2. PICK w : w = RxRetire(c.rx, n, rx.win, dblConn)
      OBVIOUS
    <3>3. conn'[e] = [c EXCEPT !.rx = w]
      BY <1>1, <1>2, <2>3, <3>1, <3>2 DEF ConnRetire
    <3>4. Retired(c.rx, n, w)
      BY <1>3, <1>5, <2>1, <3>1, <3>2, RetireEffect
    <3>5. w \in RxRec
      BY <3>4 DEF Retired
    <3>6. c \in ConnRec
      BY <2>1, <3>1
    <3>7. /\ conn'[e] \in ConnRec /\ conn'[e].txSwm = c.txSwm
          /\ conn'[e].txCwm = c.txCwm /\ conn'[e].wantMaxData = c.wantMaxData
          /\ conn'[e].rx = w
      BY <3>3, <3>5, <3>6 DEF ConnRec
    <3> QED BY <3>1, <3>4, <3>7
  <2> QED BY <2>2, <2>3
<1>8. \A p \in End : p # e => conn'[p] = conn[p]
  BY <1>1, <1>2
<1>9. conn' \in [End -> ConnRec]
  <2>1. conn' = [p \in End |-> conn'[p]]
    BY <1>1, <1>2
  <2>2. \A p \in End : conn'[p] \in ConnRec
    BY <1>2, <1>7, <1>8
  <2> QED BY <2>1, <2>2
<1>10. Types'
  BY <1>1, <1>2, <1>6, <1>9 DEF Types
<1>11. StreamInv'
  <2> SUFFICES ASSUME NEW p \in End, NEW z \in Stream
               PROVE  LocalOK(st'[p][z]) /\ FlowOK(st'[p][z], st'[Peer(p)][z])
    BY DEF StreamInv
  <2>1. LocalOK(st[p][z]) /\ FlowOK(st[p][z], st[Peer(p)][z])
    BY <1>2 DEF StreamInv
  <2>2. Peer(p) \in End /\ Peer(p) # p
    BY PeerFacts
  <2>3. CASE p = e /\ z = s
    <3>1. st'[p][z] = v /\ st[p][z] = t /\ st'[Peer(p)][z] = st[Peer(p)][z]
      BY <1>6, <2>2, <2>3 DEF t
    <3>2. FlowOK(v, st[Peer(p)][z])
      BY <1>5, <2>1, <3>1 DEF FlowOK, SameCredit
    <3> QED BY <1>5, <3>1, <3>2
  <2>4. CASE Peer(p) = e /\ z = s
    <3>1. st'[p][z] = st[p][z] /\ st[Peer(p)][z] = t /\ st'[Peer(p)][z] = v
      BY <1>6, <2>2, <2>4 DEF t
    <3>2. st[p][z].txCwm \in Nat /\ t.rx.cwm \in Nat /\ v.rx.cwm \in Nat
      BY <1>2, <1>3, <1>5, StateTypes, StFields
    <3>3. FlowOK(st[p][z], v)
      BY <1>5, <2>1, <3>1, <3>2 DEF FlowOK
    <3> QED BY <2>1, <3>1, <3>3
  <2>5. CASE ~(p = e /\ z = s) /\ ~(Peer(p) = e /\ z = s)
    BY <1>6, <2>1, <2>2, <2>5
  <2> QED BY <2>3, <2>4, <2>5
<1>12. PacketInv'
  <2>1. \A p \in End, z \in Stream : Adv(st[p][z], st'[p][z])
    <3> TAKE p \in End, z \in Stream
    <3>1. CASE p = e /\ z = s
      BY <1>5, <1>6, <3>1 DEF t
    <3>2. CASE ~(p = e /\ z = s)
      <4>1. st[p][z] \in StRec /\ LocalOK(st[p][z])
        BY <1>2, StateTypes DEF StreamInv
      <4>2. Adv(st[p][z], st[p][z])
        BY <4>1, QuietRefl, QuietAdv
      <4> QED BY <1>6, <3>2, <4>2
    <3> QED BY <3>1, <3>2
  <2>2. PacketsKept
    BY <1>1 DEF PacketsKept
  <2> QED BY <1>2, <1>10, <2>1, <2>2, FramesKept
<1>13. /\ conn'[e].rx.swm = conn[e].rx.swm /\ conn'[e].rx.rwm = conn[e].rx.rwm + n
       /\ conn'[e].rx.max = conn[e].rx.max /\ conn'[e].rx.err = conn[e].rx.err
       /\ conn'[e].rx.cwm >= conn[e].rx.cwm
       /\ conn'[e].rx.cwm - conn'[e].rx.rwm <= conn'[e].rx.max
       /\ conn[e].rx.changed => conn'[e].rx.changed
       /\ conn'[e].rx.cwm # conn[e].rx.cwm => conn'[e].rx.changed
  BY <1>7 DEF Retired
<1>14. \A p \in End : /\ conn'[p].txSwm = conn[p].txSwm /\ conn'[p].txCwm = conn[p].txCwm
                      /\ conn'[p].wantMaxData = conn[p].wantMaxData
                      /\ conn'[p].rx.cwm >= conn[p].rx.cwm
                      /\ conn'[p].rx.err = conn[p].rx.err
                      /\ conn'[p].rx.max = conn[p].rx.max
                      /\ conn'[p].rx.cwm \in Nat /\ conn[p].rx.cwm \in Nat
                      /\ conn[p].txCwm \in Nat
  <2> TAKE p \in End
  <2>1. conn[p].rx.cwm \in Nat /\ conn[p].txCwm \in Nat
    BY <1>2, StateTypes
  <2>2. conn'[p].rx.cwm \in Nat
    BY <1>9 DEF ConnRec, RxRec
  <2>3. CASE p = e
    BY <1>7, <1>13, <2>1, <2>2, <2>3
  <2>4. CASE p # e
    BY <1>8, <2>1, <2>2, <2>4
  <2> QED BY <2>3, <2>4
<1>15. ConnInv'
  <2> SUFFICES ASSUME NEW p \in End
               PROVE  /\ conn'[p].txSwm <= conn'[p].txCwm
                      /\ conn'[p].txCwm <= conn'[Peer(p)].rx.cwm
                      /\ conn'[p].rx.max = ConnMaxWnd
                      /\ conn'[p].rx.cwm - conn'[p].rx.rwm <= ConnMaxWnd
    BY DEF ConnInv
  <2>0. /\ conn[p].txSwm <= conn[p].txCwm
        /\ conn[p].txCwm <= conn[Peer(p)].rx.cwm
        /\ conn[p].rx.max = ConnMaxWnd
        /\ conn[p].rx.cwm - conn[p].rx.rwm <= ConnMaxWnd
    BY <1>2 DEF ConnInv
  <2>1. Peer(p) \in End
    BY PeerFacts
  <2>2. conn'[p].txCwm <= conn'[Peer(p)].rx.cwm
    BY <1>14, <2>0, <2>1
  <2>3. conn'[p].rx.cwm - conn'[p].rx.rwm <= ConnMaxWnd
    BY <1>8, <1>13, <2>0
  <2> QED BY <1>14, <2>0, <2>2, <2>3
<1>16. MaxDataInv'
  <2> SUFFICES ASSUME NEW i \in Slot, pkt[i] # NoPkt
               PROVE  /\ pkt[i].maxData <= conn'[pkt[i].from].rx.cwm
                      /\ pkt[i].onWire
                         \/ pkt[i].maxData <= conn'[Peer(pkt[i].from)].txCwm
    BY <1>1 DEF MaxDataInv
  <2>1. pkt[i].from \in End /\ Peer(pkt[i].from) \in End /\ pkt[i].maxData \in Int
    BY <1>2, PacketTypes, PeerFacts
  <2>2. /\ pkt[i].maxData <= conn[pkt[i].from].rx.cwm
        /\ pkt[i].onWire \/ pkt[i].maxData <= conn[Peer(pkt[i].from)].txCwm
    BY <1>2 DEF MaxDataInv
  <2>3. pkt[i].maxData <= conn'[pkt[i].from].rx.cwm
    BY <1>14, <2>1, <2>2
  <2> QED BY <1>14, <2>1, <2>2, <2>3
<1>17. NoProtocolError'
  BY <1>1, <1>2, <1>14 DEF NoProtocolError
<1>18. ConnAccounting'
  <2> SUFFICES ASSUME NEW p \in End
               PROVE  /\ conn'[p].txSwm = SumFunction([z \in Stream |-> st'[p][z].txSwm])
                      /\ conn'[p].rx.swm = SumFunction([z \in Stream |-> st'[p][z].rx.swm])
                      /\ conn'[p].rx.rwm = SumFunction([z \in Stream |-> st'[p][z].rx.rwm])
    BY DEF ConnAccounting
  <2>1. CASE p # e
    BY <1>2, <1>6, <1>8, <2>1, SameSums
  <2>2. CASE p = e
    <3>1. /\ conn[e].txSwm = SumFunction([z \in Stream |-> st[e][z].txSwm])
          /\ conn[e].rx.swm = SumFunction([z \in Stream |-> st[e][z].rx.swm])
          /\ conn[e].rx.rwm = SumFunction([z \in Stream |-> st[e][z].rx.rwm])
      BY <1>2 DEF ConnAccounting
    <3>2. \A z \in Stream : st'[e][z].txSwm = st[e][z].txSwm /\ st'[e][z].rx.swm = st[e][z].rx.swm
      BY <1>5, <1>6 DEF SameCredit, t
    <3>3. [z \in Stream |-> st'[e][z].txSwm] = [z \in Stream |-> st[e][z].txSwm]
      BY <3>2
    <3>4. [z \in Stream |-> st'[e][z].rx.swm] = [z \in Stream |-> st[e][z].rx.swm]
      BY <3>2
    <3>5. PICK f : f = [z \in Stream |-> st[e][z].rx.rwm]
      OBVIOUS
    <3>6. PICK h : h = [z \in Stream |-> st'[e][z].rx.rwm]
      OBVIOUS
    <3>7. \A z \in Stream : st[e][z].rx.rwm \in Nat /\ st'[e][z].rx.rwm \in Nat
      BY <1>2, <1>6, StFields
    <3>8. f \in [Stream -> Int] /\ h \in [Stream -> Int]
      BY <3>5, <3>6, <3>7
    <3>9. \A z \in Stream : z # s => h[z] = f[z]
      BY <1>6, <3>5, <3>6
    <3>10. h[s] = f[s] + n /\ f[s] \in Nat
      BY <1>5, <1>6, <3>5, <3>6, <3>7 DEF t
    <3>11. SumFunction(h) = SumFunction(f) + (h[s] - f[s])
      BY <3>8, <3>9, SumChange, StreamAssumption
    <3>12. SumFunction(f) \in Int
      BY <3>8, SumType, StreamAssumption
    <3>13. h[s] - f[s] = n
      BY <1>3, <3>10
    <3>14. SumFunction(h) = conn[e].rx.rwm + n
      BY <3>1, <3>5, <3>11, <3>13
    <3> QED BY <1>7, <1>13, <2>2, <3>1, <3>3, <3>4, <3>6, <3>14
  <2> QED BY <2>1, <2>2
<1>19. ConnCreditNotForgotten'
  <2>1. ASSUME NEW a \in End, CreditKnown(a) PROVE CreditKnown(a)'
    <3>0. Peer(a) \in End
      BY PeerFacts
    <3>1. CASE a = e /\ conn'[e].rx.cwm # conn[e].rx.cwm
      BY <1>13, <3>1 DEF CreditKnown
    <3>2. CASE a = e /\ conn'[e].rx.cwm = conn[e].rx.cwm
      BY <1>1, <1>13, <1>14, <2>1, <3>0, <3>2 DEF CreditKnown
    <3>3. CASE a # e
      BY <1>1, <1>8, <1>14, <2>1, <3>0, <3>3 DEF CreditKnown
    <3> QED BY <3>1, <3>2, <3>3
  <2> QED BY <1>2, <2>1, CreditKnownIs
<1> QED BY <1>10, <1>11, <1>12, <1>15, <1>16, <1>17, <1>18, <1>19 DEF FlowInv

-----------------------------------------------------------------------------
(* Sending *)

\* t has sent the frames f for k bytes of credit and becomes u.
SentDone(t, u, f, k) ==
    /\ f \in FrameRec /\ u \in StRec /\ LocalOK(u) /\ Adv(t, u)
    /\ FrameOK(u, f)
    /\ u.txSwm = t.txSwm + k /\ u.txCwm = t.txCwm
    /\ SameRx(t.rx, u.rx)
    /\ k \in Nat

LEMMA NotServed ==
    ASSUME NEW t \in StRec, LocalOK(t)
    PROVE  SentDone(t, t, NoFrames, 0)
<1>1. NoFrames \in FrameRec
  BY DEF NoFrames, FrameRec, None
<1>2. /\ NoFrames.end = -1 /\ NoFrames.bytes = {} /\ NoFrames.maxStreamData = -1
      /\ ~NoFrames.fin /\ NoFrames.reset = None
  BY DEF NoFrames, None
<1>3. t.txSwm \in Nat /\ t.rx.cwm \in Nat
  BY StFields
<1>4. FrameOK(t, NoFrames)
  BY <1>2, <1>3 DEF FrameOK
<1>5. Adv(t, t)
  BY QuietRefl, QuietAdv
<1> QED BY <1>1, <1>3, <1>4, <1>5 DEF SentDone, SameRx

LEMMA TxStreams ==
    ASSUME FlowInv, NEW e \in End, NEW served \in SUBSET Stream,
           NEW cut \in [Stream -> 0..MaxSize], NEW fin \in SUBSET Stream,
           NEW c \in Int, NEW s \in Stream, NEW bytes, NEW used, NEW str, NEW u,
           bytes = (IF s \in served THEN Chunk(st[e][s], cut[s]) ELSE {}),
           used = NewCredit(st[e][s], bytes),
           str = (IF s \in served THEN StreamFrames(st[e][s], bytes, s \in fin)
                  ELSE NoFrames),
           u = (IF s \in served THEN AfterTx(st[e][s], str, used, c) ELSE st[e][s]),
           (s \in fin) \in
                (IF s \in served THEN FinChoices(st[e][s], bytes) ELSE {FALSE})
    PROVE  SentDone(st[e][s], u, str, used)
<1>1. st[e][s] \in StRec /\ LocalOK(st[e][s])
  BY StateTypes DEF FlowInv, StreamInv
<1>2. CASE s \notin served
  <2>1. bytes = {} /\ str = NoFrames /\ u = st[e][s] /\ used = 0
    BY <1>2 DEF NewCredit
  <2> QED BY <1>1, <2>1, NotServed
<1>3. CASE s \in served
  <2>1. PICK t : t = st[e][s]
    OBVIOUS
  <2>2. bytes \subseteq t.new /\ (~HasSStream(t) => bytes = {})
    BY <1>3, <2>1 DEF Chunk
  <2>3. PICK b \in BOOLEAN : b = (s \in fin)
    <3>1. CASE s \in fin
      <4>1. TRUE = (s \in fin)
        BY <3>1
      <4> QED BY <4>1
    <3>2. CASE s \notin fin
      <4>1. FALSE = (s \in fin)
        BY <3>2
      <4> QED BY <4>1
    <3> QED BY <3>1, <3>2
  <2>4. /\ b \in FinChoices(t, bytes) /\ str = StreamFrames(t, bytes, b)
        /\ u = AfterTx(t, str, NewCredit(t, bytes), c) /\ used = NewCredit(t, bytes)
    BY <1>3, <2>1, <2>3
  <2>5. t \in StRec /\ LocalOK(t)
    BY <1>1, <2>1
  <2>6. /\ str \in FrameRec /\ u \in StRec /\ LocalOK(u) /\ Adv(t, u)
        /\ FrameOK(u, str)
        /\ u.txSwm = t.txSwm + NewCredit(t, bytes) /\ u.txCwm = t.txCwm
        /\ SameRx(t.rx, u.rx)
    BY <2>2, <2>4, <2>5, SentStream
  <2>7. used \in Nat
    BY <2>2, <2>4, <2>5, NewCreditFacts
  <2> QED BY <2>1, <2>4, <2>6, <2>7 DEF SentDone
<1> QED BY <1>2, <1>3

LEMMA TxStep ==
    ASSUME FlowInv, NEW e \in End, NEW i \in Slot, NEW served \in SUBSET Stream,
           NEW cut \in [Stream -> 0..MaxSize], NEW fin \in SUBSET Stream,
           TxPacket(e, i, served, cut, fin)
    PROVE  FlowInv'
<1> DEFINE bytes == [s \in Stream |-> IF s \in served THEN Chunk(st[e][s], cut[s])
                                      ELSE {}]
           used  == [s \in Stream |-> NewCredit(st[e][s], bytes[s])]
           str   == [s \in Stream |->
                       IF s \in served
                       THEN StreamFrames(st[e][s], bytes[s], s \in fin)
                       ELSE NoFrames]
           md    == IF conn[e].wantMaxData \/ conn[e].rx.changed
                    THEN conn[e].rx.cwm ELSE None
           spent == conn[e].txSwm + SumFunction(used)
           x     == [s \in Stream |->
                       IF s \in served
                       THEN AfterTx(st[e][s], str[s], used[s], conn[e].txCwm - spent)
                       ELSE st[e][s]]
           p     == [from |-> e, maxData |-> md, str |-> str,
                     onWire |-> TRUE, inflight |-> TRUE]
<1>1. /\ pkt[i] = NoPkt
      /\ \A s \in Stream : (s \in fin) \in
                (IF s \in served THEN FinChoices(st[e][s], bytes[s]) ELSE {FALSE})
      /\ WithinCredit(e, used)
      /\ st' = [st EXCEPT ![e] = x]
      /\ conn' = [conn EXCEPT ![e].txSwm = spent,
                              ![e].wantMaxData = FALSE,
                              ![e].rx.changed = FALSE]
      /\ pkt' = [pkt EXCEPT ![i] = p]
      /\ error' = error
  BY DEF TxPacket
<1>2. /\ Types /\ StreamInv /\ PacketInv /\ ConnInv /\ MaxDataInv
      /\ NoProtocolError /\ ConnAccounting /\ ConnCreditNotForgotten
      /\ conn \in [End -> ConnRec] /\ st \in [End -> [Stream -> StRec]]
      /\ pkt \in [Slot -> PktRec \cup {NoPkt}]
  BY DEF FlowInv, Types
<1>3. /\ conn[e] \in ConnRec /\ conn[e].rx \in RxRec /\ conn[e].rx.cwm \in Nat
      /\ conn[e].txSwm \in Nat /\ conn[e].txCwm \in Nat
  BY <1>2, StateTypes
<1>4. used \in [Stream -> Nat] /\ SumFunction(used) \in Nat
  <2>1. \A s \in Stream : NewCredit(st[e][s], bytes[s]) \in Nat
    <3> TAKE s \in Stream
    <3>1. st[e][s] \in StRec /\ LocalOK(st[e][s])
      BY <1>2, StateTypes DEF StreamInv
    <3>2. bytes[s] \subseteq st[e][s].new
      BY DEF Chunk
    <3> HIDE DEF bytes
    <3> QED BY <3>1, <3>2, NewCreditFacts
  <2>2. used \in [Stream -> Nat]
    <3> HIDE DEF bytes
    <3> QED BY <2>1
  <2> HIDE DEF used
  <2> QED BY <2>2, SumNat, StreamAssumption
<1>5. spent \in Nat /\ conn[e].txCwm - spent \in Int
  <2> HIDE DEF used
  <2> QED BY <1>3, <1>4
<1>6. \A s \in Stream : SentDone(st[e][s], x[s], str[s], used[s])
  <2> TAKE s \in Stream
  <2>1. bytes[s] = IF s \in served THEN Chunk(st[e][s], cut[s]) ELSE {}
    OBVIOUS
  <2>2. used[s] = NewCredit(st[e][s], bytes[s])
    OBVIOUS
  <2>3. str[s] = IF s \in served THEN StreamFrames(st[e][s], bytes[s], s \in fin)
                 ELSE NoFrames
    OBVIOUS
  <2>4. (s \in fin) \in
                (IF s \in served THEN FinChoices(st[e][s], bytes[s]) ELSE {FALSE})
    BY <1>1
  <2> HIDE DEF bytes, used, str, spent
  <2>5. x[s] = IF s \in served
               THEN AfterTx(st[e][s], str[s], used[s], conn[e].txCwm - spent)
               ELSE st[e][s]
    OBVIOUS
  <2> HIDE DEF x
  <2>6. PICK c \in Int : c = conn[e].txCwm - spent
    BY <1>5
  <2> QED BY <2>1, <2>2, <2>3, <2>4, <2>5, <2>6, TxStreams
<1>7. str \in FrameSet
  <2>1. \A s \in Stream : str[s] \in FrameRec
    BY <1>6 DEF SentDone
  <2>2. str = [s \in Stream |-> str[s]]
    OBVIOUS
  <2> HIDE DEF str
  <2> QED BY <2>1, <2>2 DEF FrameSet
<1>8. x \in [Stream -> StRec]
  <2>1. \A s \in Stream : x[s] \in StRec
    BY <1>6 DEF SentDone
  <2>2. x = [s \in Stream |-> x[s]]
    OBVIOUS
  <2> HIDE DEF x
  <2> QED BY <2>1, <2>2
<1>9. /\ \A s \in Stream : used[s] <= st[e][s].txCwm - st[e][s].txSwm
      /\ spent <= conn[e].txCwm
  <2>1. /\ \A s \in Stream : used[s] <= st[e][s].txCwm - st[e][s].txSwm
        /\ SumFunction(used) <= conn[e].txCwm - conn[e].txSwm
    BY <1>1 DEF WithinCredit, ConnCredit
  <2> HIDE DEF used
  <2> QED BY <1>3, <1>4, <2>1
<1>10. md \in Int /\ md <= conn[e].rx.cwm
       /\ (conn[e].wantMaxData \/ conn[e].rx.changed => md = conn[e].rx.cwm)
  BY <1>3 DEF None
<1> HIDE DEF bytes, str, md, spent, x
<1>11. /\ p \in PktRec /\ p.from = e /\ p.maxData = md /\ p.str = str
       /\ p.onWire /\ p.inflight
  BY <1>7, <1>10 DEF PktRec
<1> HIDE DEF p
<1>12. \A j \in Slot : pkt'[j] = IF j = i THEN p ELSE pkt[j]
  BY <1>1, <1>2
<1>13. /\ st' \in [End -> [Stream -> StRec]] /\ st'[e] = x
       /\ \A a \in End : a # e => st'[a] = st[a]
  BY <1>1, <1>2, <1>8
<1>14. /\ conn'[e] \in ConnRec
       /\ conn'[e].txSwm = spent /\ conn'[e].txCwm = conn[e].txCwm
       /\ SameRx(conn[e].rx, conn'[e].rx)
  <2>1. PICK c : c = conn[e]
    OBVIOUS
  <2>2. PICK q : q = [c.rx EXCEPT !.changed = FALSE]
    OBVIOUS
  <2>3. conn'[e] = [c EXCEPT !.txSwm = spent, !.wantMaxData = FALSE, !.rx = q]
    <3>1. conn'[e] = [[[c EXCEPT !.txSwm = spent] EXCEPT !.wantMaxData = FALSE]
                        EXCEPT !.rx = [[[c EXCEPT !.txSwm = spent]
                                  EXCEPT !.wantMaxData = FALSE].rx EXCEPT !.changed = FALSE]]
      BY <1>1, <1>2, <2>1
    <3>2. [[c EXCEPT !.txSwm = spent] EXCEPT !.wantMaxData = FALSE].rx = c.rx
      BY <1>3, <2>1 DEF ConnRec
    <3> QED BY <2>2, <3>1, <3>2
  <2>4. c \in ConnRec /\ c.rx \in RxRec
    BY <1>3, <2>1
  <2>5. q \in RxRec /\ SameRx(c.rx, q)
    BY <2>2, <2>4 DEF RxRec, SameRx
  <2>6. /\ conn'[e] \in ConnRec /\ conn'[e].txSwm = spent
        /\ conn'[e].txCwm = c.txCwm /\ conn'[e].rx = q
    BY <1>5, <2>3, <2>4, <2>5 DEF ConnRec
  <2> QED BY <2>1, <2>5, <2>6
<1>15. \A a \in End : a # e => conn'[a] = conn[a]
  BY <1>1, <1>2
<1>16. conn' \in [End -> ConnRec]
  <2> HIDE DEF used
  <2>1. conn' = [a \in End |-> conn'[a]]
    <3>1. conn \in [End -> ConnRec]
      BY <1>2
    <3>2. PICK f : f = [conn EXCEPT ![e].txSwm = spent]
      OBVIOUS
    <3>3. PICK g : g = [f EXCEPT ![e].wantMaxData = FALSE]
      OBVIOUS
    <3>4. f = [a \in End |-> f[a]]
      BY ONLY <3>1, <3>2, e \in End
    <3>5. g = [a \in End |-> g[a]]
      BY ONLY <3>3, <3>4, e \in End
    <3>6. conn' = [g EXCEPT ![e].rx.changed = FALSE]
      BY <1>1, <3>2, <3>3
    <3> QED BY ONLY <3>5, <3>6, e \in End
  <2>2. \A a \in End : conn'[a] \in ConnRec
    BY <1>2, <1>14, <1>15
  <2> QED BY <2>1, <2>2
<1>17. Types'
  <2>1. pkt' \in [Slot -> PktRec \cup {NoPkt}]
    BY <1>1, <1>2, <1>11
  <2> QED BY <1>1, <1>2, <1>13, <1>16, <2>1 DEF Types
<1>18. \A s \in Stream :
         /\ st'[e][s] \in StRec /\ LocalOK(st'[e][s]) /\ Adv(st[e][s], st'[e][s])
         /\ FrameOK(st'[e][s], str[s]) /\ str[s] \in FrameRec
         /\ st'[e][s].txSwm = st[e][s].txSwm + used[s]
         /\ st'[e][s].txCwm = st[e][s].txCwm
         /\ SameRx(st[e][s].rx, st'[e][s].rx)
         /\ used[s] \in Nat
  <2> HIDE DEF used
  <2> QED BY <1>6, <1>13 DEF SentDone
<1> HIDE DEF used
<1>19. StreamInv'
  <2> SUFFICES ASSUME NEW a \in End, NEW s \in Stream
               PROVE  LocalOK(st'[a][s]) /\ FlowOK(st'[a][s], st'[Peer(a)][s])
    BY DEF StreamInv
  <2>1. LocalOK(st[a][s]) /\ FlowOK(st[a][s], st[Peer(a)][s])
    BY <1>2 DEF StreamInv
  <2>2. Peer(a) \in End /\ Peer(a) # a /\ (a # e => Peer(a) = e)
    BY PeerFacts
  <2>3. CASE a = e
    <3>1. st'[Peer(a)][s] = st[Peer(a)][s]
      BY <1>13, <2>2, <2>3
    <3>2. /\ st[e][s].txSwm \in Nat /\ st[e][s].txCwm \in Nat
          /\ st[Peer(e)][s].rx.hwm \in Nat /\ st[Peer(e)][s].rx.cwm \in Nat
      BY <1>2, <2>2, <2>3, StateTypes, StFields
    <3>3. /\ st'[e][s].txSwm >= st[e][s].txSwm
          /\ Ended(st[e][s]) => Ended(st'[e][s]) /\ st'[e][s].txSwm = st[e][s].txSwm
      BY <1>18 DEF Adv
    <3>4. st'[e][s].txSwm <= st'[e][s].txCwm
      BY <1>9, <1>18, <3>2
    <3>5. st[Peer(e)][s].rx.hwm <= st'[e][s].txSwm
      BY <1>18, <2>1, <2>3, <3>2 DEF FlowOK
    <3>6. FlowOK(st'[e][s], st[Peer(e)][s])
      BY <1>18, <2>1, <2>3, <3>3, <3>4, <3>5 DEF FlowOK
    <3> QED BY <1>18, <2>3, <3>1, <3>6
  <2>4. CASE a # e
    <3>1. st'[a][s] = st[a][s] /\ Peer(a) = e
      BY <1>13, <2>2, <2>4
    <3>2. FlowOK(st[a][s], st'[e][s])
      BY <1>18, <2>1, <3>1 DEF FlowOK, SameRx
    <3> QED BY <2>1, <3>1, <3>2
  <2> QED BY <2>3, <2>4
<1>20. \A a \in End, s \in Stream : Adv(st[a][s], st'[a][s])
  <2> TAKE a \in End, s \in Stream
  <2>1. Adv(st[a][s], st[a][s])
    BY <1>2, StateTypes, QuietRefl, QuietAdv DEF StreamInv
  <2> QED BY <1>13, <1>18, <2>1
<1>21. PacketInv'
  <2> SUFFICES ASSUME NEW j \in Slot, pkt'[j] # NoPkt, NEW s \in Stream
               PROVE  FrameOK(st'[pkt'[j].from][s], pkt'[j].str[s])
    BY DEF PacketInv
  <2>1. CASE j = i
    BY <1>11, <1>12, <1>18, <2>1
  <2>2. CASE j # i
    <3>1. pkt'[j] = pkt[j] /\ pkt[j] # NoPkt
      BY <1>12, <2>2
    <3>2. pkt[j].from \in End /\ pkt[j].str[s] \in FrameRec
      BY <1>2, <3>1, PacketTypes
    <3>3. st[pkt[j].from][s] \in StRec /\ st'[pkt[j].from][s] \in StRec
      BY <1>2, <1>13, <3>2
    <3>4. FrameOK(st[pkt[j].from][s], pkt[j].str[s])
      BY <1>2, <3>1 DEF PacketInv
    <3> QED BY <1>20, <3>1, <3>2, <3>3, <3>4, FrameStable
  <2> QED BY <2>1, <2>2
<1>22. \A a \in End : conn'[a].txCwm = conn[a].txCwm /\ SameRx(conn[a].rx, conn'[a].rx)
  BY <1>14, <1>15 DEF SameRx
<1>23. ConnInv'
  <2> SUFFICES ASSUME NEW a \in End
               PROVE  /\ conn'[a].txSwm <= conn'[a].txCwm
                      /\ conn'[a].txCwm <= conn'[Peer(a)].rx.cwm
                      /\ conn'[a].rx.max = ConnMaxWnd
                      /\ conn'[a].rx.cwm - conn'[a].rx.rwm <= ConnMaxWnd
    BY DEF ConnInv
  <2>1. /\ conn[a].txSwm <= conn[a].txCwm
        /\ conn[a].txCwm <= conn[Peer(a)].rx.cwm
        /\ conn[a].rx.max = ConnMaxWnd
        /\ conn[a].rx.cwm - conn[a].rx.rwm <= ConnMaxWnd
    BY <1>2 DEF ConnInv
  <2>2. Peer(a) \in End
    BY PeerFacts
  <2>3. conn'[a].txSwm <= conn'[a].txCwm
    BY <1>9, <1>14, <1>15, <2>1
  <2> QED BY <1>22, <2>1, <2>2, <2>3 DEF SameRx
<1>24. MaxDataInv'
  <2> SUFFICES ASSUME NEW j \in Slot, pkt'[j] # NoPkt
               PROVE  /\ pkt'[j].maxData <= conn'[pkt'[j].from].rx.cwm
                      /\ pkt'[j].onWire
                         \/ pkt'[j].maxData <= conn'[Peer(pkt'[j].from)].txCwm
    BY DEF MaxDataInv
  <2>1. CASE j = i
    BY <1>10, <1>11, <1>12, <1>14, <2>1 DEF SameRx
  <2>2. CASE j # i
    <3>1. pkt'[j] = pkt[j] /\ pkt[j] # NoPkt
      BY <1>12, <2>2
    <3>2. pkt[j].from \in End /\ Peer(pkt[j].from) \in End
      BY <1>2, <3>1, PacketTypes, PeerFacts
    <3> QED BY <1>2, <1>22, <3>1, <3>2 DEF MaxDataInv, SameRx
  <2> QED BY <2>1, <2>2
<1>25. NoProtocolError'
  BY <1>1, <1>2, <1>22 DEF NoProtocolError, SameRx
<1>26. ConnAccounting'
  <2> SUFFICES ASSUME NEW a \in End
               PROVE  /\ conn'[a].txSwm = SumFunction([z \in Stream |-> st'[a][z].txSwm])
                      /\ conn'[a].rx.swm = SumFunction([z \in Stream |-> st'[a][z].rx.swm])
                      /\ conn'[a].rx.rwm = SumFunction([z \in Stream |-> st'[a][z].rx.rwm])
    BY DEF ConnAccounting
  <2>1. CASE a # e
    BY <1>2, <1>13, <1>15, <2>1, SameSums
  <2>2. CASE a = e
    <3>1. /\ conn[e].txSwm = SumFunction([z \in Stream |-> st[e][z].txSwm])
          /\ conn[e].rx.swm = SumFunction([z \in Stream |-> st[e][z].rx.swm])
          /\ conn[e].rx.rwm = SumFunction([z \in Stream |-> st[e][z].rx.rwm])
      BY <1>2 DEF ConnAccounting
    <3>2. [z \in Stream |-> st'[e][z].rx.rwm] = [z \in Stream |-> st[e][z].rx.rwm]
      BY <1>18 DEF SameRx
    <3>3. [z \in Stream |-> st'[e][z].rx.swm] = [z \in Stream |-> st[e][z].rx.swm]
      BY <1>18 DEF SameRx
    <3>4. PICK f : f = [z \in Stream |-> st[e][z].txSwm]
      OBVIOUS
    <3>5. PICK h : h = [z \in Stream |-> st'[e][z].txSwm]
      OBVIOUS
    <3>6. \A z \in Stream : st[e][z].txSwm \in Nat /\ st'[e][z].txSwm \in Nat
      BY <1>2, <1>13, StFields
    <3>7. f \in [Stream -> Int] /\ h \in [Stream -> Int] /\ used \in [Stream -> Int]
      BY <1>4, <3>4, <3>5, <3>6
    <3>8. \A z \in Stream : h[z] = f[z] + used[z]
      BY <1>18, <3>4, <3>5
    <3>9. SumFunction(h) = SumFunction(f) + SumFunction(used)
      BY <3>7, <3>8, SumAdd, StreamAssumption
    <3>10. SumFunction(h) = spent
      BY <3>1, <3>4, <3>9 DEF spent
    <3> QED BY <1>14, <2>2, <3>1, <3>2, <3>3, <3>5, <3>10 DEF SameRx
  <2> QED BY <2>1, <2>2
<1>27. ConnCreditNotForgotten'
  <2>1. ASSUME NEW a \in End, CreditKnown(a) PROVE CreditKnown(a)'
    <3>0. Peer(a) \in End
      BY PeerFacts
    <3>1. conn'[a].rx.cwm = conn[a].rx.cwm /\ conn'[Peer(a)].txCwm = conn[Peer(a)].txCwm
      BY <1>22, <3>0 DEF SameRx
    <3>2. p # NoPkt
      BY <1>11, NoPktIsNone
    <3>3. CASE a = e /\ (conn[e].wantMaxData \/ conn[e].rx.changed)
      <4>1. /\ pkt'[i] # NoPkt /\ pkt'[i].from = a /\ pkt'[i].inflight
            /\ pkt'[i].maxData = conn'[a].rx.cwm
        BY <1>10, <1>11, <1>12, <3>1, <3>2, <3>3
      <4> QED BY <4>1 DEF CreditKnown
    <3>4. CASE ~(conn[a].wantMaxData \/ conn[a].rx.changed)
      <4>1. CASE conn[Peer(a)].txCwm = conn[a].rx.cwm
        BY <3>1, <4>1 DEF CreditKnown
      <4>2. CASE \E j \in Slot : /\ pkt[j] # NoPkt /\ pkt[j].from = a /\ pkt[j].inflight
                                 /\ pkt[j].maxData = conn[a].rx.cwm
        <5>1. PICK j \in Slot : /\ pkt[j] # NoPkt /\ pkt[j].from = a /\ pkt[j].inflight
                                /\ pkt[j].maxData = conn[a].rx.cwm
          BY <4>2
        <5>2. pkt'[j] = pkt[j]
          BY <1>1, <1>12, <5>1
        <5> QED BY <3>1, <5>1, <5>2 DEF CreditKnown
      <4> QED BY <2>1, <3>4, <4>1, <4>2 DEF CreditKnown
    <3>5. CASE a # e /\ (conn[a].wantMaxData \/ conn[a].rx.changed)
      <4>1. conn'[a] = conn[a]
        BY <1>15, <3>5
      <4> QED BY <3>5, <4>1 DEF CreditKnown
    <3> QED BY <3>3, <3>4, <3>5
  <2> QED BY <1>2, <2>1, CreditKnownIs
<1> QED BY <1>17, <1>19, <1>21, <1>23, <1>24, <1>25, <1>26, <1>27 DEF FlowInv

\* The connection's flow controller takes n bytes that are within its credit.
LEMMA ConnBytes ==
    ASSUME NEW r \in RxRec, NEW n \in Nat, r.swm + n <= r.cwm
    PROVE  LET q == OnRxControlledBytes(r, n) IN
           /\ q \in RxRec /\ q.swm = r.swm + n /\ q.cwm = r.cwm /\ q.rwm = r.rwm
           /\ q.max = r.max /\ q.err = r.err /\ q.changed = r.changed
<1>1. r.swm \in Nat /\ r.cwm \in Nat
  BY DEF RxRec
<1>2. ~(n > r.cwm - r.swm) /\ r.swm + n \in Nat
  BY <1>1
<1>3. OnRxControlledBytes(r, n) = [r EXCEPT !.swm = r.swm + n]
  BY <1>2 DEF OnRxControlledBytes
<1> QED BY <1>2, <1>3 DEF RxRec

\* What the receivers at d have counted is within what their senders have sent,
\* and that is within the credit d has granted.
LEMMA FreshWithin ==
    ASSUME FlowInv, NEW e \in End, NEW d \in End, Peer(e) = d, Peer(d) = e,
           NEW x \in [Stream -> StRec],
           \A s \in Stream : /\ LocalOK(x[s]) /\ x[s].rx.hwm <= st[e][s].txSwm
                             /\ x[s].rx.hwm >= st[d][s].rx.hwm,
           NEW fresh,
           fresh = SumFunction([s \in Stream |-> x[s].rx.hwm - st[d][s].rx.hwm])
    PROVE  /\ fresh \in Nat
           /\ conn[d].rx.swm + fresh = SumFunction([s \in Stream |-> x[s].rx.swm])
           /\ conn[d].rx.swm + fresh <= conn[d].rx.cwm
<1>1. Types /\ StreamInv /\ ConnInv /\ ConnAccounting
  BY DEF FlowInv
<1>2. /\ conn[d].rx.swm = SumFunction([s \in Stream |-> st[d][s].rx.swm])
      /\ conn[e].txSwm = SumFunction([s \in Stream |-> st[e][s].txSwm])
  BY <1>1 DEF ConnAccounting
<1>3. PICK a : a = [s \in Stream |-> st[d][s].rx.swm]
  OBVIOUS
<1>4. PICK b : b = [s \in Stream |-> x[s].rx.swm]
  OBVIOUS
<1>5. PICK n : n = [s \in Stream |-> x[s].rx.hwm - st[d][s].rx.hwm]
  OBVIOUS
<1>6. PICK t : t = [s \in Stream |-> st[e][s].txSwm]
  OBVIOUS
<1>7. \A s \in Stream : /\ st[d][s].rx.hwm \in Nat /\ x[s].rx.hwm \in Nat
                        /\ st[d][s].rx.swm = st[d][s].rx.hwm
                        /\ x[s].rx.swm = x[s].rx.hwm
                        /\ st[e][s].txSwm \in Nat
  <2> TAKE s \in Stream
  <2>1. st[d][s] \in StRec /\ st[e][s] \in StRec /\ x[s] \in StRec
    BY <1>1, StateTypes
  <2>2. RxOK(st[d][s]) /\ RxOK(x[s])
    BY <1>1 DEF StreamInv, LocalOK
  <2> QED BY <2>1, <2>2, StFields DEF RxOK
<1>8. /\ a \in [Stream -> Nat] /\ b \in [Stream -> Nat] /\ n \in [Stream -> Nat]
      /\ t \in [Stream -> Nat]
  <2>1. \A s \in Stream : x[s].rx.hwm - st[d][s].rx.hwm \in Nat
    BY <1>7
  <2> QED BY <1>3, <1>4, <1>5, <1>6, <1>7, <2>1
<1>9. /\ a \in [Stream -> Int] /\ b \in [Stream -> Int] /\ n \in [Stream -> Int]
      /\ t \in [Stream -> Int]
  BY <1>8
<1>10. \A s \in Stream : b[s] = a[s] + n[s] /\ b[s] <= t[s]
  BY <1>3, <1>4, <1>5, <1>6, <1>7
<1>11. SumFunction(b) = SumFunction(a) + SumFunction(n)
  BY <1>9, <1>10, SumAdd, StreamAssumption
<1>12. SumFunction(b) <= SumFunction(t)
  BY <1>9, <1>10, SumMono, StreamAssumption
<1>13. SumFunction(n) \in Nat
  BY <1>8, SumNat, StreamAssumption
<1>14. /\ conn[e].txSwm <= conn[e].txCwm /\ conn[e].txCwm <= conn[d].rx.cwm
       /\ conn[e].txSwm \in Nat /\ conn[e].txCwm \in Nat /\ conn[d].rx.cwm \in Nat
       /\ conn[d].rx.swm \in Nat
  BY <1>1, StateTypes DEF ConnInv
<1>15. /\ fresh = SumFunction(n) /\ conn[d].rx.swm = SumFunction(a)
       /\ conn[e].txSwm = SumFunction(t)
  BY <1>2, <1>3, <1>5, <1>6
<1>16. conn[d].rx.swm + fresh = SumFunction(b)
  BY <1>11, <1>15
<1>17. conn[d].rx.swm + fresh <= conn[d].rx.cwm
  BY <1>12, <1>13, <1>14, <1>15, <1>16
<1> QED BY <1>4, <1>13, <1>15, <1>16, <1>17

\* A packet of e arrives at d, its peer.
LEMMA DeliverStep ==
    ASSUME FlowInv, NEW i \in Slot, Deliver(i)
    PROVE  FlowInv'
<1> DEFINE p == pkt[i]
           e == p.from
           d == Peer(e)
           cwm == IF p.maxData = None THEN conn[d].txCwm
                  ELSE Larger(conn[d].txCwm, p.maxData)
           x == [s \in Stream |-> RecvFrames(st[d][s], p.str[s], p.maxData,
                                             cwm - conn[d].txSwm)]
           fresh == SumFunction([s \in Stream |-> x[s].rx.hwm - st[d][s].rx.hwm])
           bad == {s \in Stream : x[s].rx.err # "NONE"}
           w == [p EXCEPT !.onWire = FALSE]
<1>1. /\ p # NoPkt /\ p.onWire
      /\ st' = [st EXCEPT ![d] = x]
      /\ conn' = [conn EXCEPT ![d].txCwm = cwm,
                              ![d].rx = OnRxControlledBytes(@, fresh)]
      /\ error' = [error EXCEPT ![d] =
                     IF bad = {} THEN @ ELSE x[CHOOSE s \in bad : TRUE].rx.err]
      /\ pkt' = [pkt EXCEPT ![i] = Keep(w)]
  BY DEF Deliver
<1>2. /\ Types /\ StreamInv /\ PacketInv /\ ConnInv /\ MaxDataInv
      /\ NoProtocolError /\ ConnAccounting /\ ConnCreditNotForgotten
      /\ conn \in [End -> ConnRec] /\ st \in [End -> [Stream -> StRec]]
      /\ pkt \in [Slot -> PktRec \cup {NoPkt}] /\ error \in [End -> Errors]
  BY DEF FlowInv, Types
<1>3. /\ p \in PktRec /\ e \in End /\ p.maxData \in Int
      /\ \A s \in Stream : p.str[s] \in FrameRec
  BY <1>1, <1>2, PacketTypes
<1>4. /\ d \in End /\ d # e /\ Peer(d) = e /\ Peer(e) = d
      /\ \A a \in End : a = e \/ a = d
  BY <1>3, PeerFacts
<1> HIDE DEF e, d
<1>5. /\ conn[d].txCwm \in Nat /\ conn[d].txSwm \in Nat /\ conn[d].rx \in RxRec
      /\ conn[d] \in ConnRec /\ conn[e].rx.cwm \in Nat
  BY <1>2, <1>3, <1>4, StateTypes
<1>6. /\ p.maxData <= conn[e].rx.cwm /\ conn[d].txCwm <= conn[e].rx.cwm
      /\ conn[d].txSwm <= conn[d].txCwm
  BY <1>1, <1>2, <1>4 DEF MaxDataInv, ConnInv, e
<1>7. /\ cwm \in Nat /\ conn[d].txCwm <= cwm /\ cwm <= conn[e].rx.cwm
      /\ p.maxData <= cwm
  BY <1>3, <1>5, <1>6 DEF Larger, None
<1>8. PICK k \in Int : k = cwm - conn[d].txSwm
  BY <1>5, <1>7
<1> HIDE DEF cwm
<1>9. \A s \in Stream :
        /\ Recvd(st[d][s], x[s]) /\ RxWithin(x[s], st[e][s])
        /\ x[s].txCwm >= st[d][s].txCwm
        /\ x[s].txCwm = st[d][s].txCwm \/ x[s].txCwm = p.str[s].maxStreamData
  <2> TAKE s \in Stream
  <2>1. st[d][s] \in StRec /\ st[e][s] \in StRec
    BY <1>2, <1>3, <1>4, StateTypes
  <2>2. /\ LocalOK(st[d][s]) /\ FlowOK(st[e][s], st[d][s])
        /\ FrameOK(st[e][s], p.str[s])
    BY <1>1, <1>2, <1>3, <1>4 DEF StreamInv, PacketInv, e
  <2>3. RxWithin(st[d][s], st[e][s])
    <3>1. /\ st[e][s].txSwm \in Nat /\ st[e][s].txCwm \in Nat
          /\ st[d][s].rx.cwm \in Nat
      BY <2>1, StFields
    <3> QED BY <2>2, <3>1 DEF FlowOK, RxWithin
  <2>4. x[s] = RecvFrames(st[d][s], p.str[s], p.maxData, k)
    BY <1>8
  <2>5. p.str[s] \in FrameRec
    BY <1>3
  <2> HIDE DEF x, p
  <2> QED BY <2>1, <2>2, <2>3, <2>4, <2>5, RecvFramesStep
<1>10. x = [s \in Stream |-> x[s]]
  OBVIOUS
<1> HIDE DEF x
<1>11. x \in [Stream -> StRec]
  BY <1>9, <1>10 DEF Recvd
<1>12. /\ fresh \in Nat
       /\ conn[d].rx.swm + fresh = SumFunction([s \in Stream |-> x[s].rx.swm])
       /\ conn[d].rx.swm + fresh <= conn[d].rx.cwm
  <2>1. \A s \in Stream : /\ LocalOK(x[s]) /\ x[s].rx.hwm <= st[e][s].txSwm
                          /\ x[s].rx.hwm >= st[d][s].rx.hwm
    BY <1>9 DEF Recvd, RxWithin
  <2> QED BY <1>3, <1>4, <1>11, <2>1, FreshWithin
<1> HIDE DEF fresh
<1>13. PICK r : r = OnRxControlledBytes(conn[d].rx, fresh)
  OBVIOUS
<1>14. /\ r \in RxRec /\ r.swm = conn[d].rx.swm + fresh /\ r.cwm = conn[d].rx.cwm
       /\ r.rwm = conn[d].rx.rwm /\ r.max = conn[d].rx.max
       /\ r.err = conn[d].rx.err /\ r.changed = conn[d].rx.changed
  BY <1>5, <1>12, <1>13, ConnBytes
<1>15. /\ conn'[d] \in ConnRec /\ conn'[d].txSwm = conn[d].txSwm
       /\ conn'[d].txCwm = cwm /\ conn'[d].rx = r
       /\ conn'[d].wantMaxData = conn[d].wantMaxData
  <2>1. PICK c : c = conn[d]
    OBVIOUS
  <2>2. conn'[d] = [[c EXCEPT !.txCwm = cwm] EXCEPT !.rx =
                      OnRxControlledBytes([c EXCEPT !.txCwm = cwm].rx, fresh)]
    BY <1>1, <1>2, <1>4, <2>1
  <2>3. [c EXCEPT !.txCwm = cwm].rx = c.rx
    BY <1>5, <2>1 DEF ConnRec
  <2>4. conn'[d] = [c EXCEPT !.txCwm = cwm, !.rx = r]
    BY <1>13, <2>1, <2>2, <2>3
  <2> QED BY <1>5, <1>7, <1>14, <2>1, <2>4 DEF ConnRec
<1>16. conn'[e] = conn[e]
  BY <1>1, <1>2, <1>3, <1>4
<1>17. conn' \in [End -> ConnRec]
  <2>1. conn' = [a \in End |-> conn'[a]]
    BY <1>1, <1>2
  <2>2. \A a \in End : conn'[a] \in ConnRec
    BY <1>2, <1>4, <1>15, <1>16
  <2> QED BY <2>1, <2>2
<1>18. /\ st' \in [End -> [Stream -> StRec]] /\ st'[d] = x /\ st'[e] = st[e]
  BY <1>1, <1>2, <1>3, <1>4, <1>11
<1>19. error' = error
  <2>1. \A s \in Stream : x[s].rx.err = "NONE"
    BY <1>9 DEF Recvd, LocalOK, RxOK
  <2>2. bad = {}
    BY <2>1
  <2> HIDE DEF bad
  <2> QED BY <1>1, <1>2, <1>4, <2>2
<1>20. /\ w \in PktRec /\ w.from = e /\ w.str = p.str /\ w.maxData = p.maxData
       /\ w.inflight = p.inflight /\ ~w.onWire
  BY <1>3 DEF PktRec, e
<1> HIDE DEF w
<1>21. Keep(w) \in PktRec \cup {NoPkt} /\ (Keep(w) = w \/ Keep(w) = NoPkt)
       /\ (p.inflight => Keep(w) = w)
  BY <1>20 DEF Keep
<1>22. \A j \in Slot : pkt'[j] = IF j = i THEN Keep(w) ELSE pkt[j]
  BY <1>1, <1>2
<1>23. Types'
  <2>1. pkt' \in [Slot -> PktRec \cup {NoPkt}]
    BY <1>1, <1>2, <1>21
  <2> QED BY <1>2, <1>17, <1>18, <1>19, <2>1 DEF Types
<1>24. StreamInv'
  <2> SUFFICES ASSUME NEW a \in End, NEW s \in Stream
               PROVE  LocalOK(st'[a][s]) /\ FlowOK(st'[a][s], st'[Peer(a)][s])
    BY DEF StreamInv
  <2>1. LocalOK(st[a][s]) /\ FlowOK(st[a][s], st[Peer(a)][s])
    BY <1>2 DEF StreamInv
  <2>2. st[d][s] \in StRec /\ st[e][s] \in StRec /\ x[s] \in StRec
    BY <1>2, <1>3, <1>4, <1>11, StateTypes
  <2>3. CASE a = d
    <3>1. FlowOK(st[d][s], st[e][s])
      BY <1>4, <2>1, <2>3
    <3>2. FrameOK(st[e][s], p.str[s])
      BY <1>1, <1>2 DEF PacketInv, e
    <3>3. /\ st[d][s].txCwm \in Nat /\ x[s].txCwm \in Nat /\ st[e][s].rx.cwm \in Nat
          /\ st[d][s].txSwm \in Nat
      BY <2>2, StFields
    <3>4. x[s].txCwm <= st[e][s].rx.cwm /\ st[d][s].txSwm <= x[s].txCwm
      BY <1>9, <3>1, <3>2, <3>3 DEF FrameOK, FlowOK
    <3>5. x[s].txSwm = st[d][s].txSwm /\ (Ended(st[d][s]) => Ended(x[s])) /\ LocalOK(x[s])
      BY <1>9 DEF Recvd
    <3>6. FlowOK(x[s], st[e][s])
      BY <3>1, <3>4, <3>5 DEF FlowOK
    <3> QED BY <1>4, <1>18, <2>3, <3>5, <3>6
  <2>4. CASE a = e
    <3>1. FlowOK(st[e][s], st[d][s])
      BY <1>4, <2>1, <2>4
    <3>2. RxWithin(x[s], st[e][s]) /\ x[s].rx.cwm = st[d][s].rx.cwm
      BY <1>9 DEF Recvd
    <3>3. FlowOK(st[e][s], x[s])
      BY <3>1, <3>2 DEF RxWithin, FlowOK
    <3> QED BY <1>4, <1>18, <2>1, <2>4, <3>3
  <2> QED BY <1>4, <2>3, <2>4
<1>25. PacketInv'
  <2> SUFFICES ASSUME NEW j \in Slot, pkt'[j] # NoPkt, NEW s \in Stream
               PROVE  FrameOK(st'[pkt'[j].from][s], pkt'[j].str[s])
    BY DEF PacketInv
  <2>1. pkt[j] # NoPkt /\ pkt'[j].from = pkt[j].from /\ pkt'[j].str = pkt[j].str
    BY <1>1, <1>20, <1>21, <1>22 DEF e
  <2>2. pkt[j].from \in End /\ pkt[j].str[s] \in FrameRec
    BY <1>2, <2>1, PacketTypes
  <2>3. FrameOK(st[pkt[j].from][s], pkt[j].str[s])
    BY <1>2, <2>1 DEF PacketInv
  <2>4. CASE pkt[j].from = e
    BY <1>18, <2>1, <2>3, <2>4
  <2>5. CASE pkt[j].from = d
    <3>1. st[d][s] \in StRec /\ x[s] \in StRec
      BY <1>2, <1>4, <1>11, StateTypes
    <3>2. st[d][s].txSwm \in Nat /\ st[d][s].rx.cwm \in Nat
      BY <3>1, StFields
    <3>3. Adv(st[d][s], x[s])
      BY <1>9, <3>2 DEF Recvd, Adv
    <3>4. FrameOK(x[s], pkt[j].str[s])
      BY <2>2, <2>3, <2>5, <3>1, <3>3, FrameStable
    <3> QED BY <1>18, <2>1, <2>5, <3>4
  <2> QED BY <1>4, <2>2, <2>4, <2>5
<1>26. ConnInv'
  <2> SUFFICES ASSUME NEW a \in End
               PROVE  /\ conn'[a].txSwm <= conn'[a].txCwm
                      /\ conn'[a].txCwm <= conn'[Peer(a)].rx.cwm
                      /\ conn'[a].rx.max = ConnMaxWnd
                      /\ conn'[a].rx.cwm - conn'[a].rx.rwm <= ConnMaxWnd
    BY DEF ConnInv
  <2>1. /\ conn[a].txSwm <= conn[a].txCwm
        /\ conn[a].txCwm <= conn[Peer(a)].rx.cwm
        /\ conn[a].rx.max = ConnMaxWnd
        /\ conn[a].rx.cwm - conn[a].rx.rwm <= ConnMaxWnd
    BY <1>2 DEF ConnInv
  <2>2. CASE a = d
    BY <1>4, <1>5, <1>6, <1>7, <1>14, <1>15, <1>16, <2>1, <2>2
  <2>3. CASE a = e
    BY <1>4, <1>14, <1>15, <1>16, <2>1, <2>3
  <2> QED BY <1>4, <2>2, <2>3
<1>27. MaxDataInv'
  <2> SUFFICES ASSUME NEW j \in Slot, pkt'[j] # NoPkt
               PROVE  /\ pkt'[j].maxData <= conn'[pkt'[j].from].rx.cwm
                      /\ pkt'[j].onWire
                         \/ pkt'[j].maxData <= conn'[Peer(pkt'[j].from)].txCwm
    BY DEF MaxDataInv
  <2>1. CASE j = i
    BY <1>4, <1>6, <1>7, <1>15, <1>16, <1>20, <1>21, <1>22, <2>1
  <2>2. CASE j # i
    <3>1. pkt'[j] = pkt[j] /\ pkt[j] # NoPkt
      BY <1>22, <2>2
    <3>2. pkt[j].from \in End /\ pkt[j].maxData \in Int
      BY <1>2, <3>1, PacketTypes
    <3>3. /\ pkt[j].maxData <= conn[pkt[j].from].rx.cwm
          /\ pkt[j].onWire \/ pkt[j].maxData <= conn[Peer(pkt[j].from)].txCwm
      BY <1>2, <3>1 DEF MaxDataInv
    <3>4. CASE pkt[j].from = e
      <4>1. pkt[j].onWire \/ pkt[j].maxData <= cwm
        BY <1>4, <1>5, <1>7, <3>2, <3>3, <3>4
      <4> QED BY <1>4, <1>15, <1>16, <3>1, <3>3, <3>4, <4>1
    <3>5. CASE pkt[j].from = d
      BY <1>4, <1>14, <1>15, <1>16, <3>1, <3>3, <3>5
    <3> QED BY <1>4, <3>2, <3>4, <3>5
  <2> QED BY <2>1, <2>2
<1>28. NoProtocolError'
  <2>1. \A a \in End : error[a] = "NONE" /\ conn[a].rx.err = "NONE"
    BY <1>2 DEF NoProtocolError
  <2>2. \A a \in End : conn'[a].rx.err = "NONE"
    BY <1>4, <1>14, <1>15, <1>16, <2>1
  <2> QED BY <1>19, <2>1, <2>2 DEF NoProtocolError
<1>29. ConnAccounting'
  <2> SUFFICES ASSUME NEW a \in End
               PROVE  /\ conn'[a].txSwm = SumFunction([z \in Stream |-> st'[a][z].txSwm])
                      /\ conn'[a].rx.swm = SumFunction([z \in Stream |-> st'[a][z].rx.swm])
                      /\ conn'[a].rx.rwm = SumFunction([z \in Stream |-> st'[a][z].rx.rwm])
    BY DEF ConnAccounting
  <2>1. CASE a = e
    BY <1>2, <1>16, <1>18, <2>1, SameSums
  <2>2. CASE a = d
    <3>1. /\ conn[d].txSwm = SumFunction([z \in Stream |-> st[d][z].txSwm])
          /\ conn[d].rx.rwm = SumFunction([z \in Stream |-> st[d][z].rx.rwm])
      BY <1>2, <1>4 DEF ConnAccounting
    <3>2. [z \in Stream |-> st'[d][z].rx.rwm] = [z \in Stream |-> st[d][z].rx.rwm]
      BY <1>9, <1>18 DEF Recvd
    <3>3. [z \in Stream |-> st'[d][z].txSwm] = [z \in Stream |-> st[d][z].txSwm]
      BY <1>9, <1>18 DEF Recvd
    <3>4. conn'[d].rx.swm = SumFunction([z \in Stream |-> st'[d][z].rx.swm])
      BY <1>12, <1>14, <1>15, <1>18
    <3> QED BY <1>14, <1>15, <2>2, <3>1, <3>2, <3>3, <3>4
  <2> QED BY <1>4, <2>1, <2>2
<1>30. ConnCreditNotForgotten'
  <2>1. ASSUME NEW a \in End, a = d, CreditKnown(a) PROVE CreditKnown(a)'
    <3>1. /\ conn'[Peer(a)].txCwm = conn[Peer(a)].txCwm
          /\ conn'[a].rx.cwm = conn[a].rx.cwm
          /\ conn'[a].rx.changed = conn[a].rx.changed
          /\ conn'[a].wantMaxData = conn[a].wantMaxData
      BY <1>4, <1>14, <1>15, <1>16, <2>1
    <3>2. \A j \in Slot : pkt[j].from = a => pkt'[j] = pkt[j]
      BY <1>4, <1>22, <2>1 DEF e
    <3> QED BY <2>1, <3>1, <3>2 DEF CreditKnown
  <2>2. ASSUME NEW a \in End, a = e, CreditKnown(a) PROVE CreditKnown(a)'
    <3>0. Peer(a) = d /\ conn'[a] = conn[a]
      BY <1>4, <1>16, <2>2
    <3>1. CASE conn[d].txCwm = conn[a].rx.cwm
      <4>1. conn'[d].txCwm = conn'[a].rx.cwm
        BY <1>5, <1>7, <1>15, <2>2, <3>0, <3>1
      <4> QED BY <3>0, <4>1 DEF CreditKnown
    <3>2. CASE conn[a].wantMaxData \/ conn[a].rx.changed
      BY <3>0, <3>2 DEF CreditKnown
    <3>3. CASE \E j \in Slot : /\ pkt[j] # NoPkt /\ pkt[j].from = a /\ pkt[j].inflight
                               /\ pkt[j].maxData = conn[a].rx.cwm
      <4>1. PICK j \in Slot : /\ pkt[j] # NoPkt /\ pkt[j].from = a /\ pkt[j].inflight
                              /\ pkt[j].maxData = conn[a].rx.cwm
        BY <3>3
      <4>2. CASE j = i
        <5>1. conn'[d].txCwm = conn'[a].rx.cwm
          BY <1>5, <1>7, <1>15, <2>2, <3>0, <4>1, <4>2
        <5> QED BY <3>0, <5>1 DEF CreditKnown
      <4>3. CASE j # i
        BY <1>22, <3>0, <4>1, <4>3 DEF CreditKnown
      <4> QED BY <4>2, <4>3
    <3> QED BY <2>2, <3>0, <3>1, <3>2, <3>3 DEF CreditKnown
  <2>3. \A a \in End : CreditKnown(a)'
    BY <1>2, <1>4, <2>1, <2>2, CreditKnownIs
  <2> QED BY <2>3, CreditKnownIs
<1> QED BY <1>23, <1>24, <1>25, <1>26, <1>27, <1>28, <1>29, <1>30 DEF FlowInv

-----------------------------------------------------------------------------
(* The invariant *)

LEMMA FreshStreamOK ==
    /\ FreshStream \in StRec /\ LocalOK(FreshStream)
    /\ FlowOK(FreshStream, FreshStream)
    /\ FreshStream.txSwm = 0 /\ FreshStream.rx.swm = 0 /\ FreshStream.rx.rwm = 0
<1>1. StreamWnd \in Nat /\ StreamMaxWnd \in Nat /\ StreamWnd <= StreamMaxWnd
  BY WindowAssumption
<1>2. PICK r : r = RxInit(StreamWnd, StreamMaxWnd)
  OBVIOUS
<1>3. /\ r \in RxRec /\ r.swm = 0 /\ r.cwm = StreamWnd /\ r.rwm = 0 /\ r.hwm = 0
      /\ r.max = StreamMaxWnd /\ ~r.fin /\ r.err = "NONE"
  BY <1>1, <1>2 DEF RxInit, RxRec, Errors
<1>4. PICK t : t = FreshStream
  OBVIOUS
<1>5. t \in StRec
  BY <1>1, <1>2, <1>3, <1>4 DEF FreshStream, StRec, SendStates, RecvStates
<1>6. /\ t.sendState = "READY" /\ t.size = 0 /\ t.new = {} /\ t.acked = {}
      /\ t.finalSize = 0 /\ ~t.wantReset /\ t.txSwm = 0 /\ t.txCwm = StreamWnd
      /\ t.got = {} /\ t.rx = r
  BY <1>2, <1>4 DEF FreshStream
<1>7. SendOK(t)
  BY <1>6, MaxSizeAssumption DEF SendOK, HasSStream, SendIsReset
<1>8. RxOK(t)
  BY <1>1, <1>3, <1>6 DEF RxOK
<1>9. FlowOK(t, t)
  BY <1>1, <1>3, <1>6 DEF FlowOK
<1> QED BY <1>3, <1>4, <1>5, <1>6, <1>7, <1>8, <1>9 DEF LocalOK

LEMMA FlowInit == Init => FlowInv
<1> SUFFICES ASSUME Init PROVE FlowInv
  OBVIOUS
<1>1. \A e \in End, s \in Stream : st[e][s] = FreshStream
  BY DEF Init
<1>2. PICK r : r = RxInit(ConnWnd, ConnMaxWnd)
  OBVIOUS
<1>3. ConnWnd \in Nat /\ ConnMaxWnd \in Nat /\ ConnWnd <= ConnMaxWnd
  BY WindowAssumption
<1>4. /\ r \in RxRec /\ r.swm = 0 /\ r.cwm = ConnWnd /\ r.rwm = 0
      /\ r.max = ConnMaxWnd /\ r.err = "NONE"
  BY <1>2, <1>3 DEF RxInit, RxRec, Errors
<1>5. conn = [e \in End |-> [txSwm |-> 0, txCwm |-> ConnWnd, rx |-> r,
                             wantMaxData |-> FALSE]]
  BY <1>2 DEF Init
<1>6. \A e \in End : /\ conn[e].txSwm = 0 /\ conn[e].txCwm = ConnWnd
                     /\ conn[e].rx = r
  BY <1>5
<1>7. \A i \in Slot : pkt[i] = NoPkt
  BY DEF Init
<1>8. Types
  <2>1. st \in [End -> [Stream -> StRec]]
    BY FreshStreamOK DEF Init
  <2>2. conn \in [End -> ConnRec]
    BY <1>3, <1>4, <1>5 DEF ConnRec
  <2>3. pkt \in [Slot -> PktRec \cup {NoPkt}] /\ error \in [End -> Errors]
    BY DEF Init, Errors
  <2> QED BY <2>1, <2>2, <2>3 DEF Types
<1>9. StreamInv
  BY <1>1, FreshStreamOK, PeerFacts DEF StreamInv
<1>10. PacketInv /\ MaxDataInv
  BY <1>7 DEF PacketInv, MaxDataInv
<1>11. ConnInv
  BY <1>3, <1>4, <1>6, PeerFacts DEF ConnInv
<1>12. NoProtocolError
  BY <1>4, <1>6 DEF NoProtocolError, Init
<1>13. ConnAccounting
  <2> SUFFICES ASSUME NEW e \in End
               PROVE  /\ conn[e].txSwm = SumFunction([s \in Stream |-> st[e][s].txSwm])
                      /\ conn[e].rx.swm = SumFunction([s \in Stream |-> st[e][s].rx.swm])
                      /\ conn[e].rx.rwm = SumFunction([s \in Stream |-> st[e][s].rx.rwm])
    BY DEF ConnAccounting
  <2>1. PICK z : z = [s \in Stream |-> 0]
    OBVIOUS
  <2>2. z \in [Stream -> Int] /\ \A s \in Stream : z[s] = 0
    BY <2>1
  <2>3. SumFunction(z) = 0
    BY <2>2, SumZero, StreamAssumption
  <2>4. /\ [s \in Stream |-> st[e][s].txSwm] = z
        /\ [s \in Stream |-> st[e][s].rx.swm] = z
        /\ [s \in Stream |-> st[e][s].rx.rwm] = z
    BY <1>1, <2>1, FreshStreamOK
  <2> QED BY <1>4, <1>6, <2>3, <2>4
<1>14. ConnCreditNotForgotten
  BY <1>4, <1>6, PeerFacts DEF ConnCreditNotForgotten
<1> QED BY <1>8, <1>9, <1>10, <1>11, <1>12, <1>13, <1>14 DEF FlowInv

LEMMA FlowNext == FlowInv /\ [Next]_vars => FlowInv'
<1> SUFFICES ASSUME FlowInv, [Next]_vars PROVE FlowInv'
  OBVIOUS
<1>1. CASE AppStep
  <2>1. PICK e \in End, s \in Stream :
          \/ \E n \in 1..MaxSize, c \in BOOLEAN : Write(e, s, n, c)
          \/ Conclude(e, s)
          \/ ConcludeByEmptyWrite(e, s)
          \/ Reset(e, s)
          \/ Free(e, s)
          \/ \E n \in 0..MaxSize, a \in BOOLEAN, b \in BOOLEAN : Read(e, s, n, a, b)
          \/ ReadReset(e, s)
    BY <1>1, Zenon DEF AppStep
  <2>2. CASE \E n \in 1..MaxSize, c \in BOOLEAN : Write(e, s, n, c)
    BY <2>2, WriteStep, Zenon
  <2>3. CASE Conclude(e, s)
    BY <2>3, ConcludeStep, Zenon
  <2>4. CASE ConcludeByEmptyWrite(e, s)
    BY <2>4, EmptyWriteStep, Zenon
  <2>5. CASE Reset(e, s)
    BY <2>5, ResetStep, Zenon
  <2>6. CASE Free(e, s)
    BY <2>6, FreeStep, Zenon
  <2>7. CASE \E n \in 0..MaxSize, a \in BOOLEAN, b \in BOOLEAN : Read(e, s, n, a, b)
    BY <2>7, ReadStep, Zenon
  <2>8. CASE ReadReset(e, s)
    BY <2>8, ReadResetStep, Zenon
  <2> QED BY <2>1, <2>2, <2>3, <2>4, <2>5, <2>6, <2>7, <2>8
<1>2. CASE \E e \in End : Tx(e)
  BY <1>2, TxStep, Zenon DEF Tx
<1>3. CASE \E i \in Slot : Deliver(i) \/ Drop(i) \/ Ack(i) \/ Lose(i)
  BY <1>3, DeliverStep, DropStep, AckStep, LoseStep, Zenon
<1>4. CASE UNCHANGED vars
  BY <1>4 DEF vars, FlowInv, Types, StreamInv, PacketInv, ConnInv, MaxDataInv,
              NoProtocolError, ConnAccounting, ConnCreditNotForgotten, InFlight, UnderWay
<1> QED BY <1>1, <1>2, <1>3, <1>4 DEF Next

(***************************************************************************)
(* The invariant of the two flow controllers (quic_fc.c) holds for any     *)
(* streams, windows and amounts of data, whatever is lost or reordered.    *)
(***************************************************************************)
THEOREM FlowInvariant == Spec => []FlowInv
BY FlowInit, FlowNext, PTL DEF Spec

(***************************************************************************)
(* No endpoint raises FLOW_CONTROL_ERROR or FINAL_SIZE_ERROR against a     *)
(* peer that runs the same code: neither rxfc_on_rx_controlled_bytes of a  *)
(* stream nor that of the connection is ever given bytes beyond its credit,*)
(* and no frame contradicts the final size (quic_fc.c, quic_rx_depack.c).  *)
(***************************************************************************)
THEOREM PeersNeverAccuse == Spec => []NoProtocolError
<1>1. FlowInv => NoProtocolError
  BY DEF FlowInv
<1> QED BY <1>1, FlowInvariant, PTL

(***************************************************************************)
(* The connection's watermarks are the sums of those of its streams, in    *)
(* both directions: the parent flow controllers of quic_fc.c.              *)
(***************************************************************************)
THEOREM ConnectionIsCharged == Spec => []ConnAccounting
<1>1. FlowInv => ConnAccounting
  BY DEF FlowInv
<1> QED BY <1>1, FlowInvariant, PTL

(***************************************************************************)
(* Connection credit that was granted is never forgotten: the regeneration *)
(* of MAX_DATA for a lost packet (quic_fifd.c, quic_txp.c) keeps it due.   *)
(***************************************************************************)
THEOREM MaxDataSurvivesLoss == Spec => []ConnCreditNotForgotten
<1>1. FlowInv => ConnCreditNotForgotten
  BY DEF FlowInv
<1> QED BY <1>1, FlowInvariant, PTL

(***************************************************************************)
(* The receive windows stay within their maxima, although they are doubled *)
(* and the connection's follows the largest stream's (rxfc_adjust_window_  *)
(* size).                                                                  *)
(***************************************************************************)
THEOREM WindowsBounded == Spec => []BufferBounded
<1>1. FlowInv => BufferBounded
  BY DEF FlowInv, ConnInv, StreamInv, LocalOK, RxOK, BufferBounded
<1> QED BY <1>1, FlowInvariant, PTL

(***************************************************************************)
(* A final size that the receiver has is the sender's, and both ends have  *)
(* charged exactly that much: for a FIN, for a reset in the middle of the  *)
(* data and for a reset after the FIN (ossl_quic_stream_map_reset_stream_  *)
(* send_part).                                                             *)
(***************************************************************************)
THEOREM FinalSizesAgree == Spec => []FinalSizeAgreed
<1>1. ASSUME FlowInv PROVE FinalSizeAgreed
  <2> SUFFICES ASSUME NEW e \in End, NEW s \in Stream, st[Peer(e)][s].rx.fin
               PROVE  /\ st[Peer(e)][s].rx.hwm = st[e][s].txSwm
                      /\ st[Peer(e)][s].rx.swm = st[e][s].txSwm
                      /\ st[e][s].sendState \in {"DATA_SENT", "DATA_RECVD",
                                                 "RESET_SENT", "RESET_RECVD"}
                         => st[e][s].finalSize = st[e][s].txSwm
    BY DEF FinalSizeAgreed
  <2>1. FlowOK(st[e][s], st[Peer(e)][s]) /\ LocalOK(st[e][s]) /\ LocalOK(st[Peer(e)][s])
    BY <1>1, PeerFacts DEF FlowInv, StreamInv
  <2> QED BY <2>1 DEF FlowOK, LocalOK, SendOK, RxOK
<1> QED BY <1>1, FlowInvariant, PTL

(***************************************************************************)
(* Every field of every stream keeps its type and no offset, watermark or  *)
(* final size passes what the application writes.                          *)
(***************************************************************************)
THEOREM StreamsTypeCorrect == Spec => []TypeOK
<1>1. ASSUME FlowInv PROVE TypeOK
  <2> DEFINE Bounded ==
         [sendState : SendStates, size : 0..MaxSize, fin : BOOLEAN,
          new : SUBSET (0..MaxSize), sentFin : BOOLEAN,
          acked : SUBSET (0..MaxSize), ackedFin : BOOLEAN,
          finalSize : 0..MaxSize, wantReset : BOOLEAN, peerStop : BOOLEAN,
          txSwm : 0..MaxSize, txCwm : Nat, recvState : RecvStates,
          got : SUBSET (0..MaxSize), stop : BOOLEAN, wantStop : BOOLEAN,
          ackedStop : BOOLEAN, wantMaxStreamData : BOOLEAN,
          rx : RxType(MaxSize), deleted : BOOLEAN, readyForGc : BOOLEAN,
          active : BOOLEAN]
  <2>1. Types /\ StreamInv
    BY <1>1 DEF FlowInv
  <2>2. ASSUME NEW e \in End, NEW s \in Stream PROVE st[e][s] \in Bounded
    <3>1. PICK t : t = st[e][s]
      OBVIOUS
    <3>2. PICK q : q = st[Peer(e)][s]
      OBVIOUS
    <3>3. t \in StRec /\ q \in StRec /\ LocalOK(t) /\ LocalOK(q) /\ FlowOK(q, t)
      BY <2>1, <3>1, <3>2, PeerFacts, StateTypes DEF StreamInv
    <3>4. /\ t.size \in Nat /\ t.txSwm \in Nat /\ t.finalSize \in Nat /\ MaxSize \in Nat
          /\ t.rx.hwm \in Nat /\ t.rx.rwm \in Nat /\ q.txSwm \in Nat /\ q.size \in Nat
          /\ t.rx \in RxRec
      BY <3>3, StFields, MaxSizeAssumption
    <3>5. /\ t.size \in 0..MaxSize /\ t.txSwm \in 0..MaxSize /\ t.finalSize \in 0..MaxSize
          /\ t.new \in SUBSET (0..MaxSize) /\ t.acked \in SUBSET (0..MaxSize)
      BY <3>3, <3>4 DEF LocalOK, SendOK
    <3>6. q.txSwm <= MaxSize
      BY <3>3, <3>4 DEF LocalOK, SendOK
    <3>7. t.rx.hwm \in 0..MaxSize /\ t.rx.rwm \in 0..MaxSize /\ t.rx.swm \in 0..MaxSize
      BY <3>3, <3>4, <3>6 DEF FlowOK, LocalOK, RxOK
    <3>8. t.got \in SUBSET (0..MaxSize)
      BY <3>3, <3>4, <3>7 DEF LocalOK, RxOK
    <3>9. t.rx \in RxType(MaxSize)
      BY <3>4, <3>7 DEF RxRec, RxType
    <3>10. t \in Bounded
      BY <3>3, <3>5, <3>8, <3>9 DEF StRec
    <3> QED BY <3>1, <3>10
  <2> HIDE DEF Bounded
  <2>3. st \in [End -> [Stream -> Bounded]]
    <3>1. st \in [End -> [Stream -> StRec]]
      BY <2>1 DEF Types
    <3>2. \A e \in End : st[e] \in [Stream -> Bounded]
      BY <2>2, <3>1
    <3> QED BY <3>1, <3>2
  <2>4. error \in [End -> Errors]
    BY <2>1 DEF Types
  <2> QED BY <2>3, <2>4 DEF TypeOK, Bounded
<1> QED BY <1>1, FlowInvariant, PTL

-----------------------------------------------------------------------------
(* The arrival of a packet at one stream, handler by handler *)

\* A flow controller r takes a frame and becomes q.
RxTaken(r, q, fin) ==
    /\ q \in RxRec /\ q.rwm = r.rwm /\ q.hwm >= r.hwm /\ q.changed = r.changed
    /\ q.fin <=> (r.fin \/ fin)

ResetTaken(t, k, u) ==
    \E x \in StRec : /\ u = UpdateState(x, k) /\ AfterReset(t, x.rx, x)
                     /\ RxTaken(t.rx, x.rx, TRUE)

StreamTaken(t, f, v) ==
    /\ v \in StRec /\ SameSend(t, v) /\ v.stop = t.stop /\ v.active = t.active
    /\ v.wantMaxStreamData = t.wantMaxStreamData
    /\ RxTaken(t.rx, v.rx, f.fin)
    /\ \/ /\ t.recvState \notin {"RECV", "SIZE_KNOWN"}
          /\ v.recvState = t.recvState /\ v.got = t.got
          /\ v.wantStop = t.wantStop
       \/ /\ t.recvState \in {"RECV", "SIZE_KNOWN"} /\ t.stop
          /\ v.recvState = (IF f.fin THEN "SIZE_KNOWN" ELSE t.recvState)
          /\ v.got = t.got /\ v.wantStop = t.wantStop
       \/ /\ t.recvState \in {"RECV", "SIZE_KNOWN"} /\ ~t.stop
          /\ v.got = t.got \cup (f.bytes \ 0..(t.rx.rwm - 1))
          /\ \/ /\ v.recvState = (IF f.fin THEN "SIZE_KNOWN" ELSE t.recvState)
                /\ v.wantStop = t.wantStop
                /\ v.recvState = "SIZE_KNOWN" => ~AllHere(v)
             \/ /\ f.fin \/ t.recvState = "SIZE_KNOWN"
                /\ v.recvState = "DATA_RECVD" /\ ~v.wantStop
                /\ AllHere(v)

\* STOP_SENDING arrives: the peer wants no more of the stream.
PeerStops(t, u) ==
    /\ u \in StRec /\ SameRecv(t, u) /\ SameCredit(t, u) /\ SameBuffer(t, u)
    /\ u.sendState = t.sendState /\ u.finalSize = t.finalSize
    /\ u.wantReset = t.wantReset /\ u.peerStop
    /\ u.ackedStop = t.ackedStop /\ u.deleted = t.deleted
    /\ u.readyForGc = t.readyForGc /\ u.active = t.active

\* MAX_STREAM_DATA arrives.
MoreCredit(t, u) ==
    /\ u \in StRec /\ SameRecv(t, u) /\ SameBuffer(t, u)
    /\ u.sendState = t.sendState /\ u.finalSize = t.finalSize
    /\ u.wantReset = t.wantReset /\ u.peerStop = t.peerStop
    /\ u.ackedStop = t.ackedStop /\ u.deleted = t.deleted
    /\ u.readyForGc = t.readyForGc

Chain(t, f, maxData, k, u, m, m2, p, r, r2, c) ==
    /\ m = IF maxData # None THEN UpdateState(t, k) ELSE t
    /\ PeerStops(m, m2)
    /\ p = IF f.stop THEN ResetSendPart(m2, k) ELSE m
    /\ IF f.reset # None THEN ResetTaken(p, k, r) ELSE r = p
    /\ MoreCredit(r, r2)
    /\ c = IF f.maxStreamData # None THEN UpdateState(r2, k) ELSE r
    /\ IF f.end # None THEN StreamTaken(c, f, u) ELSE u = c

LEMMA ResetTakes ==
    ASSUME NEW t \in StRec, LocalOK(t), NEW q \in StRec, RxWithin(t, q),
           NEW k \in Int, NEW u, u = RecvReset(t, q.txSwm, k)
    PROVE  ResetTaken(t, k, u)
<1>1. /\ t.rx \in RxRec /\ q.txSwm \in Nat /\ q.txSwm \in Int /\ q.txSwm <= q.txSwm
  BY StFields
<1>2. /\ t.rx.swm = t.rx.hwm /\ t.rx.hwm <= q.txSwm /\ q.txSwm <= t.rx.cwm
      /\ t.rx.err = "NONE" /\ (t.rx.fin => t.rx.hwm = q.txSwm)
  BY DEF LocalOK, RxOK, RxWithin
<1>3. PICK r : r = OnRxStreamFrame(t.rx, q.txSwm, TRUE)
  OBVIOUS
<1>4. /\ r \in RxRec /\ r.err = "NONE" /\ t.rx.hwm <= r.hwm /\ r.rwm = t.rx.rwm
      /\ r.changed = t.rx.changed /\ (r.fin <=> (t.rx.fin \/ TRUE))
  <2>1. PICK b \in BOOLEAN : b = TRUE
    OBVIOUS
  <2>2. r = OnRxStreamFrame(t.rx, q.txSwm, b)
    BY <1>3, <2>1
  <2>3. /\ r \in RxRec /\ r.err = "NONE" /\ t.rx.hwm <= r.hwm /\ r.rwm = t.rx.rwm
        /\ r.changed = t.rx.changed /\ (r.fin <=> (t.rx.fin \/ b))
    BY <1>1, <1>2, <2>2, StreamFrameEffect
  <2> QED BY <2>1, <2>3
<1>5. t.rx.hwm \in Nat /\ r.hwm \in Nat
  BY <1>1, <1>4 DEF RxRec
<1>6. RxTaken(t.rx, r, TRUE)
  BY <1>4, <1>5 DEF RxTaken
<1>7. PICK x \in StRec : RecvReset(t, q.txSwm, k) = UpdateState(x, k) /\ AfterReset(t, r, x)
  BY <1>3, <1>4, RecvResetEffect, Zenon
<1>8. x.rx = r
  BY <1>7 DEF AfterReset
<1> QED BY <1>6, <1>7, <1>8 DEF ResetTaken

LEMMA StreamTakes ==
    ASSUME NEW t \in StRec, LocalOK(t), NEW q \in StRec, RxWithin(t, q),
           NEW f \in FrameRec, FrameOK(q, f), NEW v, v = RecvStream(t, f)
    PROVE  StreamTaken(t, f, v)
<1>1. /\ t.rx \in RxRec /\ q.txSwm \in Nat
  BY StFields
<1>2. /\ f.end \in Int /\ f.fin \in BOOLEAN /\ f.end <= q.txSwm
      /\ f.fin => f.end = q.txSwm
  BY DEF FrameRec, FrameOK
<1>3. /\ t.rx.swm = t.rx.hwm /\ t.rx.hwm <= q.txSwm /\ q.txSwm <= t.rx.cwm
      /\ t.rx.err = "NONE" /\ (t.rx.fin => t.rx.hwm = q.txSwm)
  BY DEF LocalOK, RxOK, RxWithin
<1>4. PICK r : r = OnRxStreamFrame(t.rx, f.end, f.fin)
  OBVIOUS
<1>5. /\ r \in RxRec /\ r.err = "NONE" /\ t.rx.hwm <= r.hwm /\ r.rwm = t.rx.rwm
      /\ r.changed = t.rx.changed /\ (r.fin <=> (t.rx.fin \/ f.fin))
  BY <1>1, <1>2, <1>3, <1>4, StreamFrameEffect
<1>6. t.rx.hwm \in Nat /\ r.hwm \in Nat
  BY <1>1, <1>5 DEF RxRec
<1>7. RxTaken(t.rx, r, f.fin)
  BY <1>5, <1>6 DEF RxTaken
<1>8. /\ v \in StRec /\ SameSend(t, v) /\ v.rx = r /\ v.stop = t.stop
      /\ v.active = t.active
      /\ v.wantMaxStreamData = t.wantMaxStreamData
      /\ \/ /\ t.recvState \notin {"RECV", "SIZE_KNOWN"}
            /\ v.recvState = t.recvState /\ v.got = t.got
            /\ v.wantStop = t.wantStop
         \/ /\ t.recvState \in {"RECV", "SIZE_KNOWN"} /\ t.stop
            /\ v.recvState = (IF f.fin THEN "SIZE_KNOWN" ELSE t.recvState)
            /\ v.got = t.got /\ v.wantStop = t.wantStop
         \/ /\ t.recvState \in {"RECV", "SIZE_KNOWN"} /\ ~t.stop
            /\ v.got = t.got \cup (f.bytes \ 0..(t.rx.rwm - 1))
            /\ \/ /\ v.recvState = (IF f.fin THEN "SIZE_KNOWN" ELSE t.recvState)
                  /\ v.wantStop = t.wantStop
                  /\ v.recvState = "SIZE_KNOWN" => ~AllHere(v)
               \/ /\ f.fin \/ t.recvState = "SIZE_KNOWN"
                  /\ v.recvState = "DATA_RECVD" /\ ~v.wantStop
                  /\ AllHere(v)
  BY <1>4, <1>5, RecvStreamEffect
<1> QED BY <1>7, <1>8 DEF StreamTaken

LEMMA RecvChain ==
    ASSUME NEW t \in StRec, LocalOK(t), NEW q \in StRec, RxWithin(t, q),
           NEW f \in FrameRec, FrameOK(q, f), NEW maxData, NEW k \in Int,
           NEW u, u = RecvFrames(t, f, maxData, k)
    PROVE  \E m, m2, p, r, r2, c \in StRec :
                Chain(t, f, maxData, k, u, m, m2, p, r, r2, c)
<1> DEFINE m == IF maxData # None THEN UpdateState(t, k) ELSE t
           m2 == [m EXCEPT !.peerStop = TRUE]
           p == IF f.stop THEN ResetSendPart(m2, k) ELSE m
           r == IF f.reset # None THEN RecvReset(p, f.reset, k) ELSE p
           r2 == [r EXCEPT !.txCwm = Larger(@, f.maxStreamData)]
           c == IF f.maxStreamData # None THEN UpdateState(r2, k) ELSE r
<1>1. u = IF f.end # None THEN RecvStream(c, f) ELSE c
  BY DEF RecvFrames
<1>2. Quiet(t, m)
  BY QuietRefl, QuietUpdate
<1>m. m = IF maxData # None THEN UpdateState(t, k) ELSE t
  OBVIOUS
<1> HIDE DEF m
<1>3. m \in StRec /\ LocalOK(m)
  BY <1>2 DEF Quiet
<1>4. PeerStops(m, m2)
  <2>1. m2 \in StRec
    BY <1>3 DEF StRec
  <2>2. /\ SameRecv(m, m2) /\ SameCredit(m, m2) /\ SameBuffer(m, m2)
        /\ m2.sendState = m.sendState /\ m2.finalSize = m.finalSize
        /\ m2.wantReset = m.wantReset /\ m2.peerStop
        /\ m2.ackedStop = m.ackedStop /\ m2.deleted = m.deleted
        /\ m2.readyForGc = m.readyForGc /\ m2.active = m.active
    BY <1>3 DEF StRec, SameRecv, SameCredit, SameBuffer
  <2> HIDE DEF m2
  <2> QED BY <2>1, <2>2 DEF PeerStops
<1> HIDE DEF m2
<1>5. Quiet(m, m2)
  BY <1>3, <1>4, QuietFlags DEF PeerStops, SameRecv
<1>6. Quiet(t, p)
  <2>1. Quiet(m2, ResetSendPart(m2, k))
    BY <1>5, QuietReset DEF Quiet
  <2>2. Quiet(t, ResetSendPart(m2, k))
    BY <1>2, <1>5, <2>1, QuietTrans
  <2> QED BY <1>2, <2>2
<1>p. p = IF f.stop THEN ResetSendPart(m2, k) ELSE m
  OBVIOUS
<1> HIDE DEF p
<1>7. p \in StRec /\ LocalOK(p) /\ RxWithin(p, q)
  BY <1>6, RecvdQuiet DEF Quiet
<1>8. /\ r \in StRec /\ LocalOK(r) /\ RxWithin(r, q)
      /\ IF f.reset # None THEN ResetTaken(p, k, r) ELSE r = p
  <2>1. CASE f.reset # None
    <3>1. SendIsReset(q) /\ f.reset = q.txSwm
      BY <2>1 DEF FrameOK
    <3>2. r = RecvReset(p, q.txSwm, k)
      BY <2>1, <3>1
    <3> HIDE DEF r
    <3>3. Recvd(p, r) /\ RxWithin(r, q)
      BY <1>7, <3>1, <3>2, RecvResetStep
    <3>4. ResetTaken(p, k, r)
      BY <1>7, <3>2, ResetTakes
    <3> QED BY <2>1, <3>3, <3>4 DEF Recvd
  <2>2. CASE ~(f.reset # None)
    BY <1>7, <2>2
  <2> QED BY <2>1, <2>2
<1> HIDE DEF r
<1>9. PICK n : n = Larger(r.txCwm, f.maxStreamData)
  OBVIOUS
<1>10. n \in Nat
  <2>1. r.txCwm \in Nat /\ f.maxStreamData \in Int
    BY <1>8, StFields DEF FrameRec
  <2> QED BY <1>9, <2>1 DEF Larger
<1>11. r2 = [r EXCEPT !.txCwm = n]
  BY <1>9
<1>12. MoreCredit(r, r2) /\ r2.txSwm = r.txSwm
  <2> HIDE DEF r2
  <2>1. r2 \in StRec
    BY <1>8, <1>10, <1>11 DEF StRec
  <2>2. /\ SameRecv(r, r2) /\ SameBuffer(r, r2)
        /\ r2.sendState = r.sendState /\ r2.finalSize = r.finalSize
        /\ r2.wantReset = r.wantReset /\ r2.peerStop = r.peerStop
        /\ r2.ackedStop = r.ackedStop /\ r2.deleted = r.deleted
        /\ r2.readyForGc = r.readyForGc /\ r2.txSwm = r.txSwm
    BY <1>8, <1>11 DEF StRec, SameRecv, SameBuffer
  <2> QED BY <2>1, <2>2 DEF MoreCredit
<1> HIDE DEF r2
<1>13. LocalOK(r2) /\ RxWithin(r2, q)
  <2>1. SendOK(r2)
    BY <1>8, <1>12 DEF LocalOK, SendOK, MoreCredit, SameBuffer, HasSStream, SendIsReset
  <2>2. RxOK(r2) /\ RxWithin(r2, q)
    BY <1>8, <1>12 DEF LocalOK, RxOK, RxWithin, MoreCredit, SameRecv
  <2> QED BY <2>1, <2>2 DEF LocalOK
<1>14. r2 \in StRec
  BY <1>12 DEF MoreCredit
<1>15. c \in StRec /\ LocalOK(c) /\ RxWithin(c, q)
  <2>1. Quiet(r2, UpdateState(r2, k))
    BY <1>13, <1>14, QuietUpdate
  <2>2. RxWithin(UpdateState(r2, k), q)
    BY <1>13, <1>14, <2>1, RecvdQuiet
  <2> QED BY <1>8, <2>1, <2>2 DEF Quiet
<1>c. c = IF f.maxStreamData # None THEN UpdateState(r2, k) ELSE r
  OBVIOUS
<1> HIDE DEF c
<1>16. IF f.end # None THEN StreamTaken(c, f, u) ELSE u = c
  <2>1. CASE f.end # None
    <3>1. u = RecvStream(c, f)
      BY <1>1, <2>1
    <3> QED BY <1>15, <2>1, <3>1, StreamTakes
  <2>2. CASE ~(f.end # None)
    BY <1>1, <2>2
  <2> QED BY <2>1, <2>2
<1>17. m2 \in StRec
  BY <1>4 DEF PeerStops
<1>18. Chain(t, f, maxData, k, u, m, m2, p, r, r2, c)
  BY <1>m, <1>4, <1>p, <1>8, <1>12, <1>c, <1>16 DEF Chain
<1> QED BY <1>3, <1>7, <1>8, <1>14, <1>15, <1>17, <1>18

-----------------------------------------------------------------------------
(* The active list *)

\* A stream with something to send is listed; one not yet used is not concluded,
\* and one that the application has let go of has a finished send part.
Listed(t, c) == ShouldBeActive(t, c) => t.active

Tidy(t) ==
    /\ t.sendState = "READY" => ~t.fin
    /\ t.deleted => SendFinished(t)

Well(t, c) == Listed(t, c) /\ Tidy(t)

ActiveInv == \A e \in End, s \in Stream : Well(st[e][s], ConnCredit(e))

\* What a change must keep for a listed stream to stay listed.
LEMMA ListedKept ==
    ASSUME NEW t, NEW u, NEW c, Listed(t, c), u.active = t.active,
           t.readyForGc => u.readyForGc,
           u.recvState = "RECV" => t.recvState = "RECV",
           u.wantMaxStreamData = t.wantMaxStreamData, u.rx.changed = t.rx.changed,
           u.wantStop => t.wantStop, u.wantReset => t.wantReset,
           t.peerStop => u.peerStop,
           HasDataToSend(u, c) => HasDataToSend(t, c)
    PROVE  Listed(u, c)
BY DEF Listed, ShouldBeActive

LEMMA WellUpdate ==
    ASSUME NEW t \in StRec, NEW c \in Int, Tidy(t)
    PROVE  Well(UpdateState(t, c), c)
<1>1. PICK u : u = UpdateState(t, c)
  OBVIOUS
<1>2. /\ u.fin = t.fin /\ u.deleted = t.deleted
      /\ u.sendState = t.sendState \/ (t.sendState = "DATA_SENT" /\ u.sendState = "DATA_RECVD")
      /\ u.active <=> ShouldBeActive(u, c)
  BY <1>1, UpdateEffect
<1>3. Tidy(u)
  BY <1>2 DEF Tidy, SendFinished, SendIsReset
<1> QED BY <1>1, <1>2, <1>3 DEF Well, Listed

LEMMA WellReset ==
    ASSUME NEW t \in StRec, NEW c \in Int, Well(t, c)
    PROVE  Well(ResetSendPart(t, c), c)
<1>1. PICK u : u = ResetSendPart(t, c)
  OBVIOUS
<1>2. /\ u.deleted = t.deleted
      /\ u = t \/ (u.sendState = "RESET_SENT" /\ (u.active <=> ShouldBeActive(u, c)))
  BY <1>1, ResetEffect
<1>3. CASE u = t
  BY <1>1, <1>3
<1>4. CASE u # t
  <2>1. Listed(u, c)
    BY <1>2, <1>4 DEF Listed
  <2>2. Tidy(u)
    BY <1>2, <1>4 DEF Tidy, SendFinished, SendIsReset
  <2> QED BY <1>1, <2>1, <2>2 DEF Well
<1> QED BY <1>3, <1>4

LEMMA TidyKept ==
    ASSUME NEW t, NEW u, Tidy(t), u.sendState = t.sendState, u.fin = t.fin,
           u.deleted = t.deleted
    PROVE  Tidy(u)
BY DEF Tidy, SendFinished, SendIsReset

LEMMA WellStop ==
    ASSUME NEW t \in StRec, NEW c \in Int, Tidy(t)
    PROVE  ScheduleStopSending(t, c) = t \/ Well(ScheduleStopSending(t, c), c)
<1>1. CASE ScheduleStopSending(t, c) # t
  <2>1. PICK x \in StRec :
          /\ ScheduleStopSending(t, c) = UpdateState(x, c)
          /\ SameBuffer(t, x)
          /\ x.sendState = t.sendState /\ x.deleted = t.deleted
    BY <1>1, ScheduleStopEffect
  <2>2. Tidy(x)
    BY <2>1, TidyKept DEF SameBuffer
  <2> QED BY <2>1, <2>2, WellUpdate
<1> QED BY <1>1

LEMMA TidyStop ==
    ASSUME NEW t \in StRec, NEW c \in Int, Tidy(t)
    PROVE  Tidy(ScheduleStopSending(t, c)) /\ ScheduleStopSending(t, c) \in StRec
<1>1. CASE ScheduleStopSending(t, c) = t
  BY <1>1
<1>2. CASE ScheduleStopSending(t, c) # t
  <2>1. PICK x \in StRec : ScheduleStopSending(t, c) = UpdateState(x, c)
    BY <1>2, ScheduleStopEffect
  <2>2. UpdateState(x, c) \in StRec
    BY UpdateEffect
  <2> QED BY <1>2, <2>1, <2>2, WellStop DEF Well
<1> QED BY <1>1, <1>2

\* With less credit there is less to send.
LEMMA LessCredit ==
    ASSUME NEW t \in StRec, NEW b \in Int, NEW c \in Int, c <= b, Well(t, b)
    PROVE  Well(t, c)
<1>1. t.txSwm \in Nat /\ t.txCwm \in Nat /\ t.new \in SUBSET Nat
  BY StFields
<1>2. FcLimit(t, c) <= FcLimit(t, b) /\ FcLimit(t, c) \in Int /\ FcLimit(t, b) \in Int
  BY <1>1 DEF FcLimit, Smaller
<1>3. ASSUME t.new # {} PROVE Min(t.new) \in Int
  <2>1. PICK n \in t.new : \A m \in t.new : n <= m
    BY <1>1, <1>3, NatMin
  <2>2. Min(t.new) \in t.new
    BY <2>1 DEF Min
  <2> QED BY <1>1, <2>2
<1>4. HasDataToSend(t, c) => HasDataToSend(t, b)
  BY <1>2, <1>3 DEF HasDataToSend
<1> QED BY <1>4 DEF Well, Listed, ShouldBeActive

LEMMA WellWrite ==
    ASSUME NEW t \in StRec, NEW c \in Int, Tidy(t), NEW n \in Nat, n > 0,
           NEW conclude \in BOOLEAN,
           t.sendState \in {"READY", "SEND"}, ~t.fin, ~t.deleted
    PROVE  Well([UpdateState([t EXCEPT !.sendState = "SEND", !.size = @ + n,
                           !.new = @ \cup t.size..(t.size + n - 1)], c)
                   EXCEPT !.fin = conclude], c)
<1> DEFINE a == [t EXCEPT !.sendState = "SEND", !.size = @ + n,
                          !.new = @ \cup t.size..(t.size + n - 1)]
<1>1. t.size \in Nat /\ t.new \in SUBSET Nat
  BY StFields
<1>2. a \in StRec
  <2>1. t.size + n \in Nat /\ t.new \cup t.size..(t.size + n - 1) \in SUBSET Nat
    BY <1>1
  <2> QED BY <2>1 DEF StRec, SendStates
<1>3. /\ a.sendState = "SEND" /\ a.new = t.new \cup t.size..(t.size + n - 1)
      /\ a.fin = t.fin /\ a.deleted = t.deleted
  BY DEF StRec
<1> HIDE DEF a
<1>4. a.new # {}
  BY <1>1, <1>3
<1>5. PICK u : u = UpdateState(a, c)
  OBVIOUS
<1>6. /\ u \in StRec /\ u.sendState = "SEND" /\ u.new = a.new /\ ~u.deleted
      /\ u.active <=> ShouldBeActive(u, c)
  BY <1>2, <1>3, <1>5, UpdateEffect
<1>7. PICK v : v = [u EXCEPT !.fin = conclude]
  OBVIOUS
<1>8. /\ v.sendState = u.sendState /\ v.new = u.new /\ v.txSwm = u.txSwm
      /\ v.txCwm = u.txCwm /\ v.deleted = u.deleted /\ v.active = u.active
      /\ v.readyForGc = u.readyForGc /\ SameRecv(u, v)
      /\ v.wantReset = u.wantReset /\ v.peerStop = u.peerStop
  BY <1>6, <1>7 DEF StRec, SameRecv
<1>9. HasDataToSend(v, c) <=> HasDataToSend(u, c)
  BY <1>4, <1>6, <1>8 DEF HasDataToSend, HasSStream, FcLimit
<1>10. Listed(u, c)
  BY <1>6 DEF Listed
<1>11. Listed(v, c)
  BY <1>8, <1>9, <1>10, ListedKept DEF SameRecv
<1>12. Tidy(v)
  BY <1>6, <1>8 DEF Tidy
<1> QED BY <1>5, <1>7, <1>11, <1>12 DEF Well, a

LEMMA WellConclude ==
    ASSUME NEW t \in StRec, NEW c \in Int, Tidy(t), ~t.deleted
    PROVE  Well(UpdateState([t EXCEPT !.sendState = "SEND", !.fin = TRUE], c), c)
<1>1. PICK a : a = [t EXCEPT !.sendState = "SEND", !.fin = TRUE]
  OBVIOUS
<1>2. a \in StRec
  BY <1>1 DEF StRec, SendStates
<1>3. a.sendState = "SEND" /\ ~a.deleted
  BY <1>1 DEF StRec
<1>4. Tidy(a)
  BY <1>3 DEF Tidy
<1> QED BY <1>1, <1>2, <1>4, WellUpdate

LEMMA WellFree ==
    ASSUME NEW t \in StRec, NEW c \in Int, Well(t, c)
    PROVE  LET r == IF t.sendState \in {"READY", "SEND"} /\ ~t.fin
                    THEN ResetSendPart(t, c) ELSE t
               p == IF r.recvState \in {"RECV", "SIZE_KNOWN"} /\ ~r.stop
                    THEN ScheduleStopSending([r EXCEPT !.stop = TRUE], c) ELSE r
           IN  Well(UpdateState([p EXCEPT !.deleted = TRUE], c), c)
<1> DEFINE r == IF t.sendState \in {"READY", "SEND"} /\ ~t.fin
                THEN ResetSendPart(t, c) ELSE t
           x == [r EXCEPT !.stop = TRUE]
           p == IF r.recvState \in {"RECV", "SIZE_KNOWN"} /\ ~r.stop
                THEN ScheduleStopSending(x, c) ELSE r
           y == [p EXCEPT !.deleted = TRUE]
<1>1. r \in StRec /\ Tidy(r) /\ SendFinished(r)
  <2>1. CASE t.sendState \in {"READY", "SEND"} /\ ~t.fin
    <3>1. r = ResetSendPart(t, c)
      BY <2>1
    <3> HIDE DEF r
    <3>2. r \in StRec /\ r.sendState = "RESET_SENT"
      BY <2>1, <3>1, ResetEffect
    <3>3. Tidy(r)
      BY <3>1, WellReset DEF Well
    <3> QED BY <3>2, <3>3 DEF SendFinished, SendIsReset
  <2>2. CASE ~(t.sendState \in {"READY", "SEND"} /\ ~t.fin)
    <3>1. r = t
      BY <2>2
    <3>2. t.sendState \in SendStates
      BY StFields
    <3>3. SendFinished(t)
      BY <2>2, <3>2 DEF Well, Tidy, SendFinished, SendIsReset, SendStates
    <3> QED BY <3>1, <3>3 DEF Well
  <2> QED BY <2>1, <2>2
<1> HIDE DEF r
<1>2. x \in StRec /\ x.sendState = r.sendState /\ x.fin = r.fin /\ x.deleted = r.deleted
  BY <1>1 DEF StRec
<1> HIDE DEF x
<1>3. Tidy(x) /\ SendFinished(x)
  BY <1>1, <1>2, TidyKept DEF SendFinished, SendIsReset
<1>4. p \in StRec /\ SendFinished(p)
  <2>1. PICK z : z = ScheduleStopSending(x, c)
    OBVIOUS
  <2>2. z \in StRec /\ SendFinished(z)
    <3>1. CASE z = x
      BY <1>2, <1>3, <3>1
    <3>2. CASE z # x
      <4>1. PICK w \in StRec : /\ z = UpdateState(w, c) /\ SameBuffer(x, w)
                               /\ w.sendState = x.sendState
        BY <1>2, <2>1, <3>2, ScheduleStopEffect
      <4>2. SendFinished(w)
        BY <1>3, <4>1 DEF SendFinished, SendIsReset, SameBuffer
      <4>3. /\ z \in StRec /\ z.fin = w.fin
            /\ \/ z.sendState = w.sendState
               \/ z.sendState = "DATA_RECVD"
        BY <4>1, UpdateEffect
      <4> QED BY <4>2, <4>3 DEF SendFinished, SendIsReset
    <3> QED BY <3>1, <3>2
  <2> QED BY <1>1, <2>1, <2>2
<1> HIDE DEF p
<1>5. y \in StRec /\ y.sendState = p.sendState /\ y.fin = p.fin /\ y.deleted
  BY <1>4 DEF StRec
<1> HIDE DEF y
<1>6. Tidy(y)
  <2>1. SendFinished(y)
    BY <1>4, <1>5 DEF SendFinished, SendIsReset
  <2> QED BY <2>1 DEF Tidy, SendFinished, SendIsReset
<1>7. Well(UpdateState(y, c), c)
  BY <1>5, <1>6, WellUpdate
<1> QED BY <1>7 DEF y, p, x, r

\* A change of the receive state past RECV, without an update.
LEMMA WellRecvState ==
    ASSUME NEW t \in StRec, NEW c \in Int, Well(t, c), NEW rs \in RecvStates,
           rs = "RECV" => t.recvState = "RECV",
           NEW g \in SUBSET Nat, NEW u, u = [t EXCEPT !.got = g, !.recvState = rs]
    PROVE  Well(u, c)
<1>1. /\ u.sendState = t.sendState /\ SameBuffer(t, u) /\ SameCredit(t, u)
      /\ u.deleted = t.deleted /\ u.active = t.active
      /\ u.readyForGc = t.readyForGc /\ u.rx = t.rx
      /\ u.wantReset = t.wantReset /\ u.peerStop = t.peerStop
      /\ u.wantStop = t.wantStop /\ u.wantMaxStreamData = t.wantMaxStreamData
      /\ u.recvState = rs
  BY DEF StRec, SameBuffer, SameCredit
<1>2. HasDataToSend(u, c) <=> HasDataToSend(t, c)
  BY <1>1 DEF HasDataToSend, HasSStream, FcLimit, SameBuffer, SameCredit
<1>3. Listed(t, c) /\ Tidy(t) /\ u.rx.changed = t.rx.changed
  BY <1>1 DEF Well
<1>4. u.recvState = "RECV" => t.recvState = "RECV"
  BY <1>1
<1>5. Listed(u, c)
  BY ONLY <1>1, <1>2, <1>3, <1>4 DEF Listed, ShouldBeActive
<1>6. Tidy(u)
  BY <1>1, <1>3, TidyKept DEF SameBuffer
<1> QED BY <1>5, <1>6 DEF Well

LEMMA WellAcked ==
    ASSUME NEW t \in StRec, NEW c \in Int, NEW f \in FrameRec, Well(t, c)
    PROVE  Well(OnAcked(t, f, c), c)
<1>1. CASE OnAcked(t, f, c) = t
  BY <1>1
<1>2. CASE OnAcked(t, f, c) # t
  <2>1. PICK u \in StRec :
          /\ OnAcked(t, f, c) \in {u, UpdateState(u, c)}
          /\ SameRecv(t, u) /\ SameCredit(t, u)
          /\ u.sendState = t.sendState
          /\ u.fin = t.fin /\ u.new = t.new /\ u.sentFin = t.sentFin
          /\ u.wantReset = t.wantReset
          /\ u.peerStop = t.peerStop /\ u.deleted = t.deleted
          /\ u.readyForGc = t.readyForGc /\ u.active = t.active
    BY <1>2, AckedEffect
  <2>2. Tidy(u)
    BY <2>1, TidyKept DEF Well
  <2>3. HasDataToSend(u, c) <=> HasDataToSend(t, c)
    BY <2>1 DEF HasDataToSend, HasSStream, FcLimit, SameCredit
  <2>4. Listed(u, c)
    BY <2>1, <2>3, ListedKept DEF Well, SameRecv
  <2>5. Well(UpdateState(u, c), c)
    BY <2>2, WellUpdate
  <2> QED BY <2>1, <2>2, <2>4, <2>5 DEF Well
<1> QED BY <1>1, <1>2

LEMMA WellLost ==
    ASSUME NEW t \in StRec, NEW c \in Int, NEW f \in FrameRec, Well(t, c)
    PROVE  Well(OnLost(t, f, c), c)
<1>1. CASE OnLost(t, f, c) = t
  BY <1>1
<1>2. CASE OnLost(t, f, c) # t
  <2>1. PICK u \in StRec :
          /\ OnLost(t, f, c) \in {UpdateState(u, c),
                                  UpdateState(ScheduleStopSending(u, c), c)}
          /\ u.sendState = t.sendState /\ u.fin = t.fin /\ u.deleted = t.deleted
    BY <1>2, LostEffect
  <2>2. Tidy(u)
    BY <2>1, TidyKept DEF Well
  <2>3. Well(UpdateState(u, c), c)
    BY <2>2, WellUpdate
  <2>4. Well(UpdateState(ScheduleStopSending(u, c), c), c)
    BY <2>2, TidyStop, WellUpdate
  <2> QED BY <2>1, <2>3, <2>4
<1> QED BY <1>1, <1>2

LEMMA WellTx ==
    ASSUME NEW t \in StRec, NEW c \in Int, NEW f \in FrameRec, NEW used \in Nat,
           Tidy(t)
    PROVE  Well(AfterTx(t, f, used, c), c)
<1>1. PICK v : v = AfterTx(t, f, used, c)
  OBVIOUS
<1>2. PICK w : Written(t, f, used, w) /\ (v = UpdateState(w, c) \/ AllSent(UpdateState(w, c), v))
  BY <1>1, TxEffect
<1>3. w \in StRec /\ w.sendState = t.sendState /\ w.fin = t.fin /\ w.deleted = t.deleted
  BY <1>2 DEF Written
<1>4. Tidy(w)
  BY <1>3, TidyKept
<1>5. PICK u : u = UpdateState(w, c)
  OBVIOUS
<1>6. Well(u, c)
  BY <1>3, <1>4, <1>5, WellUpdate
<1>7. CASE v = u
  BY <1>1, <1>6, <1>7
<1>8. CASE AllSent(u, v)
  <2>1. ~HasDataToSend(v, c)
    BY <1>8 DEF AllSent, HasDataToSend, SameBuffer
  <2>2. Listed(v, c)
    BY <1>6, <1>8, <2>1, ListedKept DEF AllSent, SameRecv, Well
  <2>3. Tidy(v)
    BY <1>8 DEF AllSent, Tidy, SendFinished
  <2> QED BY <1>1, <2>2, <2>3 DEF Well
<1> QED BY <1>2, <1>5, <1>7, <1>8

\* All the frames of a packet: a MAX_DATA frame comes with an update.
LEMMA WellRecv ==
    ASSUME NEW t \in StRec, LocalOK(t), NEW q \in StRec, RxWithin(t, q),
           NEW f \in FrameRec, FrameOK(q, f), NEW maxData, NEW k \in Int,
           NEW u, u = RecvFrames(t, f, maxData, k),
           Tidy(t), maxData = None => Well(t, k)
    PROVE  Well(u, k)
<1>1. PICK m, m2, p, r, r2, c \in StRec :
             Chain(t, f, maxData, k, u, m, m2, p, r, r2, c)
  BY RecvChain
<1>2. Well(m, k)
  BY <1>1, WellUpdate DEF Chain
<1>3. Well(m2, k)
  <2>1. PeerStops(m, m2)
    BY <1>1 DEF Chain
  <2>2. HasDataToSend(m2, k) <=> HasDataToSend(m, k)
    BY <2>1 DEF PeerStops, HasDataToSend, HasSStream, FcLimit, SameBuffer, SameCredit
  <2>3. Listed(m2, k)
    BY <1>2, <2>1, <2>2, ListedKept DEF PeerStops, SameRecv, Well
  <2>4. Tidy(m2)
    BY <1>2, <2>1, TidyKept DEF PeerStops, SameBuffer, Well
  <2> QED BY <2>3, <2>4 DEF Well
<1>4. Well(p, k)
  BY <1>1, <1>2, <1>3, WellReset DEF Chain
<1>5. Well(r, k)
  <2>1. CASE f.reset # None
    <3>1. ResetTaken(p, k, r)
      BY <1>1, <2>1 DEF Chain
    <3>2. PICK x \in StRec : r = UpdateState(x, k) /\ SameSend(p, x)
      BY <3>1 DEF ResetTaken, AfterReset
    <3>3. Tidy(x)
      BY <1>4, <3>2, TidyKept DEF SameSend, SameBuffer, Well
    <3> QED BY <3>2, <3>3, WellUpdate
  <2>2. CASE ~(f.reset # None)
    BY <1>1, <1>4, <2>2 DEF Chain
  <2> QED BY <2>1, <2>2
<1>6. Tidy(r2)
  BY <1>1, <1>5, TidyKept DEF Chain, MoreCredit, SameBuffer, Well
<1>7. Well(c, k)
  BY <1>1, <1>5, <1>6, WellUpdate DEF Chain
<1>8. CASE f.end # None
  <2>1. StreamTaken(c, f, u)
    BY <1>1, <1>8 DEF Chain
  <2>2. SameSend(c, u)
    BY <2>1 DEF StreamTaken
  <2>3. HasDataToSend(u, k) <=> HasDataToSend(c, k)
    BY <2>2 DEF SameSend, HasDataToSend, HasSStream, FcLimit, SameBuffer, SameCredit
  <2>4. Listed(u, k)
    <3>1. /\ u.active = c.active /\ u.wantMaxStreamData = c.wantMaxStreamData
          /\ u.rx.changed = c.rx.changed
          /\ u.recvState = "RECV" => c.recvState = "RECV"
          /\ u.wantStop => c.wantStop
      BY <2>1 DEF StreamTaken, RxTaken
    <3>2. u.readyForGc = c.readyForGc /\ u.wantReset = c.wantReset /\ u.peerStop = c.peerStop
      BY <2>2 DEF SameSend
    <3> QED BY <1>7, <2>3, <3>1, <3>2, ListedKept DEF Well
  <2>5. Tidy(u)
    BY <1>7, <2>2, TidyKept DEF SameSend, SameBuffer, Well
  <2> QED BY <2>4, <2>5 DEF Well
<1>9. CASE ~(f.end # None)
  BY <1>1, <1>7, <1>9 DEF Chain
<1> QED BY <1>8, <1>9

LEMMA ActiveStreamStep ==
    ASSUME Types, ActiveInv, NEW e \in End, NEW s \in Stream, NEW x,
           Well(x, ConnCredit(e)), st' = [st EXCEPT ![e][s] = x],
           \A a \in End : /\ conn'[a].txCwm = conn[a].txCwm
                          /\ conn'[a].txSwm = conn[a].txSwm
    PROVE  ActiveInv'
<1>1. st \in [End -> [Stream -> StRec]]
  BY DEF Types
<1>2. \A a \in End, z \in Stream :
        st'[a][z] = IF a = e /\ z = s THEN x ELSE st[a][z]
  BY <1>1
<1>3. \A a \in End : ConnCredit(a)' = ConnCredit(a)
  BY DEF ConnCredit
<1>4. \A a \in End, z \in Stream : Well(st'[a][z], ConnCredit(a))
  BY <1>2 DEF ActiveInv
<1> QED BY <1>3, <1>4 DEF ActiveInv

LEMMA ActiveEndStep ==
    ASSUME Types, ActiveInv, NEW e \in End, NEW x, NEW c,
           st' = [st EXCEPT ![e] = x], ConnCredit(e)' = c,
           \A s \in Stream : Well(x[s], c),
           \A a \in End : a # e => ConnCredit(a)' = ConnCredit(a)
    PROVE  ActiveInv'
<1>1. st \in [End -> [Stream -> StRec]]
  BY DEF Types
<1>2. \A a \in End : st'[a] = IF a = e THEN x ELSE st[a]
  BY <1>1
<1>3. ASSUME NEW a \in End, NEW s \in Stream PROVE Well(st'[a][s], ConnCredit(a)')
  <2>1. CASE a = e
    BY <1>2, <2>1
  <2>2. CASE a # e
    BY <1>2, <2>2 DEF ActiveInv
  <2> QED BY <2>1, <2>2
<1> QED BY <1>3 DEF ActiveInv

LEMMA ActiveRead ==
    ASSUME FlowInv, ActiveInv, NEW e \in End, NEW s \in Stream, NEW n \in 0..MaxSize,
           NEW dblStream \in BOOLEAN, NEW dblConn \in BOOLEAN,
           Read(e, s, n, dblStream, dblConn)
    PROVE  ActiveInv'
<1> DEFINE t == st[e][s]
           all == n = Cardinality(Readable(t)) /\ FinReadable(t)
           rx == RxRetire(t.rx, n, 0, dblStream)
           rs == IF all /\ t.recvState = "DATA_RECVD" THEN "DATA_READ" ELSE t.recvState
           g == t.got \ t.rx.rwm..(t.rx.rwm + n - 1)
           u == [t EXCEPT !.rx = IF n = 0 THEN @ ELSE rx,
                          !.got = @ \ t.rx.rwm..(t.rx.rwm + n - 1),
                          !.recvState = IF all /\ @ = "DATA_RECVD"
                                        THEN "DATA_READ" ELSE @]
           x == IF n = 0 THEN u ELSE UpdateState(u, ConnCredit(e))
<1>1. /\ st' = [st EXCEPT ![e][s] = x]
      /\ conn' = IF n = 0 THEN conn
                 ELSE [conn EXCEPT ![e] = ConnRetire(@, n, rx.win, dblConn)]
      /\ n <= Cardinality(Readable(t))
  BY DEF Read
<1>2. /\ Types /\ t \in StRec /\ LocalOK(t) /\ ConnCredit(e) \in Int
      /\ conn \in [End -> ConnRec]
  BY StateTypes DEF FlowInv, StreamInv, Types
<1>3. Well(t, ConnCredit(e))
  BY DEF ActiveInv
<1>4. \A a \in End : conn'[a].txCwm = conn[a].txCwm /\ conn'[a].txSwm = conn[a].txSwm
  <2> HIDE DEF rx
  <2>1. PICK y : y = RxRetire(conn[e].rx, n, rx.win, dblConn)
    OBVIOUS
  <2>2. ConnRetire(conn[e], n, rx.win, dblConn) = [conn[e] EXCEPT !.rx = y]
    BY <2>1 DEF ConnRetire
  <2>3. conn[e] \in ConnRec
    BY <1>2
  <2>4. PICK z : z = ConnRetire(conn[e], n, rx.win, dblConn)
    OBVIOUS
  <2>5. z.txCwm = conn[e].txCwm /\ z.txSwm = conn[e].txSwm
    BY <2>2, <2>3, <2>4 DEF ConnRec
  <2>6. conn' = IF n = 0 THEN conn ELSE [conn EXCEPT ![e] = z]
    BY <1>1, <2>4
  <2> QED BY <1>2, <2>5, <2>6
<1>5. rs \in RecvStates /\ (rs = "RECV" => t.recvState = "RECV")
  BY <1>2, StFields DEF RecvStates
<1>6. g \in SUBSET Nat
  BY <1>2, StFields
<1>7. n \in Nat /\ t.rx \in RxRec
  BY <1>2, StFields, MaxSizeAssumption
<1>8. Well(x, ConnCredit(e))
  <2>1. CASE n = 0
    <3>1. u = [t EXCEPT !.got = g, !.recvState = rs]
      BY <1>2, <2>1 DEF StRec
    <3>2. x = u
      BY <2>1
    <3> HIDE DEF rs, g, u, t
    <3> QED BY <1>2, <1>3, <1>5, <1>6, <3>1, <3>2, WellRecvState
  <2>2. CASE n # 0
    <3>1. rx \in RxRec
      <4>1. t.rx.cwm - t.rx.rwm <= t.rx.max
        BY <1>2 DEF LocalOK, RxOK
      <4>2. 0 \in Nat
        OBVIOUS
      <4>3. Retired(t.rx, n, rx)
        <5> HIDE DEF t
        <5> QED BY <1>7, <4>1, <4>2, RetireEffect
      <4> QED BY <4>3 DEF Retired
    <3>2. u = [t EXCEPT !.rx = rx, !.got = g, !.recvState = rs]
      BY <1>2, <2>2 DEF StRec
    <3>3. x = UpdateState(u, ConnCredit(e))
      BY <2>2
    <3> HIDE DEF rs, g, u, t, rx, x
    <3>4. u \in StRec
      BY <1>2, <1>5, <1>6, <3>1, <3>2 DEF StRec
    <3>5. u.sendState = t.sendState /\ u.fin = t.fin /\ u.deleted = t.deleted
      BY <1>2, <3>2 DEF StRec
    <3>6. Tidy(u)
      BY <1>3, <3>5, TidyKept DEF Well
    <3> QED BY <1>2, <3>3, <3>4, <3>6, WellUpdate
  <2> QED BY <2>1, <2>2
<1> HIDE DEF x
<1> QED BY <1>1, <1>2, <1>4, <1>8, ActiveStreamStep

LEMMA ActiveTx ==
    ASSUME FlowInv, ActiveInv, NEW e \in End, NEW i \in Slot,
           NEW served \in SUBSET Stream,
           NEW cut \in [Stream -> 0..MaxSize], NEW fin \in SUBSET Stream,
           TxPacket(e, i, served, cut, fin)
    PROVE  ActiveInv'
<1> DEFINE bytes == [s \in Stream |-> IF s \in served THEN Chunk(st[e][s], cut[s])
                                      ELSE {}]
           used  == [s \in Stream |-> NewCredit(st[e][s], bytes[s])]
           str   == [s \in Stream |->
                       IF s \in served
                       THEN StreamFrames(st[e][s], bytes[s], s \in fin)
                       ELSE NoFrames]
           spent == conn[e].txSwm + SumFunction(used)
           x     == [s \in Stream |->
                       IF s \in served
                       THEN AfterTx(st[e][s], str[s], used[s], conn[e].txCwm - spent)
                       ELSE st[e][s]]
<1>1. /\ \A s \in Stream : (s \in fin) \in
                (IF s \in served THEN FinChoices(st[e][s], bytes[s]) ELSE {FALSE})
      /\ st' = [st EXCEPT ![e] = x]
      /\ conn' = [conn EXCEPT ![e].txSwm = spent,
                              ![e].wantMaxData = FALSE,
                              ![e].rx.changed = FALSE]
  BY DEF TxPacket
<1>2. /\ Types /\ StreamInv /\ conn \in [End -> ConnRec] /\ conn[e] \in ConnRec
      /\ conn[e].txSwm \in Nat /\ conn[e].txCwm \in Nat
  BY StateTypes DEF FlowInv, Types
<1>3. used \in [Stream -> Nat] /\ SumFunction(used) \in Nat
  <2>1. \A s \in Stream : NewCredit(st[e][s], bytes[s]) \in Nat
    <3> TAKE s \in Stream
    <3>1. st[e][s] \in StRec /\ LocalOK(st[e][s])
      BY <1>2, StateTypes DEF StreamInv
    <3>2. bytes[s] \subseteq st[e][s].new
      BY DEF Chunk
    <3> HIDE DEF bytes
    <3> QED BY <3>1, <3>2, NewCreditFacts
  <2>2. used \in [Stream -> Nat]
    <3> HIDE DEF bytes
    <3> QED BY <2>1
  <2> HIDE DEF used
  <2> QED BY <2>2, SumNat, StreamAssumption
<1>4. PICK c : c = conn[e].txCwm - spent
  OBVIOUS
<1>5. spent \in Nat /\ c \in Int /\ c <= ConnCredit(e) /\ ConnCredit(e) \in Int
  <2> HIDE DEF used
  <2> QED BY <1>2, <1>3, <1>4 DEF ConnCredit
<1>6. \A s \in Stream : Well(x[s], c)
  <2> TAKE s \in Stream
  <2>1. st[e][s] \in StRec /\ Well(st[e][s], ConnCredit(e))
    BY <1>2, StateTypes DEF ActiveInv
  <2>2. CASE s \in served
    <3>1. str[s] \in FrameRec
      <4>1. bytes[s] = IF s \in served THEN Chunk(st[e][s], cut[s]) ELSE {}
        OBVIOUS
      <4>2. used[s] = NewCredit(st[e][s], bytes[s])
        OBVIOUS
      <4>3. str[s] = IF s \in served THEN StreamFrames(st[e][s], bytes[s], s \in fin)
                     ELSE NoFrames
        OBVIOUS
      <4>4. (s \in fin) \in
                (IF s \in served THEN FinChoices(st[e][s], bytes[s]) ELSE {FALSE})
        BY <1>1
      <4> HIDE DEF bytes, used, str, spent
      <4>5. x[s] = IF s \in served
                   THEN AfterTx(st[e][s], str[s], used[s], c)
                   ELSE st[e][s]
        BY <1>4
      <4> HIDE DEF x
      <4>6. SentDone(st[e][s], x[s], str[s], used[s])
        BY <1>5, <4>1, <4>2, <4>3, <4>4, <4>5, TxStreams
      <4> QED BY <4>6 DEF SentDone
    <3> HIDE DEF str, used
    <3>2. x[s] = AfterTx(st[e][s], str[s], used[s], c)
      BY <1>4, <2>2
    <3>3. used[s] \in Nat
      BY <1>3
    <3> HIDE DEF x
    <3> QED BY <1>5, <2>1, <3>1, <3>2, <3>3, WellTx DEF Well
  <2>3. CASE s \notin served
    <3>1. x[s] = st[e][s]
      BY <2>3
    <3> HIDE DEF x
    <3> QED BY <1>5, <2>1, <3>1, LessCredit
  <2> QED BY <2>2, <2>3
<1> HIDE DEF x, spent
<1>7. conn'[e].txSwm = spent /\ conn'[e].txCwm = conn[e].txCwm
  <2>1. PICK d : d = conn[e]
    OBVIOUS
  <2>2. conn'[e] = [[[d EXCEPT !.txSwm = spent] EXCEPT !.wantMaxData = FALSE]
                        EXCEPT !.rx = [[[d EXCEPT !.txSwm = spent]
                                  EXCEPT !.wantMaxData = FALSE].rx EXCEPT !.changed = FALSE]]
    BY <1>1, <1>2, <2>1
  <2>3. PICK y : y = [[[d EXCEPT !.txSwm = spent]
                                  EXCEPT !.wantMaxData = FALSE].rx EXCEPT !.changed = FALSE]
    OBVIOUS
  <2>4. conn'[e] = [d EXCEPT !.txSwm = spent, !.wantMaxData = FALSE, !.rx = y]
    BY <2>2, <2>3
  <2> QED BY <1>2, <2>1, <2>4 DEF ConnRec
<1>8. \A a \in End : a # e => conn'[a] = conn[a]
  BY <1>1, <1>2
<1>9. ConnCredit(e)' = c
  BY <1>4, <1>7 DEF ConnCredit
<1>10. \A a \in End : a # e => ConnCredit(a)' = ConnCredit(a)
  BY <1>8 DEF ConnCredit
<1> QED BY <1>1, <1>2, <1>6, <1>9, <1>10, ActiveEndStep

\* What Deliver(i) hands to the streams of the receiver: their states and the
\* packet's frames are as RecvChain wants them.
LEMMA Arrival ==
    ASSUME FlowInv, NEW i \in Slot, pkt[i] # NoPkt, NEW e, e = pkt[i].from,
           NEW d, d = Peer(e), NEW s \in Stream
    PROVE  /\ e \in End /\ d \in End /\ d # e /\ Peer(d) = e
           /\ st[d][s] \in StRec /\ st[e][s] \in StRec
           /\ LocalOK(st[d][s]) /\ RxWithin(st[d][s], st[e][s])
           /\ pkt[i].str[s] \in FrameRec /\ FrameOK(st[e][s], pkt[i].str[s])
<1>1. Types /\ StreamInv /\ PacketInv
  BY DEF FlowInv
<1>2. e \in End /\ pkt[i].str[s] \in FrameRec
  BY <1>1, PacketTypes
<1>3. d \in End /\ d # e /\ Peer(d) = e
  BY <1>2, PeerFacts
<1>4. st[d][s] \in StRec /\ st[e][s] \in StRec
  BY <1>1, <1>2, <1>3, StateTypes
<1>5. /\ LocalOK(st[d][s]) /\ FlowOK(st[e][s], st[d][s])
      /\ FrameOK(st[e][s], pkt[i].str[s])
  BY <1>1, <1>2, <1>3 DEF StreamInv, PacketInv
<1>6. /\ st[e][s].txSwm \in Nat /\ st[e][s].txCwm \in Nat /\ st[d][s].rx.cwm \in Nat
  BY <1>4, StFields
<1>7. RxWithin(st[d][s], st[e][s])
  BY <1>5, <1>6 DEF FlowOK, RxWithin
<1> QED BY <1>2, <1>3, <1>4, <1>5, <1>7

LEMMA ActiveDeliver ==
    ASSUME FlowInv, ActiveInv, NEW i \in Slot, Deliver(i)
    PROVE  ActiveInv'
<1>1. PICK p : p = pkt[i]
  OBVIOUS
<1>2. PICK e : e = p.from
  OBVIOUS
<1>3. PICK d : d = Peer(e)
  OBVIOUS
<1>4. PICK cwm : cwm = IF p.maxData = None THEN conn[d].txCwm
                       ELSE Larger(conn[d].txCwm, p.maxData)
  OBVIOUS
<1>5. PICK k : k = cwm - conn[d].txSwm
  OBVIOUS
<1>6. PICK x : x = [s \in Stream |-> RecvFrames(st[d][s], p.str[s], p.maxData, k)]
  OBVIOUS
<1>7. PICK fresh : fresh = SumFunction([s \in Stream |-> x[s].rx.hwm - st[d][s].rx.hwm])
  OBVIOUS
<1>8. /\ p # NoPkt
      /\ st' = [st EXCEPT ![d] = x]
      /\ conn' = [conn EXCEPT ![d].txCwm = cwm,
                              ![d].rx = OnRxControlledBytes(@, fresh)]
  BY <1>1, <1>2, <1>3, <1>4, <1>5, <1>6, <1>7 DEF Deliver
<1>9. /\ Types /\ conn \in [End -> ConnRec] /\ p.maxData \in Int /\ e \in End /\ d \in End
  BY <1>1, <1>2, <1>3, <1>8, PacketTypes, PeerFacts DEF FlowInv, Types
<1>10. conn[d] \in ConnRec /\ conn[d].txCwm \in Nat /\ conn[d].txSwm \in Nat
       /\ ConnCredit(d) = conn[d].txCwm - conn[d].txSwm
  BY <1>9, StateTypes DEF ConnCredit
<1>11. cwm \in Int /\ k \in Int
  BY <1>4, <1>5, <1>9, <1>10 DEF Larger
<1>12. \A s \in Stream : Well(x[s], k)
  <2> TAKE s \in Stream
  <2>1. /\ st[d][s] \in StRec /\ st[e][s] \in StRec
        /\ LocalOK(st[d][s]) /\ RxWithin(st[d][s], st[e][s])
        /\ p.str[s] \in FrameRec /\ FrameOK(st[e][s], p.str[s])
    BY <1>1, <1>2, <1>3, <1>8, Arrival
  <2>2. Well(st[d][s], ConnCredit(d))
    BY <1>9 DEF ActiveInv
  <2>3. p.maxData = None => Well(st[d][s], k)
    BY <1>4, <1>5, <1>10, <2>2
  <2>4. x[s] = RecvFrames(st[d][s], p.str[s], p.maxData, k)
    BY <1>6
  <2> QED BY <1>11, <2>1, <2>2, <2>3, <2>4, WellRecv DEF Well
<1>13. ConnCredit(d)' = k
  <2>1. PICK c : c = conn[d]
    OBVIOUS
  <2>2. PICK y : y = OnRxControlledBytes([c EXCEPT !.txCwm = cwm].rx, fresh)
    OBVIOUS
  <2>3. conn'[d] = [[c EXCEPT !.txCwm = cwm] EXCEPT !.rx = y]
    BY <1>8, <1>9, <2>1, <2>2
  <2>4. conn'[d].txCwm = cwm /\ conn'[d].txSwm = c.txSwm
    BY <1>10, <2>1, <2>3 DEF ConnRec
  <2> QED BY <1>5, <2>1, <2>4 DEF ConnCredit
<1>14. \A a \in End : a # d => ConnCredit(a)' = ConnCredit(a)
  BY <1>8, <1>9 DEF ConnCredit
<1> QED BY <1>8, <1>9, <1>12, <1>13, <1>14, ActiveEndStep

LEMMA ActiveFate ==
    ASSUME FlowInv, ActiveInv, NEW i \in Slot, Drop(i) \/ Ack(i) \/ Lose(i)
    PROVE  ActiveInv'
<1>1. CASE Drop(i)
  BY <1>1 DEF Drop, ActiveInv, ConnCredit
<1>2. PICK e : e = pkt[i].from
  OBVIOUS
<1>3. ASSUME pkt[i] # NoPkt
      PROVE  /\ Types /\ e \in End /\ ConnCredit(e) \in Int
             /\ \A s \in Stream : /\ st[e][s] \in StRec /\ pkt[i].str[s] \in FrameRec
                                  /\ Well(st[e][s], ConnCredit(e))
  <2>1. Types /\ e \in End /\ \A s \in Stream : pkt[i].str[s] \in FrameRec
    BY <1>2, <1>3, PacketTypes DEF FlowInv
  <2> QED BY <2>1, StateTypes DEF ActiveInv
<1>4. CASE Ack(i)
  <2>1. PICK x : x = [s \in Stream |-> OnAcked(st[e][s], pkt[i].str[s], ConnCredit(e))]
    OBVIOUS
  <2>2. pkt[i] # NoPkt /\ st' = [st EXCEPT ![e] = x] /\ conn' = conn
    BY <1>2, <1>4, <2>1 DEF Ack
  <2>3. \A s \in Stream : Well(x[s], ConnCredit(e))
    BY <1>3, <2>1, <2>2, WellAcked
  <2>4. \A a \in End : ConnCredit(a)' = ConnCredit(a)
    BY <2>2 DEF ConnCredit
  <2> QED BY <1>3, <2>2, <2>3, <2>4, ActiveEndStep
<1>5. CASE Lose(i)
  <2>1. PICK x : x = [s \in Stream |-> OnLost(st[e][s], pkt[i].str[s], ConnCredit(e))]
    OBVIOUS
  <2>2. /\ pkt[i] # NoPkt /\ st' = [st EXCEPT ![e] = x]
        /\ conn' = [conn EXCEPT ![e] = ConnOnLost(@, pkt[i])]
    BY <1>2, <1>5, <2>1 DEF Lose
  <2>3. \A s \in Stream : Well(x[s], ConnCredit(e))
    BY <1>3, <2>1, <2>2, WellLost
  <2>4. \A a \in End : ConnCredit(a)' = ConnCredit(a)
    <3>1. conn \in [End -> ConnRec] /\ conn[e] \in ConnRec
      BY <1>3, <2>2 DEF Types
    <3>2. PICK b : b = (conn[e].wantMaxData \/ pkt[i].maxData # None)
      OBVIOUS
    <3>3. conn' = [conn EXCEPT ![e] = [@ EXCEPT !.wantMaxData = b]]
      BY <2>2, <3>1, <3>2 DEF ConnOnLost, ConnRec
    <3>4. conn'[e].txCwm = conn[e].txCwm /\ conn'[e].txSwm = conn[e].txSwm
      BY <1>3, <2>2, <3>1, <3>3 DEF ConnRec
    <3>5. \A a \in End : a # e => conn'[a] = conn[a]
      BY <3>1, <3>3
    <3> QED BY <3>4, <3>5 DEF ConnCredit
  <2> QED BY <1>3, <2>2, <2>3, <2>4, ActiveEndStep
<1> QED BY <1>1, <1>4, <1>5

LEMMA ActiveApp ==
    ASSUME FlowInv, ActiveInv, ZeroConcluders = {}, AppStep
    PROVE  ActiveInv'
<1>1. PICK e \in End, s \in Stream :
          \/ \E n \in 1..MaxSize, c \in BOOLEAN : Write(e, s, n, c)
          \/ Conclude(e, s)
          \/ ConcludeByEmptyWrite(e, s)
          \/ Reset(e, s)
          \/ Free(e, s)
          \/ \E n \in 0..MaxSize, a \in BOOLEAN, b \in BOOLEAN : Read(e, s, n, a, b)
          \/ ReadReset(e, s)
  BY Zenon DEF AppStep
<1>2. PICK t : t = st[e][s]
  OBVIOUS
<1>3. PICK c : c = ConnCredit(e)
  OBVIOUS
<1>4. Types /\ t \in StRec /\ c \in Int /\ Well(t, c) /\ Tidy(t)
  BY <1>2, <1>3, StateTypes DEF FlowInv, ActiveInv, Well
<1>5. ASSUME NEW x, Well(x, c), st' = [st EXCEPT ![e][s] = x], conn' = conn
      PROVE  ActiveInv'
  BY <1>3, <1>4, <1>5, ActiveStreamStep
<1>6. CASE \E n \in 1..MaxSize, b \in BOOLEAN : Write(e, s, n, b)
  <2>1. PICK n \in 1..MaxSize, b \in BOOLEAN : Write(e, s, n, b)
    BY <1>6
  <2>2. PICK x : x = [UpdateState([t EXCEPT !.sendState = "SEND", !.size = @ + n,
                           !.new = @ \cup t.size..(t.size + n - 1)], c)
                   EXCEPT !.fin = b]
    OBVIOUS
  <2>3. /\ st' = [st EXCEPT ![e][s] = x] /\ conn' = conn
        /\ t.sendState \in {"READY", "SEND"} /\ ~t.fin /\ ~t.deleted
    BY <1>2, <1>3, <2>1, <2>2 DEF Write
  <2>4. n \in Nat /\ n > 0
    BY MaxSizeAssumption
  <2>5. Well(x, c)
    BY <1>4, <2>2, <2>3, <2>4, WellWrite
  <2> QED BY <1>5, <2>3, <2>5
<1>7. CASE Conclude(e, s)
  <2>1. PICK x : x = UpdateState([t EXCEPT !.sendState = "SEND", !.fin = TRUE], c)
    OBVIOUS
  <2>2. st' = [st EXCEPT ![e][s] = x] /\ conn' = conn /\ ~t.deleted
    BY <1>2, <1>3, <1>7, <2>1 DEF Conclude
  <2>3. Well(x, c)
    BY <1>4, <2>1, <2>2, WellConclude
  <2> QED BY <1>5, <2>2, <2>3
<1>8. CASE ConcludeByEmptyWrite(e, s)
  BY <1>8 DEF ConcludeByEmptyWrite
<1>9. CASE Reset(e, s)
  <2>1. PICK x : x = ResetSendPart(t, c)
    OBVIOUS
  <2>2. st' = [st EXCEPT ![e][s] = x] /\ conn' = conn
    BY <1>2, <1>3, <1>9, <2>1 DEF Reset
  <2>3. Well(x, c)
    BY <1>4, <2>1, WellReset
  <2> QED BY <1>5, <2>2, <2>3
<1>10. CASE Free(e, s)
  <2>1. PICK r : r = IF t.sendState \in {"READY", "SEND"} /\ ~t.fin
                     THEN ResetSendPart(t, c) ELSE t
    OBVIOUS
  <2>2. PICK p : p = IF r.recvState \in {"RECV", "SIZE_KNOWN"} /\ ~r.stop
                     THEN ScheduleStopSending([r EXCEPT !.stop = TRUE], c) ELSE r
    OBVIOUS
  <2>3. PICK x : x = UpdateState([p EXCEPT !.deleted = TRUE], c)
    OBVIOUS
  <2>4. st' = [st EXCEPT ![e][s] = x] /\ conn' = conn
    BY <1>2, <1>3, <1>10, <2>1, <2>2, <2>3 DEF Free
  <2>5. Well(x, c)
    BY <1>4, <2>1, <2>2, <2>3, WellFree
  <2> QED BY <1>5, <2>4, <2>5
<1>11. CASE \E n \in 0..MaxSize, a \in BOOLEAN, b \in BOOLEAN : Read(e, s, n, a, b)
  BY <1>11, ActiveRead, Zenon
<1>12. CASE ReadReset(e, s)
  <2>1. PICK x : x = [t EXCEPT !.got = t.got, !.recvState = "RESET_READ"]
    OBVIOUS
  <2>2. /\ t.recvState = "RESET_RECVD" /\ conn' = conn
        /\ st' = [st EXCEPT ![e][s] = [@ EXCEPT !.recvState = "RESET_READ"]]
    BY <1>2, <1>12 DEF ReadReset
  <2>3. x = [t EXCEPT !.recvState = "RESET_READ"]
    BY <1>4, <2>1 DEF StRec
  <2>4. st' = [st EXCEPT ![e][s] = x]
    <3>1. st \in [End -> [Stream -> StRec]]
      BY <1>4 DEF Types
    <3> QED BY <1>2, <2>2, <2>3, <3>1
  <2>5. Well(x, c)
    <3>1. PICK g : g = t.got
      OBVIOUS
    <3>2. PICK rs : rs = "RESET_READ"
      OBVIOUS
    <3>3. g \in SUBSET Nat /\ rs \in RecvStates /\ rs # "RECV"
      BY <1>4, <3>1, <3>2, StFields DEF RecvStates
    <3>4. x = [t EXCEPT !.got = g, !.recvState = rs]
      BY <2>1, <3>1, <3>2
    <3> QED BY <1>4, <3>3, <3>4, WellRecvState
  <2> QED BY <1>5, <2>2, <2>4, <2>5
<1> QED BY <1>1, <1>6, <1>7, <1>8, <1>9, <1>10, <1>11, <1>12

LEMMA ActiveInit == Init => ActiveInv
<1> SUFFICES ASSUME Init, NEW e \in End, NEW s \in Stream
             PROVE  Well(st[e][s], ConnCredit(e))
  BY DEF ActiveInv
<1>1. PICK t : t = FreshStream
  OBVIOUS
<1>2. st[e][s] = t
  BY <1>1 DEF Init
<1>3. /\ t.sendState = "READY" /\ t.new = {} /\ ~t.fin /\ ~t.wantReset /\ ~t.wantStop
      /\ ~t.wantMaxStreamData /\ ~t.rx.changed /\ ~t.deleted
  BY <1>1 DEF FreshStream, RxInit
<1> QED BY <1>2, <1>3 DEF Well, Listed, Tidy, ShouldBeActive, HasDataToSend

LEMMA ActiveNext ==
    ASSUME ZeroConcluders = {}
    PROVE  FlowInv /\ ActiveInv /\ [Next]_vars => ActiveInv'
<1> SUFFICES ASSUME FlowInv, ActiveInv, [Next]_vars PROVE ActiveInv'
  OBVIOUS
<1>1. CASE AppStep
  BY <1>1, ActiveApp
<1>2. CASE \E e \in End : Tx(e)
  BY <1>2, ActiveTx, Zenon DEF Tx
<1>3. CASE \E i \in Slot : Deliver(i) \/ Drop(i) \/ Ack(i) \/ Lose(i)
  BY <1>3, ActiveDeliver, ActiveFate, Zenon
<1>4. CASE UNCHANGED vars
  BY <1>4 DEF vars, ActiveInv, ConnCredit
<1> QED BY <1>1, <1>2, <1>3, <1>4 DEF Next

(***************************************************************************)
(* A stream with something to send is on the active list that the          *)
(* packetiser walks: every handler that gives it something to send ends    *)
(* with ossl_quic_stream_map_update_state, and what other handlers leave   *)
(* out of date only asks for less.  A conclusion by a write of no bytes    *)
(* does not update the stream (quic_impl.c): it is left out.               *)
(***************************************************************************)
THEOREM PacketiserSeesAll ==
    ASSUME ZeroConcluders = {}
    PROVE  Spec => []NothingStranded
<1>1. ActiveInv => NothingStranded
  BY DEF ActiveInv, Well, Listed, NothingStranded
<1>2. FlowInv /\ ActiveInv /\ [Next]_vars => ActiveInv'
  BY ActiveNext
<1> QED BY <1>1, <1>2, ActiveInit, FlowInvariant, PTL DEF Spec

(***************************************************************************)
(* The assertion of qsm_ready_for_gc(): the application only lets go of a  *)
(* stream (SSL_free) whose send part is then reset or concluded, and stays *)
(* so until it is collected.                                               *)
(***************************************************************************)
THEOREM CollectedIsFinished ==
    ASSUME ZeroConcluders = {}
    PROVE  Spec => []DeletedIsFinished
<1>1. ActiveInv => DeletedIsFinished
  BY DEF ActiveInv, Well, Tidy, DeletedIsFinished
<1>2. FlowInv /\ ActiveInv /\ [Next]_vars => ActiveInv'
  BY ActiveNext
<1> QED BY <1>1, <1>2, ActiveInit, FlowInvariant, PTL DEF Spec

-----------------------------------------------------------------------------
(* Every byte in one place *)

\* All of the stream and its FIN are acknowledged, whether noticed or not.
Done(t) ==
    \/ t.sendState = "DATA_RECVD"
    \/ t.sendState = "DATA_SENT" /\ IsTotallyAcked(t)

\* t becomes u by a handler that neither writes, sends, acknowledges nor loses:
\* the send buffer stays, or goes as a whole.
SendKeeps(t, u) ==
    /\ HasSStream(u) => /\ HasSStream(t) /\ u.size = t.size
                        /\ u.new = t.new /\ u.acked = t.acked
    /\ u.acked \subseteq t.acked
    /\ u.ackedFin => t.ackedFin
    /\ SendIsReset(t) => SendIsReset(u)
    /\ Done(u) => Done(t)

LEMMA SendKeepsRefl == ASSUME NEW t PROVE SendKeeps(t, t)
BY DEF SendKeeps

LEMMA SendKeepsTrans ==
    ASSUME NEW t, NEW u, NEW v, SendKeeps(t, u), SendKeeps(u, v)
    PROVE  SendKeeps(t, v)
BY DEF SendKeeps

LEMMA SendKeepsSame ==
    ASSUME NEW t, NEW u, u.sendState = t.sendState, u.size = t.size,
           u.new = t.new, u.acked = t.acked, u.ackedFin = t.ackedFin,
           t.fin => u.fin
    PROVE  SendKeeps(t, u)
BY DEF SendKeeps, HasSStream, SendIsReset, Done, IsTotallyAcked

LEMMA SendKeepsUpdate ==
    ASSUME NEW t \in StRec, NEW c \in Int
    PROVE  SendKeeps(t, UpdateState(t, c))
<1>1. PICK u : u = UpdateState(t, c)
  OBVIOUS
<1>2. /\ u.size = t.size /\ u.fin = t.fin /\ u.ackedFin = t.ackedFin
      /\ \/ /\ u.sendState = t.sendState
            /\ u.new = t.new /\ u.acked = t.acked
         \/ /\ t.sendState = "DATA_SENT" /\ IsTotallyAcked(t)
            /\ u.sendState = "DATA_RECVD" /\ u.new = {} /\ u.acked = {}
  BY <1>1, UpdateEffect
<1>3. CASE u.sendState = t.sendState /\ u.new = t.new /\ u.acked = t.acked
  BY <1>1, <1>2, <1>3, SendKeepsSame
<1>4. CASE /\ t.sendState = "DATA_SENT" /\ IsTotallyAcked(t)
           /\ u.sendState = "DATA_RECVD" /\ u.new = {} /\ u.acked = {}
  BY <1>1, <1>2, <1>4 DEF SendKeeps, HasSStream, SendIsReset, Done
<1> QED BY <1>2, <1>3, <1>4

LEMMA SendKeepsReset ==
    ASSUME NEW t \in StRec, NEW c \in Int
    PROVE  SendKeeps(t, ResetSendPart(t, c))
<1>1. PICK u : u = ResetSendPart(t, c)
  OBVIOUS
<1>2. /\ u.ackedFin = t.ackedFin
      /\ u = t \/ (u.sendState = "RESET_SENT" /\ u.acked = {})
  BY <1>1, ResetEffect
<1>3. CASE u = t
  BY <1>1, <1>3, SendKeepsRefl
<1>4. CASE u.sendState = "RESET_SENT" /\ u.acked = {}
  BY <1>1, <1>2, <1>4 DEF SendKeeps, HasSStream, SendIsReset, Done
<1> QED BY <1>2, <1>3, <1>4

LEMMA SendKeepsStop ==
    ASSUME NEW t \in StRec, NEW c \in Int
    PROVE  SendKeeps(t, ScheduleStopSending(t, c)) /\ ScheduleStopSending(t, c) \in StRec
<1>1. CASE ScheduleStopSending(t, c) = t
  BY <1>1, SendKeepsRefl
<1>2. CASE ScheduleStopSending(t, c) # t
  <2>1. PICK x \in StRec :
          /\ ScheduleStopSending(t, c) = UpdateState(x, c)
          /\ SameBuffer(t, x) /\ x.sendState = t.sendState
    BY <1>2, ScheduleStopEffect
  <2>2. SendKeeps(t, x)
    BY <2>1, SendKeepsSame DEF SameBuffer
  <2>3. SendKeeps(x, UpdateState(x, c)) /\ UpdateState(x, c) \in StRec
    BY SendKeepsUpdate, UpdateEffect
  <2> QED BY <2>1, <2>2, <2>3, SendKeepsTrans
<1> QED BY <1>1, <1>2

LEMMA SendKeepsConclude ==
    ASSUME NEW t \in StRec, NEW c \in Int, t.sendState \in {"READY", "SEND"}
    PROVE  SendKeeps(t, UpdateState([t EXCEPT !.sendState = "SEND", !.fin = TRUE], c))
<1>1. PICK a : a = [t EXCEPT !.sendState = "SEND", !.fin = TRUE]
  OBVIOUS
<1>2. a \in StRec
  BY <1>1 DEF StRec, SendStates
<1>3. /\ a.sendState = "SEND" /\ a.size = t.size /\ a.new = t.new
      /\ a.acked = t.acked /\ a.ackedFin = t.ackedFin
  BY <1>1 DEF StRec
<1>4. SendKeeps(t, a)
  BY <1>3 DEF SendKeeps, HasSStream, SendIsReset, Done
<1>5. SendKeeps(a, UpdateState(a, c))
  BY <1>2, SendKeepsUpdate
<1> QED BY <1>1, <1>4, <1>5, SendKeepsTrans

LEMMA SendKeepsFree ==
    ASSUME NEW t \in StRec, NEW c \in Int
    PROVE  LET r == IF t.sendState \in {"READY", "SEND"} /\ ~t.fin
                    THEN ResetSendPart(t, c) ELSE t
               p == IF r.recvState \in {"RECV", "SIZE_KNOWN"} /\ ~r.stop
                    THEN ScheduleStopSending([r EXCEPT !.stop = TRUE], c) ELSE r
           IN  SendKeeps(t, UpdateState([p EXCEPT !.deleted = TRUE], c))
<1> DEFINE r == IF t.sendState \in {"READY", "SEND"} /\ ~t.fin
                THEN ResetSendPart(t, c) ELSE t
           x == [r EXCEPT !.stop = TRUE]
           p == IF r.recvState \in {"RECV", "SIZE_KNOWN"} /\ ~r.stop
                THEN ScheduleStopSending(x, c) ELSE r
           y == [p EXCEPT !.deleted = TRUE]
<1>1. r \in StRec /\ SendKeeps(t, r)
  <2>1. ResetSendPart(t, c) \in StRec
    BY ResetEffect
  <2> QED BY <2>1, SendKeepsRefl, SendKeepsReset
<1> HIDE DEF r
<1>2. /\ x \in StRec /\ SameBuffer(r, x) /\ x.sendState = r.sendState
  BY <1>1 DEF StRec, SameBuffer
<1> HIDE DEF x
<1>3. SendKeeps(r, x)
  BY <1>2, SendKeepsSame DEF SameBuffer
<1>4. p \in StRec /\ SendKeeps(t, p)
  <2>1. SendKeeps(x, ScheduleStopSending(x, c)) /\ ScheduleStopSending(x, c) \in StRec
    BY <1>2, SendKeepsStop
  <2>2. SendKeeps(t, ScheduleStopSending(x, c))
    BY <1>1, <1>3, <2>1, SendKeepsTrans
  <2> QED BY <1>1, <2>1, <2>2
<1> HIDE DEF p
<1>5. /\ y \in StRec /\ SameBuffer(p, y) /\ y.sendState = p.sendState
  BY <1>4 DEF StRec, SameBuffer
<1> HIDE DEF y
<1>6. SendKeeps(p, y)
  BY <1>5, SendKeepsSame DEF SameBuffer
<1>7. SendKeeps(y, UpdateState(y, c))
  BY <1>5, SendKeepsUpdate
<1>8. SendKeeps(t, UpdateState(y, c))
  BY <1>4, <1>6, <1>7, SendKeepsTrans
<1> QED BY <1>8 DEF y, p, x, r

LEMMA SendKeepsRecv ==
    ASSUME NEW t \in StRec, LocalOK(t), NEW q \in StRec, RxWithin(t, q),
           NEW f \in FrameRec, FrameOK(q, f), NEW maxData, NEW k \in Int,
           NEW u, u = RecvFrames(t, f, maxData, k)
    PROVE  SendKeeps(t, u)
<1>1. PICK m, m2, p, r, r2, c \in StRec :
             Chain(t, f, maxData, k, u, m, m2, p, r, r2, c)
  BY RecvChain
<1>2. SendKeeps(t, m)
  BY <1>1, SendKeepsUpdate, SendKeepsRefl DEF Chain
<1>3. SendKeeps(m, m2)
  BY <1>1, SendKeepsSame DEF Chain, PeerStops, SameBuffer
<1>4. SendKeeps(t, p)
  <2>1. SendKeeps(m2, ResetSendPart(m2, k))
    BY SendKeepsReset
  <2>2. SendKeeps(t, ResetSendPart(m2, k))
    BY <1>2, <1>3, <2>1, SendKeepsTrans
  <2> QED BY <1>1, <1>2, <2>2 DEF Chain
<1>5. SendKeeps(p, r)
  <2>1. CASE f.reset # None
    <3>1. ResetTaken(p, k, r)
      BY <1>1, <2>1 DEF Chain
    <3>2. PICK x \in StRec : r = UpdateState(x, k) /\ SameSend(p, x)
      BY <3>1 DEF ResetTaken, AfterReset
    <3>3. SendKeeps(p, x)
      BY <3>2, SendKeepsSame DEF SameSend, SameBuffer
    <3> QED BY <3>2, <3>3, SendKeepsUpdate, SendKeepsTrans
  <2>2. CASE ~(f.reset # None)
    BY <1>1, <2>2, SendKeepsRefl DEF Chain
  <2> QED BY <2>1, <2>2
<1>6. SendKeeps(r, r2)
  BY <1>1, SendKeepsSame DEF Chain, MoreCredit, SameBuffer
<1>7. SendKeeps(r, c)
  <2>1. SendKeeps(r, UpdateState(r2, k))
    BY <1>6, SendKeepsUpdate, SendKeepsTrans
  <2> QED BY <1>1, <2>1, SendKeepsRefl DEF Chain
<1>8. SendKeeps(c, u)
  <2>1. CASE f.end # None
    <3>1. SameSend(c, u)
      BY <1>1, <2>1 DEF Chain, StreamTaken
    <3> QED BY <3>1, SendKeepsSame DEF SameSend, SameBuffer
  <2>2. CASE ~(f.end # None)
    BY <1>1, <2>2, SendKeepsRefl DEF Chain
  <2> QED BY <2>1, <2>2
<1> QED BY <1>4, <1>5, <1>7, <1>8, SendKeepsTrans

\* The bytes of stream s that e has in the packet p, while it counts on it.
Load(p, e, s) == IF p # NoPkt /\ p.from = e /\ p.inflight THEN p.str[s].bytes ELSE {}

Loads(e, s) == [i \in Slot |-> Load(pkt[i], e, s)]

\* The buffer of t and the loads B share out the bytes written.
Shared(t, B) ==
    /\ t.new \cap t.acked = {}
    /\ \A i \in Slot : B[i] \cap t.new = {} /\ B[i] \cap t.acked = {}
    /\ \A i, j \in Slot : i # j => B[i] \cap B[j] = {}
    /\ \A b \in 0..(t.size - 1) :
         b \in t.new \/ b \in t.acked \/ \E i \in Slot : b \in B[i]

SharedOut(t, B) == HasSStream(t) => Shared(t, B)

ByteInv == \A e \in End, s \in Stream : SharedOut(st[e][s], Loads(e, s))

LEMMA SharedKept ==
    ASSUME NEW t, NEW u, NEW B, SendKeeps(t, u), SharedOut(t, B)
    PROVE  SharedOut(u, B)
BY DEF SendKeeps, SharedOut, Shared

LEMMA SharedWrite ==
    ASSUME NEW t \in StRec, NEW u, NEW B, NEW n \in Nat, SharedOut(t, B),
           LocalOK(t), HasSStream(t), u.size = t.size + n, u.acked = t.acked,
           u.new = t.new \cup t.size..(t.size + n - 1),
           \A i \in Slot : B[i] \subseteq 0..(t.size - 1)
    PROVE  SharedOut(u, B)
<1>1. t.size \in Nat /\ t.acked \subseteq 0..(t.size - 1) /\ t.new \subseteq 0..(t.size - 1)
  BY StFields DEF LocalOK, SendOK
<1>2. Shared(t, B)
  BY DEF SharedOut
<1>3. PICK N : N = t.size..(t.size + n - 1)
  OBVIOUS
<1>4. N \cap (0..(t.size - 1)) = {}
  BY <1>1, <1>3
<1>5. \A b \in 0..(u.size - 1) : b \in N \/ b \in 0..(t.size - 1)
  BY <1>1, <1>3
<1>6. u.new = t.new \cup N
  BY <1>3
<1>7. u.new \cap u.acked = {}
  BY <1>1, <1>2, <1>4, <1>6 DEF Shared
<1>8. \A i \in Slot : B[i] \cap u.new = {} /\ B[i] \cap u.acked = {}
  BY <1>1, <1>2, <1>4, <1>6 DEF Shared
<1>9. \A b \in 0..(u.size - 1) :
         b \in u.new \/ b \in u.acked \/ \E i \in Slot : b \in B[i]
  BY <1>2, <1>5, <1>6 DEF Shared
<1> QED BY <1>2, <1>7, <1>8, <1>9 DEF Shared, SharedOut

LEMMA SharedSame ==
    ASSUME NEW t, NEW B, NEW C, SharedOut(t, B), \A j \in Slot : C[j] = B[j]
    PROVE  SharedOut(t, C)
BY DEF Shared, SharedOut

\* The bytes of a packet are bytes of the stream.
LEMMA LoadsWithin ==
    ASSUME FlowInv, NEW e \in End, NEW s \in Stream, NEW i \in Slot
    PROVE  Loads(e, s)[i] \subseteq 0..(st[e][s].size - 1)
<1>1. Types /\ StreamInv /\ PacketInv
  BY DEF FlowInv
<1>2. Loads(e, s)[i] = Load(pkt[i], e, s)
  BY DEF Loads
<1>3. CASE pkt[i] # NoPkt /\ pkt[i].from = e
  <2>1. /\ st[e][s] \in StRec /\ LocalOK(st[e][s]) /\ pkt[i].str[s] \in FrameRec
        /\ FrameOK(st[e][s], pkt[i].str[s])
    BY <1>1, <1>3, StateTypes, PacketTypes DEF StreamInv, PacketInv
  <2>2. pkt[i].str[s].bytes \subseteq 0..(st[e][s].size - 1)
    BY <2>1, FrameBytes
  <2> QED BY <1>2, <2>2 DEF Load
<1> QED BY <1>2, <1>3 DEF Load

\* One stream changes, and no packet.
LEMMA ByteStreamStep ==
    ASSUME Types, ByteInv, NEW e \in End, NEW s \in Stream, NEW x,
           SharedOut(x, Loads(e, s)), st' = [st EXCEPT ![e][s] = x], pkt' = pkt
    PROVE  ByteInv'
<1>1. st \in [End -> [Stream -> StRec]]
  BY DEF Types
<1>2. \A a \in End, z \in Stream :
        st'[a][z] = IF a = e /\ z = s THEN x ELSE st[a][z]
  BY <1>1
<1>3. \A a \in End, z \in Stream : Loads(a, z)' = Loads(a, z)
  BY DEF Loads
<1>4. \A a \in End, z \in Stream : SharedOut(st'[a][z], Loads(a, z))
  BY <1>2 DEF ByteInv
<1> QED BY <1>3, <1>4 DEF ByteInv

\* The loads of e, with p in slot i, and what has become of its streams.
Reloaded(e, i, p, x) ==
    \A s \in Stream : \A C :
        (\A j \in Slot : C[j] = IF j = i THEN Load(p, e, s) ELSE Loads(e, s)[j])
        => SharedOut(x[s], C)

\* The streams of e change, and one of its packets.
EndStep(e, i, p, x) ==
    /\ st' = [st EXCEPT ![e] = x]
    /\ pkt' = [pkt EXCEPT ![i] = p]
    /\ \A a \in End, s \in Stream : a # e => Load(p, a, s) = Load(pkt[i], a, s)

LEMMA ByteEndStep ==
    ASSUME Types, ByteInv, NEW e \in End, NEW i \in Slot, NEW x, NEW p,
           EndStep(e, i, p, x), Reloaded(e, i, p, x)
    PROVE  ByteInv'
<1>0. /\ st' = [st EXCEPT ![e] = x] /\ pkt' = [pkt EXCEPT ![i] = p]
      /\ \A a \in End, s \in Stream : a # e => Load(p, a, s) = Load(pkt[i], a, s)
  BY DEF EndStep
<1>1. st \in [End -> [Stream -> StRec]] /\ DOMAIN pkt = Slot
  BY DEF Types
<1>2. \A a \in End : st'[a] = IF a = e THEN x ELSE st[a]
  BY <1>0, <1>1
<1>3. \A a \in End, s \in Stream, j \in Slot :
        Loads(a, s)'[j] = IF j = i THEN Load(p, a, s) ELSE Loads(a, s)[j]
  <2> TAKE a \in End, s \in Stream, j \in Slot
  <2>1. pkt'[j] = IF j = i THEN p ELSE pkt[j]
    BY <1>0, <1>1
  <2>2. Loads(a, s)'[j] = Load(pkt'[j], a, s) /\ Loads(a, s)[j] = Load(pkt[j], a, s)
    BY DEF Loads
  <2> QED BY <2>1, <2>2
<1>4. ASSUME NEW a \in End, NEW s \in Stream PROVE SharedOut(st'[a][s], Loads(a, s)')
  <2>1. CASE a = e
    BY <1>2, <1>3, <2>1 DEF Reloaded
  <2>2. CASE a # e
    <3>1. Loads(a, s)[i] = Load(pkt[i], a, s)
      BY DEF Loads
    <3>2. \A j \in Slot : Loads(a, s)'[j] = Loads(a, s)[j]
      BY <1>0, <1>3, <2>2, <3>1
    <3>3. SharedOut(st[a][s], Loads(a, s))
      BY DEF ByteInv
    <3> QED BY <1>2, <2>2, <3>2, <3>3, SharedSame
  <2> QED BY <2>1, <2>2
<1> QED BY <1>4 DEF ByteInv

-----------------------------------------------------------------------------
(* What has been acknowledged has been received *)

\* The receiver q wants no more of the stream, or has all there is of it.
Shut(q) == q.stop \/ q.recvState \in {"DATA_RECVD", "DATA_READ",
                                      "RESET_RECVD", "RESET_READ"}

Has(q, b) == b < q.rx.rwm \/ b \in q.got \/ Shut(q)

\* Nothing is missing below the highest byte that q has heard of.
Full(q) == \A b \in q.rx.rwm..(q.rx.hwm - 1) : b \in q.got

\* A known final size shows in the state, and a stream with nothing missing
\* is not left waiting.
RecvOK(q) ==
    /\ q.rx.fin <=> q.recvState # "RECV"
    /\ q.recvState = "SIZE_KNOWN" /\ ~q.stop => ~Full(q)

ResetIn(q) == q.recvState \in {"RESET_RECVD", "RESET_READ"}

\* What DeliveredMeansReceived asks of the receiver.
Received(q) == q.rx.fin /\ (q.recvState \in {"DATA_RECVD", "DATA_READ"} \/ q.stop)

\* The sender t may rely on its receiver q.
Deliv(t, q) ==
    /\ RecvOK(q)
    /\ \A b \in t.acked : Has(q, b)
    /\ t.ackedFin => q.rx.fin
    /\ ResetIn(q) => SendIsReset(t)
    /\ t.sendState = "DATA_RECVD" => Received(q)

\* The frames f have reached q.
Arrived(f, q) ==
    /\ \A b \in f.bytes : Has(q, b)
    /\ f.fin => q.rx.fin

ArrivedInv ==
    \A i \in Slot : pkt[i] # NoPkt /\ ~pkt[i].onWire =>
        \A s \in Stream : Arrived(pkt[i].str[s], st[Peer(pkt[i].from)][s])

DelivInv ==
    /\ \A e \in End, s \in Stream : Deliv(st[e][s], st[Peer(e)][s])
    /\ ArrivedInv

\* All that t waits for is acknowledged: then q has it.
LEMMA DoneMeansReceived ==
    ASSUME NEW t \in StRec, NEW q \in StRec, Deliv(t, q), Done(t),
           t.sendState = "DATA_SENT" => t.fin /\ t.size = t.txSwm,
           q.rx.fin => q.rx.hwm = t.txSwm
    PROVE  Received(q)
<1>1. CASE t.sendState = "DATA_RECVD"
  BY <1>1 DEF Deliv
<1>2. CASE t.sendState = "DATA_SENT" /\ IsTotallyAcked(t)
  <2>1. t.ackedFin /\ t.acked = 0..(t.size - 1)
    BY <1>2 DEF IsTotallyAcked
  <2>2. q.rx.fin /\ q.rx.hwm = t.size /\ RecvOK(q) /\ \A b \in t.acked : Has(q, b)
    BY <1>2, <2>1 DEF Deliv
  <2>3. ~ResetIn(q)
    BY <1>2 DEF Deliv, SendIsReset
  <2>4. t.size \in Nat /\ q.rx.rwm \in Nat
    BY StFields
  <2>5. \A b \in q.rx.rwm..(q.rx.hwm - 1) : b \in t.acked /\ ~(b < q.rx.rwm)
    BY <2>1, <2>2, <2>4
  <2>6. ~Shut(q) => Full(q)
    BY <2>2, <2>5 DEF Has, Full
  <2>7. ~Shut(q) => q.recvState = "SIZE_KNOWN" /\ ~q.stop
    <3>1. q.recvState \in RecvStates
      BY StFields
    <3> QED BY <2>2, <3>1 DEF Shut, RecvStates, RecvOK
  <2>8. Shut(q)
    BY <2>2, <2>6, <2>7 DEF RecvOK
  <2> QED BY <2>2, <2>3, <2>8 DEF Shut, Received, ResetIn
<1> QED BY <1>1, <1>2 DEF Done

\* A receiver with nothing missing can read up to the highest byte.
LEMMA FullIsHere ==
    ASSUME NEW q \in StRec, RxOK(q), Full(q)
    PROVE  AllHere(q)
<1>1. /\ q.rx.rwm \in Nat /\ q.rx.hwm \in Nat /\ q.rx.rwm <= q.rx.hwm
      /\ q.got \subseteq q.rx.rwm..(q.rx.hwm - 1)
  BY StFields DEF RxOK
<1>2. q.got = q.rx.rwm..(q.rx.hwm - 1)
  BY <1>1 DEF Full
<1>3. Readable(q) = q.rx.rwm..(q.rx.hwm - 1)
  <2>1. \A b \in q.got : \A c \in q.rx.rwm..b : c \in q.got
    BY <1>1, <1>2
  <2> QED BY <1>2, <2>1 DEF Readable
<1>4. Cardinality(Readable(q)) = q.rx.hwm - q.rx.rwm
  <2>0. PICK a \in Int : a = q.rx.rwm
    BY <1>1
  <2>1. PICK b \in Int : b = q.rx.hwm - 1
    BY <1>1
  <2>2. Cardinality(a..b) = IF a > b THEN 0 ELSE b - a + 1
    BY FS_Interval
  <2>3. Cardinality(Readable(q)) = IF a > b THEN 0 ELSE b - a + 1
    BY <1>3, <2>0, <2>1, <2>2
  <2> QED BY <1>1, <2>0, <2>1, <2>3
<1> QED BY <1>1, <1>4 DEF AllHere

\* The n bytes that are read are all there.
LEMMA ReadablePrefix ==
    ASSUME NEW q \in StRec, RxOK(q), NEW n \in Nat, n <= Cardinality(Readable(q)),
           NEW c \in q.rx.rwm..(q.rx.rwm + n - 1)
    PROVE  c \in q.got
<1> SUFFICES ASSUME c \notin q.got PROVE FALSE
  OBVIOUS
<1>1. /\ q.rx.rwm \in Nat /\ q.rx.hwm \in Nat
      /\ q.got \subseteq q.rx.rwm..(q.rx.hwm - 1)
  BY StFields DEF RxOK
<1>2. PICK a, b \in Int : a = q.rx.rwm /\ b = c - 1
  BY <1>1
<1>3. Readable(q) \subseteq a..b
  <2>1. ASSUME NEW x \in Readable(q) PROVE x \in a..b
    <3>1. x \in q.got /\ \A y \in q.rx.rwm..x : y \in q.got
      BY <2>1 DEF Readable
    <3>2. x \in Int /\ q.rx.rwm <= x
      BY <1>1, <3>1
    <3>3. ~(c <= x)
      BY <1>1, <3>1, <3>2
    <3> QED BY <1>1, <1>2, <3>2, <3>3
  <2> QED BY <2>1
<1>4. /\ IsFiniteSet(a..b)
      /\ Cardinality(a..b) = IF a > b THEN 0 ELSE b - a + 1
  BY FS_Interval
<1>5. Cardinality(Readable(q)) <= Cardinality(a..b)
  BY <1>3, <1>4, FS_Subset
<1>6. IsFiniteSet(Readable(q))
  BY <1>3, <1>4, FS_Subset
<1>7. Cardinality(Readable(q)) \in Nat
  BY <1>6, FS_CardinalityType
<1> QED BY <1>1, <1>2, <1>4, <1>5, <1>7

\* The receiver q becomes z and forgets nothing, unless by a reset (rst).
RecvKeeps(q, z, rst) ==
    /\ \A b \in Nat : Has(q, b) => Has(z, b)
    /\ q.rx.fin => z.rx.fin
    /\ RecvOK(q) => RecvOK(z)
    /\ Received(q) => Received(z) \/ rst
    /\ ResetIn(z) => ResetIn(q) \/ rst

LEMMA RecvKeepsTrans ==
    ASSUME NEW q, NEW y, NEW z, NEW rst, RecvKeeps(q, y, rst), RecvKeeps(y, z, rst)
    PROVE  RecvKeeps(q, z, rst)
BY DEF RecvKeeps

LEMMA RecvKeepsSame ==
    ASSUME NEW q, NEW z, NEW rst, z.recvState = q.recvState, z.got = q.got,
           q.stop => z.stop, z.rx.rwm = q.rx.rwm, z.rx.hwm = q.rx.hwm,
           z.rx.fin = q.rx.fin
    PROVE  RecvKeeps(q, z, rst)
BY DEF RecvKeeps, Has, Shut, RecvOK, Full, Received, ResetIn

\* RESET_STREAM arrives.
LEMMA RecvKeepsReset ==
    ASSUME NEW q, NEW r, NEW x, AfterReset(q, r, x), RxTaken(q.rx, x.rx, TRUE)
    PROVE  RecvKeeps(q, x, TRUE)
<1>1. x.rx.fin /\ x.stop = q.stop
  BY DEF AfterReset, RxTaken
<1>2. Shut(x)
  BY DEF AfterReset, Shut
<1>3. RecvOK(x)
  <2>1. x.recvState # "RECV" /\ x.recvState # "SIZE_KNOWN"
    BY DEF AfterReset
  <2> QED BY <1>1, <2>1 DEF RecvOK
<1> QED BY <1>1, <1>2, <1>3 DEF RecvKeeps, Has

\* A STREAM frame arrives.
LEMMA RecvKeepsStream ==
    ASSUME NEW q \in StRec, NEW f \in FrameRec, NEW v, StreamTaken(q, f, v),
           RxOK(v), RecvOK(q), NEW rst
    PROVE  RecvKeeps(q, v, rst) /\ Arrived(f, v)
<1>1. /\ v \in StRec /\ v.stop = q.stop /\ RxTaken(q.rx, v.rx, f.fin)
  BY DEF StreamTaken
<1>2. v.rx.rwm = q.rx.rwm /\ (v.rx.fin <=> (q.rx.fin \/ f.fin))
  BY <1>1 DEF RxTaken
<1>3. CASE /\ q.recvState \notin {"RECV", "SIZE_KNOWN"}
           /\ v.recvState = q.recvState /\ v.got = q.got
  <2>1. q.recvState \in RecvStates
    BY StFields
  <2>2. Shut(q) /\ Shut(v)
    BY <1>3, <2>1 DEF RecvStates, Shut
  <2>3. RecvOK(v)
    BY <1>2, <1>3 DEF RecvOK
  <2> QED BY <1>1, <1>2, <1>3, <2>2, <2>3 DEF RecvKeeps, Arrived, Has, Received, ResetIn
<1>4. CASE /\ q.recvState \in {"RECV", "SIZE_KNOWN"} /\ q.stop
           /\ v.recvState = (IF f.fin THEN "SIZE_KNOWN" ELSE q.recvState)
  <2>1. Shut(v)
    BY <1>1, <1>4 DEF Shut
  <2>2. RecvOK(v)
    BY <1>1, <1>2, <1>4 DEF RecvOK
  <2> QED BY <1>1, <1>2, <1>4, <2>1, <2>2 DEF RecvKeeps, Arrived, Has, Received, ResetIn
<1>5. CASE /\ q.recvState \in {"RECV", "SIZE_KNOWN"} /\ ~q.stop
           /\ v.got = q.got \cup (f.bytes \ 0..(q.rx.rwm - 1))
           /\ \/ /\ v.recvState = (IF f.fin THEN "SIZE_KNOWN" ELSE q.recvState)
                 /\ v.recvState = "SIZE_KNOWN" => ~AllHere(v)
              \/ /\ f.fin \/ q.recvState = "SIZE_KNOWN"
                 /\ v.recvState = "DATA_RECVD"
  <2>1. \A b : Has(q, b) => Has(v, b)
    BY <1>2, <1>5 DEF Has, Shut
  <2>2. \A b \in f.bytes : Has(v, b)
    <3>1. f.bytes \subseteq Nat /\ q.rx.rwm \in Nat
      BY StFields DEF FrameRec
    <3>2. \A b \in f.bytes : b \in 0..(q.rx.rwm - 1) => b < v.rx.rwm
      BY <1>2, <3>1
    <3> QED BY <1>5, <3>2 DEF Has
  <2>3. v.recvState = "SIZE_KNOWN" => ~Full(v)
    BY <1>1, <1>5, FullIsHere
  <2>4. v.rx.fin <=> v.recvState # "RECV"
    BY <1>2, <1>5 DEF RecvOK
  <2>5. ~Received(q) /\ ~ResetIn(v)
    BY <1>5 DEF Received, ResetIn
  <2> QED BY <1>2, <2>1, <2>2, <2>3, <2>4, <2>5 DEF RecvKeeps, RecvOK, Arrived
<1> QED BY <1>3, <1>4, <1>5 DEF StreamTaken

\* All the frames of a packet arrive at q, whose sender is t.
LEMMA RecvKeepsRecv ==
    ASSUME NEW q \in StRec, LocalOK(q), NEW t \in StRec, RxWithin(q, t),
           NEW f \in FrameRec, FrameOK(t, f), NEW maxData, NEW k \in Int,
           NEW u, u = RecvFrames(q, f, maxData, k), RecvOK(q),
           NEW rst, rst = SendIsReset(t)
    PROVE  RecvKeeps(q, u, rst) /\ Arrived(f, u)
<1>1. PICK m, m2, p, r, r2, c \in StRec :
             Chain(q, f, maxData, k, u, m, m2, p, r, r2, c)
  BY RecvChain
<1>2. RecvKeeps(q, m, rst)
  <2>1. SameRecv(q, UpdateState(q, k))
    BY UpdateEffect
  <2>2. SameRecv(q, m)
    BY <1>1, <2>1 DEF Chain, SameRecv
  <2> QED BY <2>2, RecvKeepsSame DEF SameRecv
<1>3. RecvKeeps(m, m2, rst)
  <2>1. SameRecv(m, m2)
    BY <1>1 DEF Chain, PeerStops
  <2> QED BY <2>1, RecvKeepsSame DEF SameRecv
<1>4. RecvKeeps(q, p, rst)
  <2>1. SameRecv(m2, ResetSendPart(m2, k))
    BY ResetEffect
  <2>2. RecvKeeps(m2, ResetSendPart(m2, k), rst)
    BY <2>1, RecvKeepsSame DEF SameRecv
  <2>3. RecvKeeps(q, ResetSendPart(m2, k), rst)
    BY <1>2, <1>3, <2>2, RecvKeepsTrans
  <2> QED BY <1>1, <1>2, <2>3 DEF Chain
<1>5. RecvKeeps(p, r, rst)
  <2>1. CASE f.reset # None
    <3>1. rst = TRUE
      BY <2>1 DEF FrameOK, SendIsReset
    <3>2. PICK x \in StRec : /\ r = UpdateState(x, k) /\ AfterReset(p, x.rx, x)
                             /\ RxTaken(p.rx, x.rx, TRUE)
      BY <1>1, <2>1 DEF Chain, ResetTaken
    <3>3. RecvKeeps(p, x, TRUE)
      BY <3>2, RecvKeepsReset
    <3>4. SameRecv(x, UpdateState(x, k))
      BY UpdateEffect
    <3>5. RecvKeeps(x, r, TRUE)
      BY <3>2, <3>4, RecvKeepsSame DEF SameRecv
    <3> QED BY <3>1, <3>3, <3>5, RecvKeepsTrans
  <2>2. CASE ~(f.reset # None)
    BY <1>1, <2>2, RecvKeepsSame DEF Chain
  <2> QED BY <2>1, <2>2
<1>6. RecvKeeps(r, c, rst)
  <2>1. SameRecv(r, r2) /\ SameRecv(r2, UpdateState(r2, k))
    BY <1>1, UpdateEffect DEF Chain, MoreCredit
  <2>2. SameRecv(r, c)
    BY <1>1, <2>1 DEF Chain, SameRecv
  <2> QED BY <2>2, RecvKeepsSame DEF SameRecv
<1>7. RecvKeeps(q, c, rst)
  BY <1>4, <1>5, <1>6, RecvKeepsTrans
<1>8. CASE f.end # None
  <2>1. StreamTaken(c, f, u)
    BY <1>1, <1>8 DEF Chain
  <2>2. RxOK(u)
    BY RecvFramesStep DEF LocalOK, Recvd
  <2>3. RecvOK(c)
    BY <1>7 DEF RecvKeeps
  <2>4. RecvKeeps(c, u, rst) /\ Arrived(f, u)
    BY <2>1, <2>2, <2>3, RecvKeepsStream
  <2> QED BY <1>7, <2>4, RecvKeepsTrans
<1>9. CASE ~(f.end # None)
  <2>1. u = c
    BY <1>1, <1>9 DEF Chain
  <2>2. f.end = -1 /\ t.txSwm \in Nat
    BY <1>9, StFields DEF None
  <2>3. f.bytes = {} /\ ~f.fin
    BY <2>2 DEF FrameOK
  <2> QED BY <1>7, <2>1, <2>3 DEF Arrived
<1> QED BY <1>8, <1>9

\* What the sender t says of the stream is no more after it becomes u.
Claims(t, u) ==
    /\ u.acked \subseteq t.acked
    /\ u.ackedFin => t.ackedFin
    /\ SendIsReset(t) => SendIsReset(u)
    /\ u.sendState = "DATA_RECVD" => Done(t)

KeepsBytes(t, u) ==
    \A B : SharedOut(t, B) /\ (\A i \in Slot : B[i] \subseteq 0..(t.size - 1))
            => SharedOut(u, B)

\* t becomes u while no packet of the stream does anything.
AppDone(t, u) == Claims(t, u) /\ KeepsBytes(t, u) /\ RecvKeeps(t, u, FALSE)

LEMMA AppDoneKeeps ==
    ASSUME NEW t, NEW u, SendKeeps(t, u), RecvKeeps(t, u, FALSE)
    PROVE  AppDone(t, u)
<1>1. Claims(t, u)
  BY DEF SendKeeps, Claims, Done
<1>2. KeepsBytes(t, u)
  BY SharedKept DEF KeepsBytes
<1> QED BY <1>1, <1>2 DEF AppDone

LEMMA DataWrite ==
    ASSUME NEW t \in StRec, NEW c \in Int, LocalOK(t), NEW n \in Nat,
           NEW conclude \in BOOLEAN, t.sendState \in {"READY", "SEND"}
    PROVE  AppDone(t, [UpdateState([t EXCEPT !.sendState = "SEND", !.size = @ + n,
                           !.new = @ \cup t.size..(t.size + n - 1)], c)
                   EXCEPT !.fin = conclude])
<1> DEFINE a == [t EXCEPT !.sendState = "SEND", !.size = @ + n,
                          !.new = @ \cup t.size..(t.size + n - 1)]
<1>1. t.size \in Nat /\ t.new \in SUBSET Nat
  BY StFields
<1>2. a \in StRec
  <2>1. t.size + n \in Nat /\ t.new \cup t.size..(t.size + n - 1) \in SUBSET Nat
    BY <1>1
  <2> QED BY <2>1 DEF StRec, SendStates
<1>3. /\ a.sendState = "SEND" /\ a.new = t.new \cup t.size..(t.size + n - 1)
      /\ a.size = t.size + n /\ a.acked = t.acked /\ a.ackedFin = t.ackedFin
      /\ SameRecv(t, a)
  BY DEF StRec, SameRecv
<1> HIDE DEF a
<1>4. PICK u : u = UpdateState(a, c)
  OBVIOUS
<1>5. /\ u \in StRec /\ u.sendState = "SEND" /\ u.new = a.new /\ u.size = a.size
      /\ u.acked = a.acked /\ u.ackedFin = a.ackedFin /\ SameRecv(a, u)
  BY <1>2, <1>3, <1>4, UpdateEffect
<1>6. PICK v : v = [u EXCEPT !.fin = conclude]
  OBVIOUS
<1>7. /\ v.sendState = u.sendState /\ v.new = u.new /\ v.size = u.size
      /\ v.acked = u.acked /\ v.ackedFin = u.ackedFin /\ SameRecv(u, v)
  BY <1>5, <1>6 DEF StRec, SameRecv
<1>8. Claims(t, v)
  BY <1>3, <1>5, <1>7 DEF Claims, SendIsReset
<1>9. KeepsBytes(t, v)
  <2>1. /\ HasSStream(t) /\ v.size = t.size + n /\ v.acked = t.acked
        /\ v.new = t.new \cup t.size..(t.size + n - 1)
    BY <1>3, <1>5, <1>7 DEF HasSStream
  <2> QED BY <2>1, SharedWrite DEF KeepsBytes
<1>10. RecvKeeps(t, v, FALSE)
  BY <1>3, <1>5, <1>7, RecvKeepsSame DEF SameRecv
<1> QED BY <1>4, <1>6, <1>8, <1>9, <1>10 DEF AppDone, a

LEMMA DataConclude ==
    ASSUME NEW t \in StRec, NEW c \in Int, t.sendState \in {"READY", "SEND"}
    PROVE  AppDone(t, UpdateState([t EXCEPT !.sendState = "SEND", !.fin = TRUE], c))
<1>1. PICK a : a = [t EXCEPT !.sendState = "SEND", !.fin = TRUE]
  OBVIOUS
<1>2. a \in StRec /\ SameRecv(t, a)
  BY <1>1 DEF StRec, SendStates, SameRecv
<1>3. SameRecv(a, UpdateState(a, c))
  BY <1>2, UpdateEffect
<1>4. RecvKeeps(t, UpdateState(a, c), FALSE)
  BY <1>2, <1>3, RecvKeepsSame DEF SameRecv
<1> QED BY <1>1, <1>4, SendKeepsConclude, AppDoneKeeps

LEMMA DataEmptyWrite ==
    ASSUME NEW t \in StRec
    PROVE  AppDone(t, [t EXCEPT !.fin = TRUE])
<1>1. PICK u : u = [t EXCEPT !.fin = TRUE]
  OBVIOUS
<1>2. /\ u.sendState = t.sendState /\ u.size = t.size /\ u.new = t.new
      /\ u.acked = t.acked /\ u.ackedFin = t.ackedFin /\ u.fin /\ SameRecv(t, u)
  BY <1>1 DEF StRec, SameRecv
<1> QED BY <1>1, <1>2, SendKeepsSame, RecvKeepsSame, AppDoneKeeps DEF SameRecv

LEMMA DataReset ==
    ASSUME NEW t \in StRec, NEW c \in Int
    PROVE  AppDone(t, ResetSendPart(t, c))
<1>1. SameRecv(t, ResetSendPart(t, c))
  BY ResetEffect
<1> QED BY <1>1, SendKeepsReset, RecvKeepsSame, AppDoneKeeps DEF SameRecv

LEMMA DataFree ==
    ASSUME NEW t \in StRec, NEW c \in Int
    PROVE  LET r == IF t.sendState \in {"READY", "SEND"} /\ ~t.fin
                    THEN ResetSendPart(t, c) ELSE t
               p == IF r.recvState \in {"RECV", "SIZE_KNOWN"} /\ ~r.stop
                    THEN ScheduleStopSending([r EXCEPT !.stop = TRUE], c) ELSE r
           IN  AppDone(t, UpdateState([p EXCEPT !.deleted = TRUE], c))
<1> DEFINE r == IF t.sendState \in {"READY", "SEND"} /\ ~t.fin
                THEN ResetSendPart(t, c) ELSE t
           x == [r EXCEPT !.stop = TRUE]
           p == IF r.recvState \in {"RECV", "SIZE_KNOWN"} /\ ~r.stop
                THEN ScheduleStopSending(x, c) ELSE r
           y == [p EXCEPT !.deleted = TRUE]
<1>0. SendKeeps(t, UpdateState(y, c))
  BY SendKeepsFree
<1>1. r \in StRec /\ SameRecv(t, r)
  <2>1. ResetSendPart(t, c) \in StRec /\ SameRecv(t, ResetSendPart(t, c))
    BY ResetEffect
  <2> QED BY <2>1 DEF SameRecv
<1> HIDE DEF r
<1>2. x \in StRec /\ x.recvState = r.recvState /\ x.got = r.got /\ x.rx = r.rx /\ x.stop
  BY <1>1 DEF StRec
<1> HIDE DEF x
<1>3. /\ p \in StRec /\ p.recvState = r.recvState /\ p.got = r.got /\ p.rx = r.rx
      /\ r.stop => p.stop
  <2>1. PICK z : z = ScheduleStopSending(x, c)
    OBVIOUS
  <2>2. CASE z = x
    BY <1>1, <1>2, <2>1, <2>2
  <2>3. CASE z # x
    <3>1. PICK w \in StRec : /\ z = UpdateState(w, c) /\ w.recvState = x.recvState
                             /\ w.got = x.got /\ w.stop = x.stop /\ w.rx = x.rx
      BY <1>2, <2>1, <2>3, ScheduleStopEffect
    <3>2. z \in StRec /\ SameRecv(w, z)
      BY <3>1, UpdateEffect
    <3> QED BY <1>1, <1>2, <2>1, <3>1, <3>2 DEF SameRecv
  <2> QED BY <2>2, <2>3
<1> HIDE DEF p
<1>4. y \in StRec /\ SameRecv(p, y)
  BY <1>3 DEF StRec, SameRecv
<1> HIDE DEF y
<1>5. SameRecv(y, UpdateState(y, c))
  BY <1>4, UpdateEffect
<1>6. RecvKeeps(t, UpdateState(y, c), FALSE)
  BY <1>1, <1>3, <1>4, <1>5, RecvKeepsSame DEF SameRecv
<1>7. AppDone(t, UpdateState(y, c))
  BY <1>0, <1>6, AppDoneKeeps
<1> QED BY <1>7 DEF y, p, x, r

\* n bytes that can be read are read.
LEMMA RecvKeepsRead ==
    ASSUME NEW t \in StRec, RxOK(t), NEW n \in Nat, n <= Cardinality(Readable(t)),
           NEW u, u.rx.rwm = t.rx.rwm + n, u.rx.hwm = t.rx.hwm, u.rx.fin = t.rx.fin,
           u.got = t.got \ t.rx.rwm..(t.rx.rwm + n - 1), u.stop = t.stop,
           \/ u.recvState = t.recvState
           \/ t.recvState = "DATA_RECVD" /\ u.recvState = "DATA_READ"
    PROVE  RecvKeeps(t, u, FALSE)
<1>1. t.rx.rwm \in Nat /\ t.rx.hwm \in Nat /\ t.got \in SUBSET Nat
  BY StFields
<1>2. \A b \in Nat : Has(t, b) => Has(u, b)
  <2> SUFFICES ASSUME NEW b \in Nat, Has(t, b) PROVE Has(u, b)
    OBVIOUS
  <2>1. CASE b < t.rx.rwm
    BY <1>1, <2>1 DEF Has
  <2>2. CASE b \in t.got
    BY <1>1, <2>2 DEF Has
  <2>3. CASE Shut(t)
    BY <2>3 DEF Has, Shut
  <2> QED BY <2>1, <2>2, <2>3 DEF Has
<1>3. Full(u) => Full(t)
  <2> SUFFICES ASSUME Full(u), NEW b \in t.rx.rwm..(t.rx.hwm - 1) PROVE b \in t.got
    BY DEF Full
  <2>1. CASE b \in t.rx.rwm..(t.rx.rwm + n - 1)
    BY <2>1, ReadablePrefix
  <2>2. CASE b \in u.rx.rwm..(u.rx.hwm - 1)
    BY <2>2 DEF Full
  <2> QED BY <1>1, <2>1, <2>2
<1>4. RecvOK(t) => RecvOK(u)
  BY <1>3 DEF RecvOK
<1> QED BY <1>2, <1>4 DEF RecvKeeps, Received, ResetIn

LEMMA DataRead ==
    ASSUME NEW t \in StRec, NEW c \in Int, LocalOK(t), NEW n \in Nat,
           n <= Cardinality(Readable(t)), NEW double \in BOOLEAN,
           NEW rs \in RecvStates,
           rs = t.recvState \/ (t.recvState = "DATA_RECVD" /\ rs = "DATA_READ")
    PROVE  LET rx == RxRetire(t.rx, n, 0, double)
               u  == [t EXCEPT !.rx = IF n = 0 THEN @ ELSE rx,
                               !.got = @ \ t.rx.rwm..(t.rx.rwm + n - 1),
                               !.recvState = rs]
           IN  AppDone(t, IF n = 0 THEN u ELSE UpdateState(u, c))
<1> DEFINE rx == RxRetire(t.rx, n, 0, double)
           nrx == IF n = 0 THEN t.rx ELSE rx
           ngot == t.got \ t.rx.rwm..(t.rx.rwm + n - 1)
           u  == [t EXCEPT !.rx = IF n = 0 THEN @ ELSE rx,
                           !.got = @ \ t.rx.rwm..(t.rx.rwm + n - 1),
                           !.recvState = rs]
           v == IF n = 0 THEN u ELSE UpdateState(u, c)
<1>1. t.rx \in RxRec /\ t.rx.rwm \in Nat /\ t.got \in SUBSET Nat
  BY StFields
<1>2. /\ nrx \in RxRec /\ nrx.hwm = t.rx.hwm /\ nrx.fin = t.rx.fin
      /\ nrx.rwm = t.rx.rwm + n
  <2>1. t.rx.cwm - t.rx.rwm <= t.rx.max
    BY DEF LocalOK, RxOK
  <2>2. 0 \in Nat
    OBVIOUS
  <2>3. Retired(t.rx, n, rx)
    BY <1>1, <2>1, <2>2, RetireEffect
  <2> HIDE DEF rx
  <2> QED BY <1>1, <2>3 DEF Retired
<1>3. u = [t EXCEPT !.rx = nrx, !.got = ngot, !.recvState = rs]
  BY DEF StRec
<1> HIDE DEF nrx, u
<1>4. u \in StRec
  BY <1>1, <1>2, <1>3 DEF StRec
<1>5. /\ u.rx = nrx /\ u.got = ngot /\ SameBuffer(t, u) /\ u.recvState = rs
      /\ u.stop = t.stop /\ u.sendState = t.sendState
  BY <1>3 DEF StRec, SameBuffer
<1>6. SendKeeps(t, u)
  BY <1>5, SendKeepsSame DEF SameBuffer
<1>7. RecvKeeps(t, u, FALSE)
  BY <1>2, <1>5, RecvKeepsRead DEF LocalOK
<1>8. SendKeeps(t, v)
  BY <1>4, <1>6, SendKeepsUpdate, SendKeepsTrans
<1>9. RecvKeeps(t, v, FALSE)
  <2>1. SameRecv(u, UpdateState(u, c))
    BY <1>4, UpdateEffect
  <2>2. RecvKeeps(u, UpdateState(u, c), FALSE)
    BY <2>1, RecvKeepsSame DEF SameRecv
  <2> QED BY <1>7, <2>2, RecvKeepsTrans
<1> HIDE DEF v
<1>10. AppDone(t, v)
  BY <1>8, <1>9, AppDoneKeeps
<1> QED BY <1>10 DEF v, u

LEMMA DataReadReset ==
    ASSUME NEW t \in StRec, t.recvState = "RESET_RECVD"
    PROVE  AppDone(t, [t EXCEPT !.recvState = "RESET_READ"])
<1>1. PICK u : u = [t EXCEPT !.recvState = "RESET_READ"]
  OBVIOUS
<1>2. /\ SameBuffer(t, u) /\ u.sendState = t.sendState /\ u.rx = t.rx
      /\ u.got = t.got /\ u.stop = t.stop /\ u.recvState = "RESET_READ"
  BY <1>1 DEF StRec, SameBuffer
<1>3. SendKeeps(t, u)
  BY <1>2, SendKeepsSame DEF SameBuffer
<1>4. RecvKeeps(t, u, FALSE)
  BY <1>2 DEF RecvKeeps, Has, Shut, RecvOK, Received, ResetIn
<1> QED BY <1>1, <1>3, <1>4, AppDoneKeeps

LEMMA DataApp ==
    ASSUME FlowInv, AppStep
    PROVE  /\ pkt' = pkt
           /\ \E e \in End, s \in Stream : \E x :
                st' = [st EXCEPT ![e][s] = x] /\ AppDone(st[e][s], x)
<1>1. PICK e \in End, s \in Stream :
          \/ \E n \in 1..MaxSize, c \in BOOLEAN : Write(e, s, n, c)
          \/ Conclude(e, s)
          \/ ConcludeByEmptyWrite(e, s)
          \/ Reset(e, s)
          \/ Free(e, s)
          \/ \E n \in 0..MaxSize, a \in BOOLEAN, b \in BOOLEAN : Read(e, s, n, a, b)
          \/ ReadReset(e, s)
  BY Zenon DEF AppStep
<1>2. PICK t : t = st[e][s]
  OBVIOUS
<1>3. PICK c : c = ConnCredit(e)
  OBVIOUS
<1>4. /\ t \in StRec /\ c \in Int /\ LocalOK(t)
      /\ st \in [End -> [Stream -> StRec]]
  BY <1>2, <1>3, StateTypes DEF FlowInv, StreamInv, Types
<1>5. ASSUME NEW x, AppDone(t, x), st' = [st EXCEPT ![e][s] = x], pkt' = pkt
      PROVE  /\ pkt' = pkt
             /\ \E a \in End, z \in Stream : \E y :
                  st' = [st EXCEPT ![a][z] = y] /\ AppDone(st[a][z], y)
  BY <1>2, <1>5, Zenon
<1>6. CASE \E n \in 1..MaxSize, b \in BOOLEAN : Write(e, s, n, b)
  <2>1. PICK n \in 1..MaxSize, b \in BOOLEAN : Write(e, s, n, b)
    BY <1>6
  <2>2. PICK x : x = [UpdateState([t EXCEPT !.sendState = "SEND", !.size = @ + n,
                           !.new = @ \cup t.size..(t.size + n - 1)], c)
                   EXCEPT !.fin = b]
    OBVIOUS
  <2>3. /\ st' = [st EXCEPT ![e][s] = x] /\ pkt' = pkt
        /\ t.sendState \in {"READY", "SEND"}
    BY <1>2, <1>3, <2>1, <2>2 DEF Write
  <2>4. n \in Nat
    BY MaxSizeAssumption
  <2>5. AppDone(t, x)
    BY <1>4, <2>2, <2>3, <2>4, DataWrite
  <2> QED BY <1>5, <2>3, <2>5
<1>7. CASE Conclude(e, s)
  <2>1. PICK x : x = UpdateState([t EXCEPT !.sendState = "SEND", !.fin = TRUE], c)
    OBVIOUS
  <2>2. /\ st' = [st EXCEPT ![e][s] = x] /\ pkt' = pkt
        /\ t.sendState \in {"READY", "SEND"}
    BY <1>2, <1>3, <1>7, <2>1 DEF Conclude
  <2>3. AppDone(t, x)
    BY <1>4, <2>1, <2>2, DataConclude
  <2> QED BY <1>5, <2>2, <2>3
<1>8. CASE ConcludeByEmptyWrite(e, s)
  <2>1. PICK x : x = [t EXCEPT !.fin = TRUE]
    OBVIOUS
  <2>2. st' = [st EXCEPT ![e][s] = [@ EXCEPT !.fin = TRUE]] /\ pkt' = pkt
    BY <1>8 DEF ConcludeByEmptyWrite
  <2>3. st' = [st EXCEPT ![e][s] = x]
    BY <1>2, <1>4, <2>1, <2>2
  <2>4. AppDone(t, x)
    BY <1>4, <2>1, DataEmptyWrite
  <2> QED BY <1>5, <2>2, <2>3, <2>4
<1>9. CASE Reset(e, s)
  <2>1. PICK x : x = ResetSendPart(t, c)
    OBVIOUS
  <2>2. st' = [st EXCEPT ![e][s] = x] /\ pkt' = pkt
    BY <1>2, <1>3, <1>9, <2>1 DEF Reset
  <2>3. AppDone(t, x)
    BY <1>4, <2>1, DataReset
  <2> QED BY <1>5, <2>2, <2>3
<1>10. CASE Free(e, s)
  <2>1. PICK r : r = IF t.sendState \in {"READY", "SEND"} /\ ~t.fin
                     THEN ResetSendPart(t, c) ELSE t
    OBVIOUS
  <2>2. PICK p : p = IF r.recvState \in {"RECV", "SIZE_KNOWN"} /\ ~r.stop
                     THEN ScheduleStopSending([r EXCEPT !.stop = TRUE], c) ELSE r
    OBVIOUS
  <2>3. PICK x : x = UpdateState([p EXCEPT !.deleted = TRUE], c)
    OBVIOUS
  <2>4. st' = [st EXCEPT ![e][s] = x] /\ pkt' = pkt
    BY <1>2, <1>3, <1>10, <2>1, <2>2, <2>3 DEF Free
  <2>5. AppDone(t, x)
    BY <1>4, <2>1, <2>2, <2>3, DataFree
  <2> QED BY <1>5, <2>4, <2>5
<1>11. CASE \E n \in 0..MaxSize, a \in BOOLEAN, b \in BOOLEAN : Read(e, s, n, a, b)
  <2>1. PICK n \in 0..MaxSize, a \in BOOLEAN, b \in BOOLEAN : Read(e, s, n, a, b)
    BY <1>11
  <2>2. PICK rs : rs = IF /\ n = Cardinality(Readable(t)) /\ FinReadable(t)
                          /\ t.recvState = "DATA_RECVD"
                       THEN "DATA_READ" ELSE t.recvState
    OBVIOUS
  <2>3. PICK u : u = [t EXCEPT !.rx = IF n = 0 THEN @ ELSE RxRetire(t.rx, n, 0, a),
                               !.got = @ \ t.rx.rwm..(t.rx.rwm + n - 1),
                               !.recvState = rs]
    OBVIOUS
  <2>4. u = [t EXCEPT !.rx = IF n = 0 THEN @ ELSE RxRetire(t.rx, n, 0, a),
                      !.got = @ \ t.rx.rwm..(t.rx.rwm + n - 1),
                      !.recvState = IF /\ (n = Cardinality(Readable(t)) /\ FinReadable(t))
                                       /\ @ = "DATA_RECVD"
                                    THEN "DATA_READ" ELSE @]
    BY <1>4, <2>2, <2>3 DEF StRec
  <2>5. PICK x : x = IF n = 0 THEN u ELSE UpdateState(u, c)
    OBVIOUS
  <2>6. /\ st' = [st EXCEPT ![e][s] = x] /\ pkt' = pkt
        /\ n <= Cardinality(Readable(t))
    BY <1>2, <1>3, <2>1, <2>4, <2>5 DEF Read
  <2>7. /\ rs \in RecvStates
        /\ rs = t.recvState \/ (t.recvState = "DATA_RECVD" /\ rs = "DATA_READ")
    BY <1>4, <2>2, StFields DEF RecvStates
  <2>8. n \in Nat
    BY MaxSizeAssumption
  <2>9. AppDone(t, x)
    BY <1>4, <2>3, <2>5, <2>6, <2>7, <2>8, DataRead
  <2> QED BY <1>5, <2>6, <2>9
<1>12. CASE ReadReset(e, s)
  <2>1. PICK x : x = [t EXCEPT !.recvState = "RESET_READ"]
    OBVIOUS
  <2>2. /\ t.recvState = "RESET_RECVD" /\ pkt' = pkt
        /\ st' = [st EXCEPT ![e][s] = [@ EXCEPT !.recvState = "RESET_READ"]]
    BY <1>2, <1>12 DEF ReadReset
  <2>3. st' = [st EXCEPT ![e][s] = x]
    BY <1>2, <1>4, <2>1, <2>2
  <2>4. AppDone(t, x)
    BY <1>4, <2>1, <2>2, DataReadReset
  <2> QED BY <1>5, <2>2, <2>3, <2>4
<1> QED BY <1>1, <1>6, <1>7, <1>8, <1>9, <1>10, <1>11, <1>12

\* The sender t becomes u, and what u says of its receiver q is right.
Rightly(t, u, q) ==
    /\ \A b \in u.acked : b \in Nat /\ Has(q, b)
    /\ u.ackedFin => q.rx.fin
    /\ SendIsReset(t) => SendIsReset(u)
    /\ u.sendState = "DATA_RECVD" => Received(q)

LEMMA ClaimsRightly ==
    ASSUME NEW t \in StRec, NEW q \in StRec, NEW u, LocalOK(t), FlowOK(t, q),
           Deliv(t, q), Claims(t, u)
    PROVE  Rightly(t, u, q)
<1>1. t.acked \in SUBSET Nat
  BY StFields
<1>2. /\ t.sendState = "DATA_SENT" => t.fin /\ t.size = t.txSwm
      /\ q.rx.fin => q.rx.hwm = t.txSwm
  BY DEF LocalOK, SendOK, FlowOK
<1>3. Done(t) => Received(q)
  BY <1>2, DoneMeansReceived
<1> QED BY <1>1, <1>3 DEF Claims, Rightly, Deliv

LEMMA DelivKept ==
    ASSUME NEW t, NEW u, NEW q, NEW z, Deliv(t, q), Rightly(t, u, q),
           RecvKeeps(q, z, SendIsReset(t))
    PROVE  Deliv(u, z)
<1>1. SendIsReset(u) => u.sendState # "DATA_RECVD"
  BY DEF SendIsReset
<1>2. RecvOK(z) /\ \A b \in u.acked : Has(z, b)
  BY DEF Deliv, Rightly, RecvKeeps
<1>3. (u.ackedFin => z.rx.fin) /\ (ResetIn(z) => SendIsReset(u))
  BY DEF Deliv, Rightly, RecvKeeps
<1>4. u.sendState = "DATA_RECVD" => Received(z)
  BY <1>1 DEF Rightly, RecvKeeps
<1> QED BY <1>2, <1>3, <1>4 DEF Deliv

LEMMA ArrivedKept ==
    ASSUME NEW f \in FrameRec, NEW q, NEW z, NEW rst, Arrived(f, q), RecvKeeps(q, z, rst)
    PROVE  Arrived(f, z)
<1>1. f.bytes \in SUBSET Nat
  BY DEF FrameRec
<1> QED BY <1>1 DEF Arrived, RecvKeeps

\* The streams of e change as senders and as receivers.
LEMMA DelivEndStep ==
    ASSUME FlowInv, DelivInv, NEW e \in End, NEW x, st' = [st EXCEPT ![e] = x],
           \A s \in Stream :
             /\ Rightly(st[e][s], x[s], st[Peer(e)][s])
             /\ RecvKeeps(st[e][s], x[s], SendIsReset(st[Peer(e)][s])),
           \A i \in Slot : pkt'[i] # NoPkt /\ ~pkt'[i].onWire =>
               \/ pkt[i] # NoPkt /\ ~pkt[i].onWire /\ pkt'[i].str = pkt[i].str
                  /\ pkt'[i].from = pkt[i].from
               \/ \A s \in Stream : Arrived(pkt'[i].str[s], st'[Peer(pkt'[i].from)][s])
    PROVE  DelivInv'
<1>1. Types /\ StreamInv /\ st \in [End -> [Stream -> StRec]]
  BY DEF FlowInv, Types
<1>2. \A a \in End : st'[a] = IF a = e THEN x ELSE st[a]
  BY <1>1
<1>3. \A a \in End, s \in Stream :
        /\ Rightly(st[a][s], st'[a][s], st[Peer(a)][s])
        /\ RecvKeeps(st[a][s], st'[a][s], SendIsReset(st[Peer(a)][s]))
  <2> TAKE a \in End, s \in Stream
  <2>1. CASE a = e
    BY <1>2, <2>1
  <2>2. CASE a # e
    <3>1. st'[a][s] = st[a][s]
      BY <1>2, <2>2
    <3>2. RecvKeeps(st[a][s], st'[a][s], SendIsReset(st[Peer(a)][s]))
      BY <3>1, RecvKeepsSame
    <3>3. Claims(st[a][s], st[a][s])
      BY DEF Claims, Done
    <3>4. Peer(a) \in End
      BY PeerFacts
    <3>5. /\ st[a][s] \in StRec /\ st[Peer(a)][s] \in StRec /\ LocalOK(st[a][s])
          /\ FlowOK(st[a][s], st[Peer(a)][s]) /\ Deliv(st[a][s], st[Peer(a)][s])
      BY <1>1, <3>4, StateTypes DEF StreamInv, DelivInv
    <3>6. Rightly(st[a][s], st[a][s], st[Peer(a)][s])
      BY <3>3, <3>5, ClaimsRightly
    <3> QED BY <3>1, <3>2, <3>6
  <2> QED BY <2>1, <2>2
<1>4. ASSUME NEW a \in End, NEW s \in Stream PROVE Deliv(st'[a][s], st'[Peer(a)][s])
  <2>1. Peer(a) \in End /\ Peer(Peer(a)) = a
    BY PeerFacts
  <2>2. Deliv(st[a][s], st[Peer(a)][s])
    BY DEF DelivInv
  <2>3. Rightly(st[a][s], st'[a][s], st[Peer(a)][s])
    BY <1>3
  <2>4. RecvKeeps(st[Peer(a)][s], st'[Peer(a)][s], SendIsReset(st[a][s]))
    <3>1. PICK d \in End : d = Peer(a)
      BY <2>1
    <3> QED BY <1>3, <2>1, <3>1
  <2> QED BY <2>2, <2>3, <2>4, DelivKept
<1>5. ASSUME NEW i \in Slot, pkt'[i] # NoPkt, ~pkt'[i].onWire, NEW s \in Stream
      PROVE  Arrived(pkt'[i].str[s], st'[Peer(pkt'[i].from)][s])
  <2>1. CASE /\ pkt[i] # NoPkt /\ ~pkt[i].onWire
             /\ pkt'[i].str = pkt[i].str /\ pkt'[i].from = pkt[i].from
    <3>1. pkt[i].from \in End /\ pkt[i].str[s] \in FrameRec
      BY <1>1, <2>1, PacketTypes
    <3>2. PICK d : d = Peer(pkt[i].from)
      OBVIOUS
    <3>3. d \in End
      BY <3>1, <3>2, PeerFacts
    <3>4. Arrived(pkt[i].str[s], st[d][s])
      BY <2>1, <3>2 DEF DelivInv, ArrivedInv
    <3>5. Arrived(pkt[i].str[s], st'[d][s])
      BY <1>3, <3>1, <3>3, <3>4, ArrivedKept
    <3> QED BY <2>1, <3>2, <3>5
  <2>2. CASE \A z \in Stream : Arrived(pkt'[i].str[z], st'[Peer(pkt'[i].from)][z])
    BY <2>2
  <2> QED BY <1>5, <2>1, <2>2
<1>6. ArrivedInv'
  BY <1>5 DEF ArrivedInv
<1>7. \A a \in End, s \in Stream : Deliv(st'[a][s], st'[Peer(a)][s])
  BY <1>4
<1> QED BY <1>6, <1>7 DEF DelivInv

DataInv == ByteInv /\ DelivInv

LEMMA DataAppStep ==
    ASSUME FlowInv, DataInv, AppStep
    PROVE  DataInv'
<1>1. pkt' = pkt
  BY DataApp
<1>0. PICK e \in End, s \in Stream : \E x :
         st' = [st EXCEPT ![e][s] = x] /\ AppDone(st[e][s], x)
  BY DataApp
<1>2. PICK x : st' = [st EXCEPT ![e][s] = x] /\ AppDone(st[e][s], x)
  BY <1>0
<1>3. Types /\ StreamInv /\ st \in [End -> [Stream -> StRec]]
  BY DEF FlowInv, Types
<1>4. ByteInv'
  <2>1. SharedOut(st[e][s], Loads(e, s))
    BY DEF DataInv, ByteInv
  <2>2. SharedOut(x, Loads(e, s))
    BY <1>2, <2>1, LoadsWithin DEF AppDone, KeepsBytes
  <2> QED BY <1>1, <1>2, <1>3, <2>2, ByteStreamStep DEF DataInv
<1>5. DelivInv'
  <2>1. PICK y : y = [st[e] EXCEPT ![s] = x]
    OBVIOUS
  <2>2. st' = [st EXCEPT ![e] = y]
    BY <1>2, <1>3, <2>1
  <2>3. ASSUME NEW z \in Stream
        PROVE  /\ Rightly(st[e][z], y[z], st[Peer(e)][z])
               /\ RecvKeeps(st[e][z], y[z], SendIsReset(st[Peer(e)][z]))
    <3>1. y[z] = IF z = s THEN x ELSE st[e][z]
      BY <1>3, <2>1
    <3>2. Claims(st[e][z], y[z]) /\ RecvKeeps(st[e][z], y[z], FALSE)
      <4>1. CASE z = s
        BY <1>2, <3>1, <4>1 DEF AppDone
      <4>2. CASE z # s
        BY <3>1, <4>2, RecvKeepsSame DEF Claims, Done
      <4> QED BY <4>1, <4>2
    <3>3. Peer(e) \in End
      BY PeerFacts
    <3>4. /\ st[e][z] \in StRec /\ st[Peer(e)][z] \in StRec /\ LocalOK(st[e][z])
          /\ FlowOK(st[e][z], st[Peer(e)][z]) /\ Deliv(st[e][z], st[Peer(e)][z])
      BY <1>3, <3>3, StateTypes DEF StreamInv, DelivInv, DataInv
    <3>5. Rightly(st[e][z], y[z], st[Peer(e)][z])
      BY <3>2, <3>4, ClaimsRightly
    <3>6. RecvKeeps(st[e][z], y[z], SendIsReset(st[Peer(e)][z]))
      BY <3>2 DEF RecvKeeps
    <3> QED BY <3>5, <3>6
  <2>4. DelivInv
    BY DEF DataInv
  <2> QED BY <1>1, <2>2, <2>3, <2>4, DelivEndStep
<1> QED BY <1>4, <1>5 DEF DataInv

\* The bytes X of t go into the packet of slot i.
Moves(t, u, i, X) ==
    \A B, C : /\ SharedOut(t, B) /\ B[i] = {}
              /\ \A j \in Slot : C[j] = IF j = i THEN X ELSE B[j]
              => SharedOut(u, C)

TxDone(t, u, i, X) == Claims(t, u) /\ RecvKeeps(t, u, FALSE) /\ Moves(t, u, i, X)

LEMMA DataTx ==
    ASSUME NEW t \in StRec, NEW c \in Int, NEW f \in FrameRec, NEW used \in Nat,
           f.bytes \subseteq t.new, NEW i \in Slot, NEW u, u = AfterTx(t, f, used, c)
    PROVE  TxDone(t, u, i, f.bytes)
<1>1. PICK w : /\ Written(t, f, used, w)
               /\ \/ u = UpdateState(w, c)
                  \/ AllSent(UpdateState(w, c), u)
  BY TxEffect
<1>2. PICK v : v = UpdateState(w, c)
  OBVIOUS
<1>3. /\ w \in StRec /\ w.new = t.new \ f.bytes /\ SameRx(t.rx, w.rx)
      /\ w.sendState = t.sendState /\ w.size = t.size /\ w.fin = t.fin
      /\ w.acked = t.acked /\ w.ackedFin = t.ackedFin
      /\ w.recvState = t.recvState /\ w.got = t.got /\ w.stop = t.stop
  BY <1>1 DEF Written
<1>4. SendKeeps(w, v) /\ SameRecv(w, v)
  BY <1>2, <1>3, SendKeepsUpdate, UpdateEffect
<1>5. u = v \/ AllSent(v, u)
  BY <1>1, <1>2
<1>6. RecvKeeps(t, u, FALSE)
  <2>1. RecvKeeps(t, w, FALSE)
    BY <1>3, RecvKeepsSame DEF SameRx
  <2>2. RecvKeeps(w, v, FALSE)
    BY <1>4, RecvKeepsSame DEF SameRecv
  <2>3. SameRecv(v, u)
    BY <1>5 DEF AllSent, SameRecv
  <2>4. RecvKeeps(v, u, FALSE)
    BY <2>3, RecvKeepsSame DEF SameRecv
  <2> QED BY <2>1, <2>2, <2>4, RecvKeepsTrans
<1>7. Claims(t, v)
  BY <1>3, <1>4 DEF SendKeeps, Claims, Done, IsTotallyAcked, SendIsReset
<1>8. Claims(t, u)
  BY <1>5, <1>7 DEF AllSent, SameBuffer, Claims, SendIsReset
<1>9. ASSUME NEW B, NEW C, SharedOut(t, B), B[i] = {},
             \A j \in Slot : C[j] = IF j = i THEN f.bytes ELSE B[j]
      PROVE  SharedOut(u, C)
  <2>1. HasSStream(w) <=> HasSStream(t)
    BY <1>3 DEF HasSStream
  <2>2. ASSUME Shared(t, B) PROVE Shared(w, C)
    <3>1. PICK X : X = f.bytes
      OBVIOUS
    <3>2. X \subseteq t.new /\ w.new = t.new \ X /\ w.size = t.size /\ w.acked = t.acked
      BY <1>3, <3>1
    <3>3. B[i] = {} /\ \A j \in Slot : C[j] = IF j = i THEN X ELSE B[j]
      BY <1>9, <3>1
    <3> QED BY <2>2, <3>2, <3>3 DEF Shared
  <2>3. SharedOut(w, C)
    BY <1>9, <2>1, <2>2 DEF SharedOut
  <2>4. SharedOut(v, C)
    BY <1>4, <2>3, SharedKept
  <2>5. CASE AllSent(v, u)
    <3>1. HasSStream(v) /\ u.new = v.new /\ u.acked = v.acked /\ u.size = v.size
      BY <2>5 DEF AllSent, SameBuffer, HasSStream
    <3> QED BY <2>4, <3>1 DEF SharedOut, Shared
  <2> QED BY <1>5, <2>4, <2>5
<1>10. Moves(t, u, i, f.bytes)
  BY <1>9 DEF Moves
<1> QED BY <1>6, <1>8, <1>10 DEF TxDone

LEMMA DataIdle ==
    ASSUME NEW t, NEW i \in Slot
    PROVE  TxDone(t, t, i, {})
<1>1. Claims(t, t) /\ RecvKeeps(t, t, FALSE)
  BY RecvKeepsSame DEF Claims, Done
<1>2. ASSUME NEW B, NEW C, SharedOut(t, B), B[i] = {},
             \A j \in Slot : C[j] = IF j = i THEN {} ELSE B[j]
      PROVE  SharedOut(t, C)
  BY <1>2, SharedSame
<1>3. Moves(t, t, i, {})
  BY <1>2 DEF Moves
<1> QED BY <1>1, <1>3 DEF TxDone

\* From Claims and RecvKeeps at one end to the invariant.
LEMMA DelivQuietEnd ==
    ASSUME FlowInv, DelivInv, NEW e \in End, NEW x, st' = [st EXCEPT ![e] = x],
           \A s \in Stream : Claims(st[e][s], x[s]) /\ RecvKeeps(st[e][s], x[s], FALSE),
           \A i \in Slot : pkt'[i] # NoPkt /\ ~pkt'[i].onWire =>
               pkt[i] # NoPkt /\ ~pkt[i].onWire /\ pkt'[i].str = pkt[i].str
               /\ pkt'[i].from = pkt[i].from
    PROVE  DelivInv'
<1>1. ASSUME NEW z \in Stream
      PROVE  /\ Rightly(st[e][z], x[z], st[Peer(e)][z])
             /\ RecvKeeps(st[e][z], x[z], SendIsReset(st[Peer(e)][z]))
  <2>1. Peer(e) \in End /\ Types /\ StreamInv
    BY PeerFacts DEF FlowInv
  <2>2. /\ st[e][z] \in StRec /\ st[Peer(e)][z] \in StRec /\ LocalOK(st[e][z])
        /\ FlowOK(st[e][z], st[Peer(e)][z]) /\ Deliv(st[e][z], st[Peer(e)][z])
    BY <2>1, StateTypes DEF StreamInv, DelivInv
  <2>3. Rightly(st[e][z], x[z], st[Peer(e)][z])
    BY <2>2, ClaimsRightly
  <2>4. RecvKeeps(st[e][z], x[z], SendIsReset(st[Peer(e)][z]))
    BY DEF RecvKeeps
  <2> QED BY <2>3, <2>4
<1> QED BY <1>1, DelivEndStep

LEMMA DataTxStep ==
    ASSUME FlowInv, DataInv, NEW e \in End, NEW i \in Slot,
           NEW served \in SUBSET Stream,
           NEW cut \in [Stream -> 0..MaxSize], NEW fin \in SUBSET Stream,
           TxPacket(e, i, served, cut, fin)
    PROVE  DataInv'
<1> DEFINE bytes == [s \in Stream |-> IF s \in served THEN Chunk(st[e][s], cut[s])
                                      ELSE {}]
           used  == [s \in Stream |-> NewCredit(st[e][s], bytes[s])]
           str   == [s \in Stream |->
                       IF s \in served
                       THEN StreamFrames(st[e][s], bytes[s], s \in fin)
                       ELSE NoFrames]
           spent == conn[e].txSwm + SumFunction(used)
           x     == [s \in Stream |->
                       IF s \in served
                       THEN AfterTx(st[e][s], str[s], used[s], conn[e].txCwm - spent)
                       ELSE st[e][s]]
           md    == IF conn[e].wantMaxData \/ conn[e].rx.changed
                    THEN conn[e].rx.cwm ELSE None
           p     == [from |-> e, maxData |-> md, str |-> str,
                     onWire |-> TRUE, inflight |-> TRUE]
<1>1. /\ \A s \in Stream : (s \in fin) \in
                (IF s \in served THEN FinChoices(st[e][s], bytes[s]) ELSE {FALSE})
      /\ pkt[i] = NoPkt
      /\ st' = [st EXCEPT ![e] = x]
      /\ pkt' = [pkt EXCEPT ![i] = p]
  BY DEF TxPacket
<1>2. /\ Types /\ StreamInv /\ conn[e] \in ConnRec
      /\ conn[e].txSwm \in Nat /\ conn[e].txCwm \in Nat /\ DOMAIN pkt = Slot
  BY StateTypes DEF FlowInv, Types
<1>3. used \in [Stream -> Nat] /\ SumFunction(used) \in Nat
  <2>1. \A s \in Stream : NewCredit(st[e][s], bytes[s]) \in Nat
    <3> TAKE s \in Stream
    <3>1. st[e][s] \in StRec /\ LocalOK(st[e][s])
      BY <1>2, StateTypes DEF StreamInv
    <3>2. bytes[s] \subseteq st[e][s].new
      BY DEF Chunk
    <3> HIDE DEF bytes
    <3> QED BY <3>1, <3>2, NewCreditFacts
  <2>2. used \in [Stream -> Nat]
    <3> HIDE DEF bytes
    <3> QED BY <2>1
  <2> HIDE DEF used
  <2> QED BY <2>2, SumNat, StreamAssumption
<1>4. PICK c : c = conn[e].txCwm - spent
  OBVIOUS
<1>5. c \in Int
  <2> HIDE DEF used
  <2> QED BY <1>2, <1>3, <1>4
<1>6. \A s \in Stream : TxDone(st[e][s], x[s], i, str[s].bytes)
  <2> TAKE s \in Stream
  <2>1. st[e][s] \in StRec /\ bytes[s] \subseteq st[e][s].new
    BY <1>2, StateTypes DEF Chunk
  <2>2. CASE s \in served
    <3>1. str[s] \in FrameRec
      <4>1. bytes[s] = IF s \in served THEN Chunk(st[e][s], cut[s]) ELSE {}
        OBVIOUS
      <4>2. used[s] = NewCredit(st[e][s], bytes[s])
        OBVIOUS
      <4>3. str[s] = IF s \in served THEN StreamFrames(st[e][s], bytes[s], s \in fin)
                     ELSE NoFrames
        OBVIOUS
      <4>4. (s \in fin) \in
                (IF s \in served THEN FinChoices(st[e][s], bytes[s]) ELSE {FALSE})
        BY <1>1
      <4> HIDE DEF bytes, used, str, spent
      <4>5. x[s] = IF s \in served
                   THEN AfterTx(st[e][s], str[s], used[s], c)
                   ELSE st[e][s]
        BY <1>4
      <4> HIDE DEF x
      <4>6. SentDone(st[e][s], x[s], str[s], used[s])
        BY <1>5, <4>1, <4>2, <4>3, <4>4, <4>5, TxStreams
      <4> QED BY <4>6 DEF SentDone
    <3>2. str[s].bytes = bytes[s]
      <4> HIDE DEF bytes
      <4> QED BY <2>2 DEF StreamFrames
    <3> HIDE DEF str, used, bytes
    <3>3. x[s] = AfterTx(st[e][s], str[s], used[s], c)
      BY <1>4, <2>2
    <3>4. used[s] \in Nat
      BY <1>3
    <3> HIDE DEF x
    <3> QED BY <1>5, <2>1, <3>1, <3>2, <3>3, <3>4, DataTx
  <2>3. CASE s \notin served
    <3>1. x[s] = st[e][s] /\ str[s].bytes = {}
      BY <2>3 DEF NoFrames
    <3> HIDE DEF x, str
    <3> QED BY <3>1, DataIdle
  <2> QED BY <2>2, <2>3
<1>7. p.from = e /\ p.str = str /\ p.onWire /\ p.inflight /\ p # NoPkt
  <2>1. p.from = e /\ p.str = str /\ p.onWire /\ p.inflight
    OBVIOUS
  <2>2. "str" \in DOMAIN p /\ "str" \notin DOMAIN NoPkt
    BY DEF NoPkt
  <2> QED BY <2>1, <2>2
<1> HIDE DEF p, x, str
<1>8. ByteInv'
  <2>1. \A a \in End, s \in Stream : a # e => Load(p, a, s) = Load(pkt[i], a, s)
    BY <1>1, <1>7 DEF Load
  <2>2. ASSUME NEW s \in Stream, NEW C,
               \A j \in Slot : C[j] = IF j = i THEN Load(p, e, s) ELSE Loads(e, s)[j]
        PROVE  SharedOut(x[s], C)
    <3>1. Load(p, e, s) = str[s].bytes
      BY <1>7 DEF Load
    <3>2. Loads(e, s)[i] = {}
      BY <1>1 DEF Loads, Load
    <3>3. SharedOut(st[e][s], Loads(e, s))
      BY DEF DataInv, ByteInv
    <3>4. \A j \in Slot : C[j] = IF j = i THEN str[s].bytes ELSE Loads(e, s)[j]
      BY <2>2, <3>1
    <3>5. Moves(st[e][s], x[s], i, str[s].bytes)
      BY <1>6 DEF TxDone
    <3> QED BY <3>2, <3>3, <3>4, <3>5, Zenon DEF Moves
  <2>3. ByteInv
    BY DEF DataInv
  <2>4. Reloaded(e, i, p, x)
    BY <2>2, Zenon DEF Reloaded
  <2>5. EndStep(e, i, p, x)
    BY <1>1, <2>1 DEF EndStep
  <2> QED BY <1>2, <2>3, <2>4, <2>5, ByteEndStep
<1>9. DelivInv'
  <2>1. \A j \in Slot : pkt'[j] = IF j = i THEN p ELSE pkt[j]
    BY <1>1, <1>2
  <2>2. \A s \in Stream : Claims(st[e][s], x[s]) /\ RecvKeeps(st[e][s], x[s], FALSE)
    BY <1>6 DEF TxDone
  <2>3. \A j \in Slot : pkt'[j] # NoPkt /\ ~pkt'[j].onWire => pkt'[j] = pkt[j]
    BY <1>7, <2>1
  <2>4. DelivInv
    BY DEF DataInv
  <2> QED BY <1>1, <2>2, <2>3, <2>4, DelivQuietEnd
<1> QED BY <1>8, <1>9 DEF DataInv

\* The bytes X in slot i are settled: they are with the stream again.
Settles(t, u, i, X) ==
    \A B, C : /\ SharedOut(t, B) /\ B[i] = X
              /\ \A j \in Slot : C[j] = IF j = i THEN {} ELSE B[j]
              => SharedOut(u, C)

LEMMA SettlesIdle ==
    ASSUME NEW t, NEW i \in Slot, NEW X, X = {} \/ ~HasSStream(t)
    PROVE  Settles(t, t, i, X)
<1>1. ASSUME NEW B, NEW C, SharedOut(t, B), B[i] = X,
             \A j \in Slot : C[j] = IF j = i THEN {} ELSE B[j]
      PROVE  SharedOut(t, C)
  <2>1. CASE X = {}
    BY <1>1, <2>1, SharedSame
  <2> QED BY <2>1 DEF SharedOut
<1> QED BY <1>1 DEF Settles

LEMMA DataAck ==
    ASSUME NEW t \in StRec, NEW q \in StRec, NEW c \in Int, NEW f \in FrameRec,
           LocalOK(t), FlowOK(t, q), FrameOK(t, f), Deliv(t, q), Arrived(f, q),
           NEW i \in Slot, NEW u, u = OnAcked(t, f, c)
    PROVE  /\ Rightly(t, u, q) /\ RecvKeeps(t, u, FALSE)
           /\ Settles(t, u, i, f.bytes)
<1>0. ~HasChunk(f) \/ ~HasSStream(t) => u = t
  BY DEF OnAcked
<1>1. CASE (~HasChunk(f) \/ ~HasSStream(t)) /\ u = t
  <2>1. Claims(t, t)
    BY DEF Claims, Done
  <2>2. RecvKeeps(t, t, FALSE) /\ Rightly(t, t, q)
    BY <2>1, RecvKeepsSame, ClaimsRightly
  <2>3. f.bytes = {} \/ ~HasSStream(t)
    BY <1>1 DEF HasChunk, FrameOK, None
  <2> QED BY <1>1, <2>2, <2>3, SettlesIdle
<1>2. CASE HasChunk(f) /\ HasSStream(t)
  <2>1. PICK v \in StRec :
          /\ u \in {v, UpdateState(v, c)}
          /\ v.acked = t.acked \cup f.bytes
          /\ v.ackedFin = (t.ackedFin \/ f.fin)
          /\ SameRecv(t, v) /\ SameCredit(t, v)
          /\ v.sendState = t.sendState /\ v.size = t.size
          /\ v.fin = t.fin /\ v.new = t.new
          /\ v.finalSize = t.finalSize /\ v.wantReset = t.wantReset
    BY <1>2, AckedEffect
  <2>2. Deliv(v, q) /\ (SendIsReset(t) => SendIsReset(v))
    BY <2>1 DEF Deliv, Arrived, SendIsReset
  <2>3. f.bytes \subseteq 0..(t.size - 1)
    BY FrameBytes
  <2>4. LocalOK(v)
    BY <2>1, <2>3 DEF LocalOK, SendOK, RxOK, SameRecv, SameCredit, HasSStream, SendIsReset
  <2>5. FlowOK(v, q)
    BY <2>1 DEF FlowOK, Ended, SendIsReset, SameCredit
  <2>6. SendKeeps(v, u) /\ SameRecv(v, u)
    <3>1. SendKeeps(v, UpdateState(v, c)) /\ SameRecv(v, UpdateState(v, c))
      BY SendKeepsUpdate, UpdateEffect
    <3> QED BY <2>1, <3>1, SendKeepsRefl DEF SameRecv
  <2>7. Claims(v, u)
    BY <2>6 DEF SendKeeps, Claims, Done
  <2>8. Rightly(v, u, q)
    BY <2>2, <2>4, <2>5, <2>7, ClaimsRightly
  <2>9. Rightly(t, u, q)
    BY <2>2, <2>8 DEF Rightly
  <2>10. RecvKeeps(t, u, FALSE)
    BY <2>1, <2>6, RecvKeepsSame DEF SameRecv
  <2>11. ASSUME NEW B, NEW C, SharedOut(t, B), B[i] = f.bytes,
                \A j \in Slot : C[j] = IF j = i THEN {} ELSE B[j]
         PROVE  SharedOut(u, C)
    <3>1. Shared(t, B)
      BY <1>2, <2>11 DEF SharedOut
    <3>2. v.acked = t.acked \cup B[i] /\ v.new = t.new /\ v.size = t.size
      BY <2>1, <2>11
    <3>3. Shared(v, C)
      BY <2>11, <3>1, <3>2 DEF Shared
    <3> QED BY <2>6, <3>3, SharedKept DEF SharedOut
  <2>12. Settles(t, u, i, f.bytes)
    BY <2>11 DEF Settles
  <2> QED BY <2>9, <2>10, <2>12
<1> QED BY <1>0, <1>1, <1>2

LEMMA RecvKeepsStop ==
    ASSUME NEW t \in StRec, NEW c \in Int
    PROVE  RecvKeeps(t, ScheduleStopSending(t, c), FALSE)
<1>1. CASE ScheduleStopSending(t, c) = t
  BY <1>1, RecvKeepsSame
<1>2. CASE ScheduleStopSending(t, c) # t
  <2>1. PICK x \in StRec :
          /\ ScheduleStopSending(t, c) = UpdateState(x, c)
          /\ x.recvState = t.recvState /\ x.got = t.got /\ x.stop = t.stop /\ x.rx = t.rx
    BY <1>2, ScheduleStopEffect
  <2>2. SameRecv(x, UpdateState(x, c))
    BY UpdateEffect
  <2> QED BY <2>1, <2>2, RecvKeepsSame DEF SameRecv
<1> QED BY <1>1, <1>2

LEMMA DataLose ==
    ASSUME NEW t \in StRec, NEW c \in Int, NEW f \in FrameRec, FrameOK(t, f),
           NEW i \in Slot, NEW u, u = OnLost(t, f, c)
    PROVE  /\ Claims(t, u) /\ RecvKeeps(t, u, FALSE)
           /\ Settles(t, u, i, f.bytes)
<1>0. ~HasChunk(f) \/ ~HasSStream(t) => u = t
  BY DEF OnLost
<1>1. CASE (~HasChunk(f) \/ ~HasSStream(t)) /\ u = t
  <2>1. Claims(t, t) /\ RecvKeeps(t, t, FALSE)
    BY RecvKeepsSame DEF Claims, Done
  <2>2. f.bytes = {} \/ ~HasSStream(t)
    BY <1>1 DEF HasChunk, FrameOK, None
  <2> QED BY <1>1, <2>1, <2>2, SettlesIdle
<1>2. CASE HasChunk(f) /\ HasSStream(t)
  <2>1. PICK v \in StRec :
          /\ u \in {UpdateState(v, c), UpdateState(ScheduleStopSending(v, c), c)}
          /\ v.new = t.new \cup f.bytes
          /\ v.acked = t.acked /\ v.ackedFin = t.ackedFin
          /\ v.sendState = t.sendState /\ v.size = t.size /\ v.fin = t.fin
          /\ v.recvState = t.recvState /\ v.got = t.got
          /\ v.stop = t.stop /\ v.rx = t.rx
    BY <1>2, LostEffect
  <2>2. PICK w \in StRec : /\ w = v \/ w = ScheduleStopSending(v, c)
                           /\ u = UpdateState(w, c)
    <3>1. ScheduleStopSending(v, c) \in StRec
      BY SendKeepsStop
    <3> QED BY <2>1, <3>1
  <2>3. SendKeeps(v, w) /\ RecvKeeps(v, w, FALSE)
    BY <2>2, SendKeepsStop, SendKeepsRefl, RecvKeepsStop, RecvKeepsSame
  <2>4. SendKeeps(w, u) /\ SameRecv(w, u)
    BY <2>2, SendKeepsUpdate, UpdateEffect
  <2>5. SendKeeps(v, u)
    BY <2>3, <2>4, SendKeepsTrans
  <2>6. Claims(t, u)
    BY <2>1, <2>5 DEF SendKeeps, Claims, Done, IsTotallyAcked, SendIsReset
  <2>7. RecvKeeps(t, u, FALSE)
    <3>1. RecvKeeps(t, v, FALSE)
      BY <2>1, RecvKeepsSame
    <3>2. RecvKeeps(w, u, FALSE)
      BY <2>4, RecvKeepsSame DEF SameRecv
    <3> QED BY <2>3, <3>1, <3>2, RecvKeepsTrans
  <2>8. ASSUME NEW B, NEW C, SharedOut(t, B), B[i] = f.bytes,
                \A j \in Slot : C[j] = IF j = i THEN {} ELSE B[j]
         PROVE  SharedOut(u, C)
    <3>1. Shared(t, B)
      BY <1>2, <2>8 DEF SharedOut
    <3>2. v.new = t.new \cup B[i] /\ v.acked = t.acked /\ v.size = t.size
      BY <2>1, <2>8
    <3>3. Shared(v, C)
      BY <2>8, <3>1, <3>2 DEF Shared
    <3> QED BY <2>5, <3>3, SharedKept DEF SharedOut
  <2>9. Settles(t, u, i, f.bytes)
    BY <2>8 DEF Settles
  <2> QED BY <2>6, <2>7, <2>9
<1> QED BY <1>0, <1>1, <1>2

\* The packet once it has arrived, and once it is taken as lost.
LEMMA KeepArrived ==
    ASSUME NEW p \in PktRec, NEW r, r = Keep([p EXCEPT !.onWire = FALSE])
    PROVE  \/ /\ p.inflight /\ r # NoPkt /\ r.from = p.from /\ r.str = p.str
              /\ r.inflight /\ ~r.onWire
           \/ ~p.inflight /\ r = NoPkt
<1>1. PICK z : z = [p EXCEPT !.onWire = FALSE]
  OBVIOUS
<1>2. /\ z \in PktRec /\ z.from = p.from /\ z.str = p.str /\ ~z.onWire
      /\ z.inflight = p.inflight
  BY <1>1 DEF PktRec
<1> QED BY <1>1, <1>2, NoPktIsNone DEF Keep

LEMMA KeepLost ==
    ASSUME NEW p \in PktRec, NEW r, r = Keep([p EXCEPT !.inflight = FALSE])
    PROVE  \/ /\ r # NoPkt /\ r.from = p.from /\ r.str = p.str
              /\ ~r.inflight /\ r.onWire
           \/ r = NoPkt
<1>1. PICK z : z = [p EXCEPT !.inflight = FALSE]
  OBVIOUS
<1>2. z.from = p.from /\ z.str = p.str /\ ~z.inflight
  BY <1>1 DEF PktRec
<1>3. r = IF z.onWire \/ z.inflight THEN z ELSE NoPkt
  BY <1>1 DEF Keep
<1> QED BY <1>2, <1>3

\* The packet of slot i is settled and its load is off: r is left of it.
LEMMA ByteSettled ==
    ASSUME FlowInv, ByteInv, NEW i \in Slot, pkt[i] # NoPkt, pkt[i].inflight,
           NEW e, e = pkt[i].from, NEW x, NEW r,
           st' = [st EXCEPT ![e] = x], pkt' = [pkt EXCEPT ![i] = r],
           r = NoPkt \/ (r.from = e /\ ~r.inflight),
           \A s \in Stream : Settles(st[e][s], x[s], i, pkt[i].str[s].bytes)
    PROVE  ByteInv'
<1>1. Types /\ e \in End
  BY PacketTypes DEF FlowInv
<1>2. EndStep(e, i, r, x)
  <2>1. \A a \in End, s \in Stream : a # e => Load(r, a, s) = Load(pkt[i], a, s)
    BY DEF Load
  <2> QED BY <2>1 DEF EndStep
<1>3. ASSUME NEW s \in Stream, NEW C,
             \A j \in Slot : C[j] = IF j = i THEN Load(r, e, s) ELSE Loads(e, s)[j]
      PROVE  SharedOut(x[s], C)
  <2>1. Load(r, e, s) = {}
    BY DEF Load
  <2>2. Loads(e, s)[i] = pkt[i].str[s].bytes
    BY DEF Loads, Load
  <2>3. SharedOut(st[e][s], Loads(e, s))
    BY <1>1 DEF ByteInv
  <2>4. \A j \in Slot : C[j] = IF j = i THEN {} ELSE Loads(e, s)[j]
    BY <1>3, <2>1
  <2>5. PICK t, u, B, X : t = st[e][s] /\ u = x[s] /\ B = Loads(e, s)
                         /\ X = pkt[i].str[s].bytes
    OBVIOUS
  <2>6. /\ Settles(t, u, i, X) /\ SharedOut(t, B) /\ B[i] = X
        /\ \A j \in Slot : C[j] = IF j = i THEN {} ELSE B[j]
    BY <2>2, <2>3, <2>4, <2>5
  <2>7. SharedOut(u, C)
    BY ONLY <2>6, Zenon DEF Settles
  <2> QED BY <2>5, <2>7
<1>4. Reloaded(e, i, r, x)
  BY <1>3, Zenon DEF Reloaded
<1> QED BY <1>1, <1>2, <1>4, ByteEndStep

LEMMA DataAckStep ==
    ASSUME FlowInv, DataInv, NEW i \in Slot, Ack(i)
    PROVE  DataInv'
<1>1. PICK e : e = pkt[i].from
  OBVIOUS
<1>2. PICK x : x = [s \in Stream |-> OnAcked(st[e][s], pkt[i].str[s], ConnCredit(e))]
  OBVIOUS
<1>3. /\ pkt[i] # NoPkt /\ pkt[i].inflight /\ ~pkt[i].onWire
      /\ st' = [st EXCEPT ![e] = x] /\ pkt' = [pkt EXCEPT ![i] = NoPkt]
  BY <1>1, <1>2 DEF Ack
<1>4. /\ Types /\ StreamInv /\ PacketInv /\ e \in End /\ ConnCredit(e) \in Int
      /\ DOMAIN pkt = Slot /\ ByteInv /\ DelivInv
  BY <1>1, <1>3, PacketTypes, StateTypes DEF FlowInv, Types, DataInv
<1>5. \A s \in Stream : /\ Rightly(st[e][s], x[s], st[Peer(e)][s])
                        /\ RecvKeeps(st[e][s], x[s], FALSE)
                        /\ Settles(st[e][s], x[s], i, pkt[i].str[s].bytes)
  <2> TAKE s \in Stream
  <2>1. PICK d \in End : d = Peer(e)
    BY <1>4, PeerFacts
  <2>2. /\ st[e][s] \in StRec /\ st[d][s] \in StRec /\ pkt[i].str[s] \in FrameRec
    BY <1>3, <1>4, StateTypes, PacketTypes
  <2>3. /\ LocalOK(st[e][s]) /\ FlowOK(st[e][s], st[d][s])
        /\ FrameOK(st[e][s], pkt[i].str[s])
    BY <1>1, <1>3, <1>4, <2>1 DEF StreamInv, PacketInv
  <2>4. Deliv(st[e][s], st[d][s]) /\ Arrived(pkt[i].str[s], st[d][s])
    BY <1>1, <1>3, <1>4, <2>1 DEF DelivInv, ArrivedInv
  <2>5. x[s] = OnAcked(st[e][s], pkt[i].str[s], ConnCredit(e))
    BY <1>2
  <2> QED BY <1>4, <2>1, <2>2, <2>3, <2>4, <2>5, DataAck
<1>6. ByteInv'
  BY <1>1, <1>3, <1>4, <1>5, ByteSettled
<1>7. DelivInv'
  <2>1. \A s \in Stream :
             /\ Rightly(st[e][s], x[s], st[Peer(e)][s])
             /\ RecvKeeps(st[e][s], x[s], SendIsReset(st[Peer(e)][s]))
    BY <1>5 DEF RecvKeeps
  <2>2. \A j \in Slot : pkt'[j] = IF j = i THEN NoPkt ELSE pkt[j]
    BY <1>3, <1>4
  <2>3. \A j \in Slot : pkt'[j] # NoPkt /\ ~pkt'[j].onWire =>
           /\ pkt[j] # NoPkt /\ ~pkt[j].onWire /\ pkt'[j].str = pkt[j].str
           /\ pkt'[j].from = pkt[j].from
    BY <2>2
  <2> QED BY <1>3, <1>4, <2>1, <2>3, DelivEndStep
<1> QED BY <1>6, <1>7 DEF DataInv

LEMMA DataLoseStep ==
    ASSUME FlowInv, DataInv, NEW i \in Slot, Lose(i)
    PROVE  DataInv'
<1>1. PICK e : e = pkt[i].from
  OBVIOUS
<1>2. PICK x : x = [s \in Stream |-> OnLost(st[e][s], pkt[i].str[s], ConnCredit(e))]
  OBVIOUS
<1>3. PICK r : r = Keep([pkt[i] EXCEPT !.inflight = FALSE])
  OBVIOUS
<1>4. /\ pkt[i] # NoPkt /\ pkt[i].inflight
      /\ st' = [st EXCEPT ![e] = x] /\ pkt' = [pkt EXCEPT ![i] = r]
  BY <1>1, <1>2, <1>3 DEF Lose
<1>5. /\ Types /\ PacketInv /\ e \in End /\ ConnCredit(e) \in Int
      /\ DOMAIN pkt = Slot /\ ByteInv /\ DelivInv /\ pkt[i] \in PktRec
  BY <1>1, <1>4, PacketTypes, StateTypes DEF FlowInv, Types, DataInv
<1>6. \A s \in Stream : /\ Claims(st[e][s], x[s]) /\ RecvKeeps(st[e][s], x[s], FALSE)
                        /\ Settles(st[e][s], x[s], i, pkt[i].str[s].bytes)
  <2> TAKE s \in Stream
  <2>1. /\ st[e][s] \in StRec /\ pkt[i].str[s] \in FrameRec
        /\ FrameOK(st[e][s], pkt[i].str[s])
    BY <1>1, <1>4, <1>5, StateTypes, PacketTypes DEF PacketInv
  <2>2. x[s] = OnLost(st[e][s], pkt[i].str[s], ConnCredit(e))
    BY <1>2
  <2> QED BY <1>5, <2>1, <2>2, DataLose
<1>7. r = NoPkt \/ (r.from = e /\ ~r.inflight /\ r.onWire)
  BY <1>1, <1>3, <1>5, KeepLost
<1>8. ByteInv'
  BY <1>1, <1>4, <1>5, <1>6, <1>7, ByteSettled
<1>9. DelivInv'
  <2>1. \A j \in Slot : pkt'[j] = IF j = i THEN r ELSE pkt[j]
    BY <1>4, <1>5
  <2>2. \A j \in Slot : pkt'[j] # NoPkt /\ ~pkt'[j].onWire =>
           /\ pkt[j] # NoPkt /\ ~pkt[j].onWire /\ pkt'[j].str = pkt[j].str
           /\ pkt'[j].from = pkt[j].from
    BY <1>7, <2>1
  <2> QED BY <1>4, <1>5, <1>6, <2>2, DelivQuietEnd
<1> QED BY <1>8, <1>9 DEF DataInv

\* Nothing happens to the loads.
LEMMA ByteUnloaded ==
    ASSUME Types, ByteInv, NEW e \in End, NEW i \in Slot, NEW x, NEW r,
           EndStep(e, i, r, x),
           \A s \in Stream : /\ Load(r, e, s) = Load(pkt[i], e, s)
                             /\ SendKeeps(st[e][s], x[s])
    PROVE  ByteInv'
<1>2. ASSUME NEW s \in Stream, NEW C,
             \A j \in Slot : C[j] = IF j = i THEN Load(r, e, s) ELSE Loads(e, s)[j]
      PROVE  SharedOut(x[s], C)
  <2>1. \A j \in Slot : C[j] = Loads(e, s)[j]
    BY <1>2 DEF Loads
  <2>2. SharedOut(st[e][s], Loads(e, s))
    BY DEF ByteInv
  <2>3. SharedOut(st[e][s], C)
    BY <2>1, <2>2, SharedSame
  <2> QED BY <2>3, SharedKept
<1>3. Reloaded(e, i, r, x)
  BY <1>2, Zenon DEF Reloaded
<1> QED BY <1>3, ByteEndStep

LEMMA DataDropStep ==
    ASSUME FlowInv, DataInv, NEW i \in Slot, Drop(i)
    PROVE  DataInv'
<1>1. PICK e : e = pkt[i].from
  OBVIOUS
<1>2. /\ pkt[i] # NoPkt /\ ~pkt[i].inflight /\ st' = st
      /\ pkt' = [pkt EXCEPT ![i] = NoPkt]
  BY DEF Drop
<1>3. /\ Types /\ e \in End /\ st \in [End -> [Stream -> StRec]]
      /\ DOMAIN pkt = Slot /\ ByteInv /\ DelivInv
  BY <1>1, <1>2, PacketTypes DEF FlowInv, Types, DataInv
<1>4. PICK x : x = st[e]
  OBVIOUS
<1>5. st' = [st EXCEPT ![e] = x]
  BY <1>2, <1>3, <1>4
<1>6. \A s \in Stream : /\ SendKeeps(st[e][s], x[s]) /\ Claims(st[e][s], x[s])
                        /\ RecvKeeps(st[e][s], x[s], FALSE)
  BY <1>4, SendKeepsRefl, RecvKeepsSame DEF Claims, Done
<1>7. ByteInv'
  <2>1. \A a \in End, s \in Stream : Load(NoPkt, a, s) = Load(pkt[i], a, s)
    BY <1>2 DEF Load
  <2>2. EndStep(e, i, NoPkt, x)
    BY <1>2, <1>5, <2>1 DEF EndStep
  <2> QED BY <1>3, <1>6, <2>1, <2>2, ByteUnloaded
<1>8. DelivInv'
  <2>1. \A j \in Slot : pkt'[j] = IF j = i THEN NoPkt ELSE pkt[j]
    BY <1>2, <1>3
  <2>2. \A j \in Slot : pkt'[j] # NoPkt /\ ~pkt'[j].onWire =>
           /\ pkt[j] # NoPkt /\ ~pkt[j].onWire /\ pkt'[j].str = pkt[j].str
           /\ pkt'[j].from = pkt[j].from
    BY <2>1
  <2> QED BY <1>3, <1>5, <1>6, <2>2, DelivQuietEnd
<1> QED BY <1>7, <1>8 DEF DataInv

LEMMA DataDeliverStep ==
    ASSUME FlowInv, DataInv, NEW i \in Slot, Deliver(i)
    PROVE  DataInv'
<1>1. PICK p : p = pkt[i]
  OBVIOUS
<1>2. PICK e : e = p.from
  OBVIOUS
<1>3. PICK d : d = Peer(e)
  OBVIOUS
<1>4. PICK cwm : cwm = IF p.maxData = None THEN conn[d].txCwm
                       ELSE Larger(conn[d].txCwm, p.maxData)
  OBVIOUS
<1>5. PICK k : k = cwm - conn[d].txSwm
  OBVIOUS
<1>6. PICK x : x = [s \in Stream |-> RecvFrames(st[d][s], p.str[s], p.maxData, k)]
  OBVIOUS
<1>7. PICK r : r = Keep([p EXCEPT !.onWire = FALSE])
  OBVIOUS
<1>8. p # NoPkt /\ p.onWire /\ st' = [st EXCEPT ![d] = x] /\ pkt' = [pkt EXCEPT ![i] = r]
  BY <1>1, <1>2, <1>3, <1>4, <1>5, <1>6, <1>7 DEF Deliver
<1>9. /\ Types /\ p \in PktRec /\ p.maxData \in Int /\ e \in End
      /\ d \in End /\ d # e /\ Peer(d) = e /\ DOMAIN pkt = Slot
      /\ StreamInv /\ ByteInv /\ DelivInv /\ st \in [End -> [Stream -> StRec]]
  BY <1>1, <1>2, <1>3, <1>8, PacketTypes, PeerFacts DEF FlowInv, Types, DataInv
<1>10. k \in Int
  <2>1. conn[d].txCwm \in Nat /\ conn[d].txSwm \in Nat
    BY <1>9, StateTypes
  <2> QED BY <1>4, <1>5, <1>9, <2>1 DEF Larger
<1>11. \A s \in Stream : /\ SendKeeps(st[d][s], x[s])
                         /\ RecvKeeps(st[d][s], x[s], SendIsReset(st[e][s]))
                         /\ Arrived(p.str[s], x[s])
  <2> TAKE s \in Stream
  <2>1. /\ st[d][s] \in StRec /\ st[e][s] \in StRec
        /\ LocalOK(st[d][s]) /\ RxWithin(st[d][s], st[e][s])
        /\ p.str[s] \in FrameRec /\ FrameOK(st[e][s], p.str[s])
    BY <1>1, <1>2, <1>3, <1>8, Arrival
  <2>2. x[s] = RecvFrames(st[d][s], p.str[s], p.maxData, k)
    BY <1>6
  <2>3. RecvOK(st[d][s])
    BY <1>3, <1>9 DEF DelivInv, Deliv
  <2>4. SendKeeps(st[d][s], x[s])
    BY <1>10, <2>1, <2>2, SendKeepsRecv
  <2>5. PICK rst : rst = SendIsReset(st[e][s])
    OBVIOUS
  <2>6. RecvKeeps(st[d][s], x[s], rst) /\ Arrived(p.str[s], x[s])
    BY <1>10, <2>1, <2>2, <2>3, <2>5, RecvKeepsRecv
  <2> QED BY <2>4, <2>5, <2>6
<1>12. \/ /\ p.inflight /\ r # NoPkt /\ r.from = p.from /\ r.str = p.str
          /\ r.inflight /\ ~r.onWire
       \/ ~p.inflight /\ r = NoPkt
  BY <1>7, <1>9, KeepArrived
<1>13. ByteInv'
  <2>1. \A a \in End, s \in Stream : Load(r, a, s) = Load(pkt[i], a, s)
    BY <1>1, <1>8, <1>12 DEF Load
  <2>2. EndStep(d, i, r, x)
    BY <1>8, <2>1 DEF EndStep
  <2> QED BY <1>9, <1>11, <2>1, <2>2, ByteUnloaded
<1>14. DelivInv'
  <2>1. ASSUME NEW s \in Stream
        PROVE  /\ Rightly(st[d][s], x[s], st[Peer(d)][s])
               /\ RecvKeeps(st[d][s], x[s], SendIsReset(st[Peer(d)][s]))
    <3>1. Claims(st[d][s], x[s])
      BY <1>11 DEF SendKeeps, Claims, Done
    <3>2. /\ st[d][s] \in StRec /\ st[e][s] \in StRec /\ LocalOK(st[d][s])
          /\ FlowOK(st[d][s], st[e][s]) /\ Deliv(st[d][s], st[e][s])
      BY <1>9, StateTypes DEF StreamInv, DelivInv
    <3>3. Rightly(st[d][s], x[s], st[e][s])
      BY <3>1, <3>2, ClaimsRightly
    <3> QED BY <1>9, <1>11, <3>3
  <2>2. \A j \in Slot : pkt'[j] = IF j = i THEN r ELSE pkt[j]
    BY <1>8, <1>9
  <2>3. st'[d] = x
    BY <1>8, <1>9
  <2>4. ASSUME NEW j \in Slot, pkt'[j] # NoPkt, ~pkt'[j].onWire
        PROVE  \/ pkt[j] # NoPkt /\ ~pkt[j].onWire /\ pkt'[j].str = pkt[j].str
                  /\ pkt'[j].from = pkt[j].from
               \/ \A s \in Stream : Arrived(pkt'[j].str[s], st'[Peer(pkt'[j].from)][s])
    <3>1. CASE j = i
      <4>1. pkt'[j].str = p.str /\ pkt'[j].from = e
        BY <1>2, <1>12, <2>2, <2>4, <3>1
      <4>2. st'[Peer(pkt'[j].from)] = x
        BY <1>3, <2>3, <4>1
      <4>3. \A s \in Stream : Arrived(pkt'[j].str[s], st'[Peer(pkt'[j].from)][s])
        BY <1>11, <4>1, <4>2
      <4> QED BY <4>3
    <3>2. CASE j # i
      BY <2>2, <2>4, <3>2
    <3> QED BY <3>1, <3>2
  <2> QED BY <1>8, <1>9, <2>1, <2>4, DelivEndStep
<1> QED BY <1>13, <1>14 DEF DataInv

LEMMA DataInit == Init => DataInv
<1> SUFFICES ASSUME Init PROVE DataInv
  OBVIOUS
<1>1. PICK t : t = FreshStream
  OBVIOUS
<1>2. \A e \in End, s \in Stream : st[e][s] = t
  BY <1>1 DEF Init
<1>3. /\ t.sendState = "READY" /\ t.new = {} /\ t.acked = {} /\ t.size = 0 /\ ~t.ackedFin
      /\ t.recvState = "RECV" /\ ~t.rx.fin
  BY <1>1 DEF FreshStream, RxInit
<1>4. \A i \in Slot : pkt[i] = NoPkt
  BY DEF Init
<1>5. ByteInv
  <2> SUFFICES ASSUME NEW e \in End, NEW s \in Stream
               PROVE  SharedOut(st[e][s], Loads(e, s))
    BY DEF ByteInv
  <2>1. \A i \in Slot : Loads(e, s)[i] = {}
    BY <1>4 DEF Loads, Load
  <2>2. Shared(t, Loads(e, s))
    BY <1>3, <2>1 DEF Shared
  <2> QED BY <1>2, <2>2 DEF SharedOut
<1>6. DelivInv
  <2>1. Deliv(t, t)
    BY <1>3 DEF Deliv, RecvOK, ResetIn
  <2>2. \A e \in End : Peer(e) \in End
    BY PeerFacts
  <2> QED BY <1>2, <1>4, <2>1, <2>2 DEF DelivInv, ArrivedInv
<1> QED BY <1>5, <1>6 DEF DataInv

LEMMA DataNext == FlowInv /\ DataInv /\ [Next]_vars => DataInv'
<1> SUFFICES ASSUME FlowInv, DataInv, [Next]_vars PROVE DataInv'
  OBVIOUS
<1>1. CASE AppStep
  BY <1>1, DataAppStep
<1>2. CASE \E e \in End : Tx(e)
  BY <1>2, DataTxStep, Zenon DEF Tx
<1>3. CASE \E i \in Slot : Deliver(i) \/ Drop(i) \/ Ack(i) \/ Lose(i)
  BY <1>3, DataDeliverStep, DataDropStep, DataAckStep, DataLoseStep, Zenon
<1>4. CASE UNCHANGED vars
  <2>1. st' = st /\ pkt' = pkt
    BY <1>4 DEF vars
  <2> QED BY <2>1 DEF DataInv, ByteInv, Loads, DelivInv, ArrivedInv
<1> QED BY <1>1, <1>2, <1>3, <1>4 DEF Next

(***************************************************************************)
(* A sender that reaches Data Recvd, after which qsm_ready_for_gc may have *)
(* the stream collected, is right about its peer.  The invariant behind it:*)
(* what is acknowledged has arrived, and a receiver that misses no byte    *)
(* below its final size does not stay in Size Known.                       *)
(***************************************************************************)
THEOREM DeliveredIsReceived == Spec => []DeliveredMeansReceived
<1>1. DataInv => DeliveredMeansReceived
  BY DEF DataInv, DelivInv, Deliv, Received, DeliveredMeansReceived
<1> QED BY <1>1, DataInit, DataNext, FlowInvariant, PTL DEF Spec

(***************************************************************************)
(* ossl_quic_sstream never loses a byte nor has it in two places: what the *)
(* application has written waits, is acknowledged, or is in exactly one    *)
(* packet in flight, however often that packet is lost and sent again.     *)
(***************************************************************************)
THEOREM EveryByteInOnePlace == Spec => []BytesAccountedFor
<1>1. FlowInv /\ DataInv => BytesAccountedFor
  <2> SUFFICES ASSUME FlowInv, DataInv, NEW e \in End, NEW s \in Stream,
                      HasSStream(st[e][s]), NEW b \in 0..(st[e][s].size - 1)
               PROVE  LET with == {i \in InFlight(e) : b \in pkt[i].str[s].bytes}
                      IN  Cardinality(with) + (IF b \in st[e][s].new THEN 1 ELSE 0)
                             + (IF b \in st[e][s].acked THEN 1 ELSE 0) = 1
    BY DEF BytesAccountedFor
  <2>1. PICK W : W = {i \in InFlight(e) : b \in pkt[i].str[s].bytes}
    OBVIOUS
  <2>2. PICK B : B = Loads(e, s)
    OBVIOUS
  <2>3. W = {i \in Slot : b \in B[i]}
    BY <2>1, <2>2 DEF InFlight, UnderWay, Loads, Load
  <2>4. Shared(st[e][s], B)
    BY <2>2 DEF DataInv, ByteInv, SharedOut
  <2>5. CASE \E i \in Slot : b \in B[i]
    <3>1. PICK i \in Slot : b \in B[i]
      BY <2>5
    <3>2. W = {i}
      BY <2>3, <2>4, <3>1 DEF Shared
    <3>3. Cardinality(W) = 1
      BY <3>2, FS_Singleton
    <3>4. b \notin st[e][s].new /\ b \notin st[e][s].acked
      BY <2>4, <3>1 DEF Shared
    <3> QED BY <2>1, <3>3, <3>4
  <2>6. CASE ~(\E i \in Slot : b \in B[i])
    <3>1. W = {}
      BY <2>3, <2>6
    <3>2. Cardinality(W) = 0
      BY <3>1, FS_EmptySet
    <3>3. \/ b \in st[e][s].new /\ b \notin st[e][s].acked
          \/ b \notin st[e][s].new /\ b \in st[e][s].acked
      BY <2>4, <2>6 DEF Shared
    <3> QED BY <2>1, <3>2, <3>3
  <2> QED BY <2>5, <2>6
<1> QED BY <1>1, DataInit, DataNext, FlowInvariant, PTL DEF Spec
=============================================================================
