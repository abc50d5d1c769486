--------------------------- MODULE RStreamProofs ---------------------------
(***************************************************************************)
(* Theorems about RStream for every final size and every set of ring       *)
(* buffer sizes: the list of frames stays sorted, no assertion of the      *)
(* three files can fail, and the list together with the ring buffer        *)
(* implements the plain buffer RecvBuffer.                                 *)
(*                                                                         *)
(* Each operator of the list and of the ring buffer gets a lemma that says *)
(* what it does as far as its callers can tell (InsertEffect, DropEffect,  *)
(* WriteEffect, ResizeEffect, CullEffect, MoveEffect).  The invariant,     *)
(* IInv, and the refinement use those lemmas and not the definitions.      *)
(***************************************************************************)
EXTENDS RStream, FiniteSetTheorems, SequenceTheorems, NatLemmas, TLAPS

\* The first of the positions in S, which include the one after the last.
LEMMA FirstOf ==
    ASSUME NEW n \in Nat, NEW S \in SUBSET (1..(n + 1)), n + 1 \in S
    PROVE  Min(S) \in S /\ \A j \in S : Min(S) <= j
<1>1. PICK m \in S : \A j \in S : m <= j
  BY NatMin
<1> QED BY <1>1 DEF Min

-----------------------------------------------------------------------------
(* Lists of frames *)

Frame == [start : 0..Size, end : 0..Size, data : Int]
Frames == Seq(Frame)

In(f, b) == f.start <= b /\ b < f.end
Covers(s, b) == \E i \in DOMAIN s : In(s[i], b)

\* Later frames start no earlier, and end later.
Before(f, g) == f.start <= g.start /\ f.end < g.end
Sorted(s) == \A i, j \in DOMAIN s : i < j => Before(s[i], s[j])

\* The fields of the frames of a list.
LEMMA FrameFields ==
    ASSUME NEW s \in Frames
    PROVE  /\ Len(s) \in Nat /\ DOMAIN s = 1..Len(s)
           /\ \A i \in 1..Len(s) : /\ s[i] \in Frame /\ s[i].data \in Int
                                   /\ s[i].start \in 0..Size /\ s[i].end \in 0..Size
<1>1. Len(s) \in Nat /\ DOMAIN s = 1..Len(s) /\ s \in [1..Len(s) -> Frame]
  BY LenProperties DEF Frames
<1>2. \A f \in Frame : f.data \in Int /\ f.start \in 0..Size /\ f.end \in 0..Size
  BY DEF Frame
<1> QED BY <1>1, <1>2

\* What From and Upto leave of a list.
LEMMA Cut ==
    ASSUME NEW s \in Frames, NEW i \in 1..(Len(s) + 1)
    PROVE  /\ From(s, i) \in Frames /\ Len(From(s, i)) = Len(s) - i + 1
           /\ \A k \in 1..(Len(s) - i + 1) : From(s, i)[k] = s[i + k - 1]
           /\ Upto(s, i - 1) \in Frames /\ Len(Upto(s, i - 1)) = i - 1
           /\ \A k \in 1..(i - 1) : Upto(s, i - 1)[k] = s[k]
<1>1. Len(s) \in Nat /\ \A k \in 1..Len(s) : s[k] \in Frame
  BY FrameFields
<1>2. \A k \in i..Len(s) : s[k] \in Frame
  BY <1>1
<1>3. \A k \in 1..(i - 1) : s[k] \in Frame
  BY <1>1
<1>4. i \in Int /\ i - 1 \in Int /\ Len(s) \in Int
  BY <1>1
<1>5. /\ From(s, i) \in Frames /\ Len(From(s, i)) = IF i <= Len(s) THEN Len(s) - i + 1 ELSE 0
      /\ \A k \in 1..(Len(s) - i + 1) : From(s, i)[k] = s[i + k - 1]
  BY <1>2, <1>4, SubSeqProperties DEF From, Frames
<1>6. /\ Upto(s, i - 1) \in Frames
      /\ Len(Upto(s, i - 1)) = IF 1 <= i - 1 THEN (i - 1) - 1 + 1 ELSE 0
      /\ \A k \in 1..((i - 1) - 1 + 1) : Upto(s, i - 1)[k] = s[1 + k - 1]
  BY <1>3, <1>4, SubSeqProperties DEF Upto, Frames
<1> QED BY <1>1, <1>5, <1>6

\* The first frame that starts at x or later.
LEMMA FirstStart ==
    ASSUME NEW s \in Frames, NEW x \in Int
    PROVE  \E at \in 1..(Len(s) + 1) :
             /\ at = FirstWhere(s, LAMBDA f : f.start >= x)
             /\ at <= Len(s) => s[at].start >= x
             /\ \A k \in 1..(at - 1) : s[k].start < x
<1> DEFINE S == {i \in 1..(Len(s) + 1) : i > Len(s) \/ s[i].start >= x}
<1>1. Len(s) \in Nat /\ \A k \in 1..Len(s) : s[k].start \in Int
  BY FrameFields
<1>2. Min(S) \in S /\ \A j \in S : Min(S) <= j
  <2>1. S \in SUBSET (1..(Len(s) + 1)) /\ Len(s) + 1 \in S
    BY <1>1
  <2> HIDE DEF S
  <2> QED BY <1>1, <2>1, FirstOf
<1>3. Min(S) = FirstWhere(s, LAMBDA f : f.start >= x)
  BY DEF FirstWhere
<1>4. PICK at : at = Min(S)
  OBVIOUS
<1>5. at \in 1..(Len(s) + 1) /\ (at <= Len(s) => s[at].start >= x)
  BY <1>1, <1>2, <1>4
<1>6. ASSUME NEW k \in 1..(at - 1) PROVE s[k].start < x
  <2>1. k \notin S /\ k \in 1..Len(s)
    <3>1. k < at
      BY <1>5
    <3> HIDE DEF S
    <3> QED BY <1>1, <1>2, <1>4, <1>5, <3>1
  <2> QED BY <1>1, <2>1
<1> HIDE DEF S
<1> QED BY <1>3, <1>4, <1>5, <1>6

\* The first frame that ends after x.
LEMMA FirstEnd ==
    ASSUME NEW s \in Frames, NEW x \in Int
    PROVE  \E at \in 1..(Len(s) + 1) :
             /\ at = FirstWhere(s, LAMBDA f : f.end > x)
             /\ at <= Len(s) => s[at].end > x
             /\ \A k \in 1..(at - 1) : s[k].end <= x
<1> DEFINE S == {i \in 1..(Len(s) + 1) : i > Len(s) \/ s[i].end > x}
<1>1. Len(s) \in Nat /\ \A k \in 1..Len(s) : s[k].end \in Int
  BY FrameFields
<1>2. Min(S) \in S /\ \A j \in S : Min(S) <= j
  <2>1. S \in SUBSET (1..(Len(s) + 1)) /\ Len(s) + 1 \in S
    BY <1>1
  <2> HIDE DEF S
  <2> QED BY <1>1, <2>1, FirstOf
<1>3. Min(S) = FirstWhere(s, LAMBDA f : f.end > x)
  BY DEF FirstWhere
<1>4. PICK at : at = Min(S)
  OBVIOUS
<1>5. at \in 1..(Len(s) + 1) /\ (at <= Len(s) => s[at].end > x)
  BY <1>1, <1>2, <1>4
<1>6. ASSUME NEW k \in 1..(at - 1) PROVE s[k].end <= x
  <2>1. k \notin S /\ k \in 1..Len(s)
    <3>1. k < at
      BY <1>5
    <3> HIDE DEF S
    <3> QED BY <1>1, <1>2, <1>4, <1>5, <3>1
  <2> QED BY <1>1, <2>1
<1> HIDE DEF S
<1> QED BY <1>3, <1>4, <1>5, <1>6

\* The bounds of a frame are numbers.
LEMMA FrameBounds ==
    ASSUME NEW f \in Frame
    PROVE  f.start \in Int /\ f.end \in Int
BY DEF Frame

\* The order of frames is transitive.
LEMMA BeforeTrans ==
    ASSUME NEW f \in Frame, NEW g \in Frame, NEW h \in Frame, Before(f, g), Before(g, h)
    PROVE  Before(f, h)
BY FrameBounds DEF Before

\* r has the frames of s and of t.
Union(s, t, r) ==
    /\ \A i \in DOMAIN r : \/ \E j \in DOMAIN s : r[i] = s[j]
                           \/ \E j \in DOMAIN t : r[i] = t[j]
    /\ \A j \in DOMAIN s : \E i \in DOMAIN r : r[i] = s[j]
    /\ \A j \in DOMAIN t : \E i \in DOMAIN r : r[i] = t[j]

AllBefore(s, t) == \A i \in DOMAIN s, j \in DOMAIN t : Before(s[i], t[j])

\* A list put together from two parts that fit.
LEMMA Joined ==
    ASSUME NEW s \in Frames, NEW t \in Frames, Sorted(s), Sorted(t), AllBefore(s, t),
           NEW u, u = s \o t
    PROVE  /\ u \in Frames /\ Sorted(u) /\ Union(s, t, u)
           /\ Len(u) = Len(s) + Len(t)
<1>1. PICK r : r = s \o t
  OBVIOUS
<1>2. /\ r \in Frames /\ Len(r) = Len(s) + Len(t)
      /\ \A i \in 1 .. Len(s) + Len(t) : r[i] = IF i <= Len(s) THEN s[i] ELSE t[i - Len(s)]
  BY <1>1, ConcatProperties DEF Frames
<1>3. /\ Len(s) \in Nat /\ Len(t) \in Nat
      /\ DOMAIN s = 1..Len(s) /\ DOMAIN t = 1..Len(t) /\ DOMAIN r = 1..(Len(s) + Len(t))
  BY <1>2, FrameFields
<1>4. Sorted(r)
  <2> SUFFICES ASSUME NEW i \in DOMAIN r, NEW j \in DOMAIN r, i < j
               PROVE  Before(r[i], r[j])
    BY DEF Sorted
  <2>1. CASE j <= Len(s)
    BY <1>2, <1>3, <2>1 DEF Sorted
  <2>2. CASE i <= Len(s) /\ j > Len(s)
    <3>1. i \in DOMAIN s /\ j - Len(s) \in DOMAIN t
      BY <1>3, <2>2
    <3>2. r[i] = s[i] /\ r[j] = t[j - Len(s)]
      BY <1>2, <1>3, <2>2
    <3> QED BY <3>1, <3>2 DEF AllBefore
  <2>3. CASE i > Len(s)
    <3>1. i - Len(s) \in DOMAIN t /\ j - Len(s) \in DOMAIN t /\ i - Len(s) < j - Len(s)
      BY <1>3, <2>3
    <3>2. r[i] = t[i - Len(s)] /\ r[j] = t[j - Len(s)]
      BY <1>2, <1>3, <2>3
    <3> QED BY <3>1, <3>2 DEF Sorted
  <2> QED BY <1>3, <2>1, <2>2, <2>3
<1>5. ASSUME NEW i \in DOMAIN r
      PROVE  (\E j \in DOMAIN s : r[i] = s[j]) \/ (\E j \in DOMAIN t : r[i] = t[j])
  <2>1. i <= Len(s) => i \in DOMAIN s /\ r[i] = s[i]
    BY <1>2, <1>3
  <2>2. i > Len(s) => i - Len(s) \in DOMAIN t /\ r[i] = t[i - Len(s)]
    BY <1>2, <1>3
  <2> QED BY <1>3, <2>1, <2>2
<1>6. \A j \in DOMAIN s : j \in DOMAIN r /\ r[j] = s[j]
  BY <1>2, <1>3
<1>7. \A j \in DOMAIN t : Len(s) + j \in DOMAIN r /\ r[Len(s) + j] = t[j]
  BY <1>2, <1>3
<1>8. Union(s, t, r)
  BY <1>5, <1>6, <1>7 DEF Union
<1> QED BY <1>1, <1>2, <1>4, <1>8

\* Both parts of a sorted list are sorted.
LEMMA SortedPart ==
    ASSUME NEW s \in Frames, Sorted(s), NEW i \in 1..(Len(s) + 1)
    PROVE  Sorted(From(s, i)) /\ Sorted(Upto(s, i - 1))
<1>1. Len(s) \in Nat /\ DOMAIN s = 1..Len(s)
  BY FrameFields
<1>2. PICK u : u = From(s, i)
  OBVIOUS
<1>3. PICK v : v = Upto(s, i - 1)
  OBVIOUS
<1>4. /\ DOMAIN u = 1..(Len(s) - i + 1) /\ \A k \in DOMAIN u : u[k] = s[i + k - 1]
      /\ DOMAIN v = 1..(i - 1) /\ \A k \in DOMAIN v : v[k] = s[k]
  <2>1. /\ u \in Frames /\ Len(u) = Len(s) - i + 1
        /\ \A k \in 1..(Len(s) - i + 1) : u[k] = s[i + k - 1]
    BY <1>2, Cut
  <2>2. /\ v \in Frames /\ Len(v) = i - 1 /\ \A k \in 1..(i - 1) : v[k] = s[k]
    BY <1>3, Cut
  <2>3. DOMAIN u = 1..Len(u) /\ DOMAIN v = 1..Len(v)
    BY <2>1, <2>2, FrameFields
  <2> QED BY <2>1, <2>2, <2>3
<1>5. Sorted(u)
  <2> SUFFICES ASSUME NEW j \in DOMAIN u, NEW k \in DOMAIN u, j < k
               PROVE  Before(u[j], u[k])
    BY DEF Sorted
  <2>1. i + j - 1 \in DOMAIN s /\ i + k - 1 \in DOMAIN s /\ i + j - 1 < i + k - 1
    BY <1>1, <1>4
  <2> QED BY <1>4, <2>1 DEF Sorted
<1>6. Sorted(v)
  BY <1>1, <1>4 DEF Sorted
<1> QED BY <1>2, <1>3, <1>5, <1>6

\* Some frame ends at e or later.
Reaches(s, e) == \E i \in DOMAIN s : s[i].end >= e

\* What ossl_sframe_list_insert does, as far as its callers can tell: r is
\* sorted, has frames of s and perhaps the new one, and covers the same bytes.
Inserted(s, new, r) ==
    /\ r \in Frames /\ Sorted(r)
    /\ \A i \in DOMAIN r : r[i] = new \/ \E j \in DOMAIN s : r[i] = s[j]
    /\ \A b \in Int : Covers(r, b) <=> Covers(s, b) \/ In(new, b)
    /\ \A e \in Int : e <= new.end \/ Reaches(s, e) => Reaches(r, e)

\* The four ways ossl_sframe_list_insert ends all come to this.
LEMMA InsertEffect ==
    ASSUME NEW s \in Frames, Sorted(s), NEW new \in Frame, new.start <= new.end
    PROVE  Inserted(s, new, Insert(s, new))
<1>0. /\ Len(s) \in Nat /\ DOMAIN s = 1..Len(s)
      /\ \A i \in 1..Len(s) : s[i] \in Frame /\ s[i].start \in Int /\ s[i].end \in Int
  BY FrameFields
<1>n. new.start \in Int /\ new.end \in Int
  BY DEF Frame
<1>1. PICK at \in 1..(Len(s) + 1) :
         /\ at = FirstWhere(s, LAMBDA f : f.start >= new.start)
         /\ at <= Len(s) => s[at].start >= new.start
         /\ \A k \in 1..(at - 1) : s[k].start < new.start
  BY <1>n, FirstStart
<1>2. PICK pre : pre = Upto(s, at - 1)
  OBVIOUS
<1>3. PICK rest : rest = From(s, at)
  OBVIOUS
<1>4. /\ pre \in Frames /\ Len(pre) = at - 1 /\ \A k \in 1..(at - 1) : pre[k] = s[k]
      /\ DOMAIN pre = 1..(at - 1) /\ Sorted(pre)
  <2>1. /\ pre \in Frames /\ Len(pre) = at - 1 /\ \A k \in 1..(at - 1) : pre[k] = s[k]
    BY <1>2, Cut
  <2> QED BY <1>2, <2>1, FrameFields, SortedPart
<1>5. /\ rest \in Frames /\ Len(rest) = Len(s) - at + 1
      /\ \A k \in 1..(Len(s) - at + 1) : rest[k] = s[at + k - 1]
  BY <1>3, Cut
<1>6. PICK w \in 1..(Len(rest) + 1) :
         /\ w = FirstWhere(rest, LAMBDA f : f.end > new.end)
         /\ w <= Len(rest) => rest[w].end > new.end
         /\ \A k \in 1..(w - 1) : rest[k].end <= new.end
  BY <1>n, <1>5, FirstEnd
<1>7. PICK next : next = From(rest, w)
  OBVIOUS
<1>8. /\ next \in Frames /\ Len(next) = Len(rest) - w + 1
      /\ \A k \in 1..(Len(rest) - w + 1) : next[k] = rest[w + k - 1]
      /\ DOMAIN next = 1..(Len(rest) - w + 1) /\ Sorted(next)
  <2>1. /\ next \in Frames /\ Len(next) = Len(rest) - w + 1
        /\ \A k \in 1..(Len(rest) - w + 1) : next[k] = rest[w + k - 1]
    BY <1>5, <1>7, Cut
  <2> QED BY <1>3, <1>5, <1>7, <2>1, FrameFields, SortedPart
<1>9. PICK q \in at..(Len(s) + 1) : q = at + w - 1
  <2>1. Len(s) \in Nat /\ Len(rest) = Len(s) - at + 1
    BY <1>0, <1>5
  <2>2. at + w - 1 \in at..(Len(s) + 1)
    BY <2>1
  <2> QED BY <2>2
<1>10. /\ DOMAIN next = 1..(Len(s) - q + 1)
       /\ \A k \in DOMAIN next : next[k] = s[q + k - 1]
  <2>1. Len(s) \in Nat /\ Len(rest) = Len(s) - at + 1
    BY <1>0, <1>5
  <2>2. Len(rest) - w + 1 = Len(s) - q + 1
    BY <1>9, <2>1
  <2>3. ASSUME NEW k \in DOMAIN next PROVE next[k] = s[q + k - 1]
    <3>1. k \in 1..(Len(rest) - w + 1) /\ w + k - 1 \in 1..(Len(s) - at + 1)
      BY <1>8, <2>1, SMTT(30)
    <3>2. next[k] = s[at + (w + k - 1) - 1]
      BY <1>5, <1>8, <3>1
    <3>3. at + (w + k - 1) - 1 = q + k - 1
      BY <1>9, <3>1, SMTT(30)
    <3> QED BY <3>2, <3>3
  <2> QED BY <1>8, <2>2, <2>3
<1>11. ASSUME NEW k \in at..(q - 1)
       PROVE  k \in DOMAIN s /\ s[k].start >= new.start /\ s[k].end <= new.end
  <2>1. k \in DOMAIN s /\ at \in DOMAIN s
    BY <1>0, <1>9
  <2>2. s[k].start >= new.start
    <3>1. CASE k = at
      BY <1>0, <1>1, <2>1, <3>1
    <3>2. CASE at < k
      <4>1. Before(s[at], s[k])
        BY <2>1, <3>2 DEF Sorted
      <4> QED BY <1>0, <1>1, <1>n, <2>1, <4>1, SMTT(30) DEF Before
    <3> QED BY <3>1, <3>2
  <2>3. k - at + 1 \in 1..(w - 1) /\ k - at + 1 \in 1..(Len(s) - at + 1)
    BY <1>0, <1>9, <2>1, SMTT(30)
  <2>4. rest[k - at + 1] = s[at + (k - at + 1) - 1]
    BY <1>5, <2>3
  <2>5. rest[k - at + 1] = s[k]
    BY <2>4
  <2> QED BY <1>6, <2>1, <2>2, <2>3, <2>5
<1>12. ASSUME NEW k \in q..Len(s)
       PROVE  k \in DOMAIN s /\ s[k].start >= new.start /\ s[k].end > new.end
  <2>1. k \in DOMAIN s /\ q \in DOMAIN s /\ at \in DOMAIN s
    BY <1>0, <1>9
  <2>2. s[k].start >= new.start
    <3>1. CASE k = at
      BY <1>0, <1>1, <2>1, <3>1
    <3>2. CASE at < k
      <4>1. Before(s[at], s[k])
        BY <2>1, <3>2 DEF Sorted
      <4> QED BY <1>0, <1>1, <1>n, <2>1, <4>1, SMTT(30) DEF Before
    <3> QED BY <1>9, <3>1, <3>2
  <2>3. s[q].end > new.end
    <3>1. w \in 1..(Len(s) - at + 1) /\ w <= Len(rest)
      BY <1>0, <1>5, <1>6, <1>9, <2>1
    <3>2. rest[w] = s[q]
      BY <1>5, <1>9, <3>1
    <3> QED BY <1>6, <3>1, <3>2
  <2>4. CASE k = q
    BY <2>1, <2>2, <2>3, <2>4
  <2>5. CASE q < k
    <3>1. Before(s[q], s[k])
      BY <2>1, <2>5 DEF Sorted
    <3> QED BY <1>0, <1>n, <2>1, <2>2, <2>3, <3>1, SMTT(30) DEF Before
  <2> QED BY <2>4, <2>5
<1>13. Insert(s, new) =
         IF pre # <<>> /\ Last(pre).end >= new.end THEN s
         ELSE IF pre # <<>> /\ next # <<>> /\ Head(next).start <= Last(pre).end
         THEN pre \o next
         ELSE pre \o <<new>> \o next
  BY <1>1, <1>2, <1>3, <1>6, <1>7 DEF Insert
<1>14. pre # <<>> => /\ at - 1 \in DOMAIN s /\ at > 1 /\ Last(pre) = s[at - 1]
                     /\ s[at - 1].start < new.start
  <2> HAVE pre # <<>>
  <2>1. Len(pre) # 0
    BY <1>4, EmptySeq DEF Frames
  <2>2. at - 1 \in 1..(at - 1) /\ at - 1 \in 1..Len(s) /\ at > 1
    BY <1>0, <1>4, <2>1
  <2>3. Last(pre) = pre[at - 1]
    BY <1>4 DEF Last
  <2> QED BY <1>0, <1>1, <1>4, <2>2, <2>3
<1>15. next # <<>> => q \in DOMAIN s /\ Head(next) = s[q]
  <2> HAVE next # <<>>
  <2>1. Len(next) # 0
    BY <1>8, EmptySeq DEF Frames
  <2>2. Head(next) = next[1]
    BY <1>8, HeadTailProperties DEF Frames
  <2>3. 1 \in DOMAIN next /\ q \in 1..Len(s)
    BY <1>0, <1>8, <1>10, <2>1
  <2>4. next[1] = s[q + 1 - 1]
    BY <1>10, <2>3
  <2> QED BY <1>0, <2>2, <2>3, <2>4
<1>16. ASSUME NEW j \in DOMAIN s
       PROVE  \/ \E k \in DOMAIN pre : pre[k] = s[j]
              \/ j \in at..(q - 1)
              \/ \E k \in DOMAIN next : next[k] = s[j]
  <2>1. CASE j < at
    <3>1. j \in 1..(at - 1)
      BY <1>0, <2>1
    <3>2. j \in DOMAIN pre /\ pre[j] = s[j]
      BY ONLY <1>4, <3>1
    <3> QED BY ONLY <3>2
  <2>2. CASE j >= q
    <3>1. j - q + 1 \in DOMAIN next
      BY <1>0, <1>10, <2>2
    <3>2. next[j - q + 1] = s[q + (j - q + 1) - 1]
      BY <1>10, <3>1
    <3>3. next[j - q + 1] = s[j]
      BY <1>0, <3>2
    <3> QED BY <3>1, <3>3
  <2> QED BY <1>0, <2>1, <2>2
<1>17. ASSUME NEW k \in DOMAIN pre PROVE k \in DOMAIN s /\ pre[k] = s[k]
  BY <1>0, <1>4
<1>18. ASSUME NEW k \in DOMAIN next
       PROVE  q + k - 1 \in DOMAIN s /\ q + k - 1 \in q..Len(s) /\ next[k] = s[q + k - 1]
  BY <1>0, <1>10
<1>19. CASE pre # <<>> /\ Last(pre).end >= new.end
  <2>1. Insert(s, new) = s
    BY <1>13, <1>19
  <2>2. at - 1 \in DOMAIN s /\ s[at - 1].start < new.start /\ s[at - 1].end >= new.end
    BY <1>14, <1>19
  <2>3. \A b \in Int : In(new, b) => In(s[at - 1], b)
    BY <1>0, <1>n, <2>2, SMTT(30) DEF In
  <2>4. \A e \in Int : e <= new.end => s[at - 1].end >= e
    BY <1>0, <1>n, <2>2
  <2>5. \A b \in Int : Covers(s, b) <=> Covers(s, b) \/ In(new, b)
    BY <2>2, <2>3 DEF Covers
  <2>6. \A e \in Int : e <= new.end \/ Reaches(s, e) => Reaches(s, e)
    BY <2>2, <2>4 DEF Reaches
  <2> QED BY <2>1, <2>5, <2>6 DEF Inserted
\* From here on the frames before the new one end before it.
<1>20. ASSUME ~(pre # <<>> /\ Last(pre).end >= new.end), NEW k \in DOMAIN pre
       PROVE  Before(pre[k], new)
  <2>1. Len(pre) # 0
    BY <1>4
  <2>2. pre # <<>>
    BY <2>1, EmptySeq
  <2>3. at - 1 \in DOMAIN s /\ s[at - 1].end < new.end
    BY <1>0, <1>n, <1>14, <1>20, <2>2
  <2>4. s[k].end <= s[at - 1].end
    <3>1. CASE k = at - 1
      BY <1>0, <2>3, <3>1
    <3>2. CASE k < at - 1
      <4>1. Before(s[k], s[at - 1])
        BY <1>17, <2>3, <3>2 DEF Sorted
      <4> QED BY <1>0, <1>17, <2>3, <4>1 DEF Before
    <3> QED BY <1>4, <3>1, <3>2
  <2>5. s[k].start < new.start
    BY <1>1, <1>4
  <2>6. /\ s[k].start \in Int /\ s[k].end \in Int /\ s[at - 1].end \in Int
        /\ pre[k] = s[k]
    BY <1>0, <1>17, <2>3
  <2>7. s[k].start <= new.start /\ s[k].end < new.end
    BY <1>n, <2>3, <2>4, <2>5, <2>6
  <2> QED BY <2>6, <2>7 DEF Before
<1>21. ASSUME NEW k \in DOMAIN next PROVE Before(new, next[k])
  BY <1>0, <1>n, <1>12, <1>18 DEF Before
<1>22. CASE /\ ~(pre # <<>> /\ Last(pre).end >= new.end)
            /\ pre # <<>> /\ next # <<>> /\ Head(next).start <= Last(pre).end
  <2>1. PICK r : r = pre \o next
    OBVIOUS
  <2>2. Insert(s, new) = r
    BY <1>13, <1>22, <2>1
  <2>3. AllBefore(pre, next)
    <3> SUFFICES ASSUME NEW i \in DOMAIN pre, NEW j \in DOMAIN next
                 PROVE  Before(pre[i], next[j])
      BY DEF AllBefore
    <3>1. Before(pre[i], new) /\ Before(new, next[j])
      BY <1>20, <1>21, <1>22
    <3>2. pre[i] \in Frame /\ next[j] \in Frame
      BY <1>0, <1>17, <1>18
    <3> QED BY <3>1, <3>2, BeforeTrans
  <2>4. r \in Frames /\ Sorted(r) /\ Union(pre, next, r)
    BY <1>4, <1>8, <2>1, <2>3, Joined
  <2>5. \A i \in DOMAIN r : \E j \in DOMAIN s : r[i] = s[j]
    BY <1>17, <1>18, <2>4 DEF Union
  <2>6. PICK x \in DOMAIN r : r[x] = s[at - 1]
    <3>1. at - 1 \in DOMAIN pre /\ pre[at - 1] = s[at - 1]
      BY <1>4, <1>14, <1>22
    <3> QED BY <2>4, <3>1 DEF Union
  <2>7. PICK y \in DOMAIN r : r[y] = s[q]
    <3>1. 1 \in DOMAIN next
      BY <1>8, <1>22, EmptySeq DEF Frames
    <3>2. next[1] = s[q]
      BY <1>0, <1>15, <1>18, <1>22, <3>1
    <3> QED BY <2>4, <3>1, <3>2 DEF Union
  <2>8. /\ s[at - 1].start < new.start /\ s[q].start <= s[at - 1].end
        /\ s[q].end > new.end
    BY <1>0, <1>12, <1>14, <1>15, <1>22
  <2>9. at - 1 \in DOMAIN s /\ q \in DOMAIN s
    BY <1>14, <1>15, <1>22
  <2>10. ASSUME NEW b \in Int, In(new, b) PROVE Covers(r, b)
    <3>1. In(s[at - 1], b) \/ In(s[q], b)
      <4>1. /\ s[at - 1].start \in Int /\ s[at - 1].end \in Int
            /\ s[q].start \in Int /\ s[q].end \in Int
        BY <1>0, <2>9
      <4>2. new.start <= b /\ b < new.end
        BY <2>10 DEF In
      <4>3. (s[at - 1].start <= b /\ b < s[at - 1].end) \/ (s[q].start <= b /\ b < s[q].end)
        <5>1. PICK f : f = s[at - 1]
          OBVIOUS
        <5>2. PICK g : g = s[q]
          OBVIOUS
        <5>3. /\ f.start \in Int /\ f.end \in Int /\ g.start \in Int /\ g.end \in Int
              /\ f.start < new.start /\ g.start <= f.end /\ g.end > new.end
          BY <2>8, <4>1, <5>1, <5>2
        <5>4. (f.start <= b /\ b < f.end) \/ (g.start <= b /\ b < g.end)
          BY <1>n, <4>2, <5>3, SMTT(30)
        <5> QED BY <5>1, <5>2, <5>4
      <4> QED BY <4>3 DEF In
    <3> QED BY <2>6, <2>7, <3>1 DEF Covers
  <2>11. ASSUME NEW j \in DOMAIN s
         PROVE  (\E i \in DOMAIN r : r[i] = s[j])
                \/ (s[j].start >= new.start /\ s[j].end <= new.end)
    BY <1>11, <1>16, <2>4 DEF Union
  <2>12. ASSUME NEW b \in Int, Covers(s, b) PROVE Covers(r, b)
    <3>1. PICK j \in DOMAIN s : In(s[j], b)
      BY <2>12 DEF Covers
    <3>2. CASE s[j].start >= new.start /\ s[j].end <= new.end
      BY <1>0, <1>n, <2>10, <3>1, <3>2, SMTT(30) DEF In
    <3>3. CASE \E i \in DOMAIN r : r[i] = s[j]
      BY <3>1, <3>3 DEF Covers
    <3> QED BY <2>11, <3>2, <3>3
  <2>13. ASSUME NEW b \in Int, Covers(r, b) PROVE Covers(s, b)
    BY <2>5, <2>13 DEF Covers
  <2>14. ASSUME NEW e \in Int, e <= new.end \/ Reaches(s, e) PROVE Reaches(r, e)
    <3>1. CASE e <= new.end
      <4>1. r[y].end >= e
        BY <1>0, <1>n, <2>7, <2>8, <2>9, <3>1
      <4> QED BY <4>1 DEF Reaches
    <3>2. CASE Reaches(s, e)
      <4>1. PICK j \in DOMAIN s : s[j].end >= e
        BY <3>2 DEF Reaches
      <4>2. CASE s[j].end <= new.end
        BY <1>0, <1>n, <3>1, <4>1, <4>2
      <4>3. CASE \E i \in DOMAIN r : r[i] = s[j]
        BY <4>1, <4>3 DEF Reaches
      <4> QED BY <2>11, <4>2, <4>3
    <3> QED BY <2>14, <3>1, <3>2
  <2>15. \A b \in Int : Covers(r, b) <=> Covers(s, b) \/ In(new, b)
    BY <2>10, <2>12, <2>13
  <2> QED BY <2>2, <2>4, <2>5, <2>14, <2>15 DEF Inserted
<1>23. CASE /\ ~(pre # <<>> /\ Last(pre).end >= new.end)
            /\ ~(pre # <<>> /\ next # <<>> /\ Head(next).start <= Last(pre).end)
  <2>1. PICK one : one = <<new>>
    OBVIOUS
  <2>2. PICK p : p = pre \o one
    OBVIOUS
  <2>3. PICK r : r = p \o next
    OBVIOUS
  <2>4. Insert(s, new) = r
    BY <1>13, <1>23, <2>1, <2>2, <2>3
  <2>5. /\ one \in Frames /\ Len(one) = 1 /\ one[1] = new /\ DOMAIN one = {1}
        /\ Sorted(one)
    BY <2>1 DEF Frames, Sorted
  <2>6. /\ p \in Frames /\ Sorted(p)
        /\ \A i \in DOMAIN p : \/ \E j \in DOMAIN pre : p[i] = pre[j]
                               \/ p[i] = new
        /\ \A j \in DOMAIN pre : \E i \in DOMAIN p : p[i] = pre[j]
        /\ \E i \in DOMAIN p : p[i] = new
    <3>1. AllBefore(pre, one)
      BY <1>20, <1>23, <2>5 DEF AllBefore
    <3>2. p \in Frames /\ Sorted(p) /\ Union(pre, one, p)
      BY <1>4, <2>2, <2>5, <3>1, Joined
    <3> QED BY <2>5, <3>2 DEF Union
  <2>7. r \in Frames /\ Sorted(r) /\ Union(p, next, r)
    <3>1. AllBefore(p, next)
      <4> SUFFICES ASSUME NEW i \in DOMAIN p, NEW j \in DOMAIN next
                   PROVE  Before(p[i], next[j])
        BY DEF AllBefore
      <4>1. p[i] = new \/ Before(p[i], new)
        BY <1>20, <1>23, <2>6
      <4>2. Before(new, next[j])
        BY <1>21
      <4>3. p[i] \in Frame /\ next[j] \in Frame
        BY <1>0, <1>18, <2>6, FrameFields
      <4> QED BY <4>1, <4>2, <4>3, BeforeTrans
    <3> QED BY <1>8, <2>3, <2>6, <3>1, Joined
  <2>8. /\ \A i \in DOMAIN r : r[i] = new \/ \E j \in DOMAIN s : r[i] = s[j]
        /\ \E i \in DOMAIN r : r[i] = new
    <3>1. \A i \in DOMAIN p : p[i] = new \/ \E j \in DOMAIN s : p[i] = s[j]
      BY <1>17, <2>6
    <3>2. \A i \in DOMAIN next : \E j \in DOMAIN s : next[i] = s[j]
      BY <1>18
    <3> QED BY <2>6, <2>7, <3>1, <3>2 DEF Union
  <2>9. ASSUME NEW j \in DOMAIN s
        PROVE  (\E i \in DOMAIN r : r[i] = s[j])
               \/ (s[j].start >= new.start /\ s[j].end <= new.end)
    <3>1. CASE \E k \in DOMAIN pre : pre[k] = s[j]
      BY <2>6, <2>7, <3>1 DEF Union
    <3>2. CASE \E k \in DOMAIN next : next[k] = s[j]
      BY <2>7, <3>2 DEF Union
    <3> QED BY <1>11, <1>16, <3>1, <3>2
  <2>10. ASSUME NEW b \in Int, In(new, b) PROVE Covers(r, b)
    BY <2>8, <2>10 DEF Covers
  <2>11. ASSUME NEW b \in Int, Covers(s, b) PROVE Covers(r, b)
    <3>1. PICK j \in DOMAIN s : In(s[j], b)
      BY <2>11 DEF Covers
    <3>2. CASE s[j].start >= new.start /\ s[j].end <= new.end
      BY <1>0, <1>n, <2>10, <3>1, <3>2, SMTT(30) DEF In
    <3>3. CASE \E i \in DOMAIN r : r[i] = s[j]
      BY <3>1, <3>3 DEF Covers
    <3> QED BY <2>9, <3>2, <3>3
  <2>12. ASSUME NEW b \in Int, Covers(r, b) PROVE Covers(s, b) \/ In(new, b)
    BY <2>8, <2>12 DEF Covers
  <2>13. ASSUME NEW e \in Int, e <= new.end \/ Reaches(s, e) PROVE Reaches(r, e)
    <3>1. CASE e <= new.end
      BY <1>n, <2>8, <3>1 DEF Reaches
    <3>2. CASE Reaches(s, e)
      <4>1. PICK j \in DOMAIN s : s[j].end >= e
        BY <3>2 DEF Reaches
      <4>2. CASE s[j].end <= new.end
        BY <1>0, <1>n, <3>1, <4>1, <4>2
      <4>3. CASE \E i \in DOMAIN r : r[i] = s[j]
        BY <4>1, <4>3 DEF Reaches
      <4> QED BY <2>9, <4>2, <4>3
    <3> QED BY <2>13, <3>1, <3>2
  <2>14. \A b \in Int : Covers(r, b) <=> Covers(s, b) \/ In(new, b)
    BY <2>10, <2>11, <2>12
  <2> QED BY <2>4, <2>7, <2>8, <2>13, <2>14 DEF Inserted
<1> QED BY <1>19, <1>22, <1>23

\* What ossl_sframe_list_drop_frames leaves of s.
Dropped(s, x, r) ==
    /\ r \in Frames /\ Sorted(r)
    /\ \A i \in DOMAIN r : r[i].end > x /\ \E j \in DOMAIN s : r[i] = s[j]
    /\ \A j \in DOMAIN s : s[j].end > x => \E i \in DOMAIN r : r[i] = s[j]

\* ossl_sframe_list_drop_frames keeps the frames that end after x, and only those.
LEMMA DropEffect ==
    ASSUME NEW s \in Frames, Sorted(s), NEW x \in Int
    PROVE  Dropped(s, x, From(s, FirstWhere(s, LAMBDA f : f.end > x)))
<1>0. /\ Len(s) \in Nat /\ DOMAIN s = 1..Len(s)
      /\ \A i \in 1..Len(s) : s[i] \in Frame /\ s[i].start \in Int /\ s[i].end \in Int
  BY FrameFields
<1>1. PICK at \in 1..(Len(s) + 1) :
         /\ at = FirstWhere(s, LAMBDA f : f.end > x)
         /\ at <= Len(s) => s[at].end > x
         /\ \A k \in 1..(at - 1) : s[k].end <= x
  BY FirstEnd
<1>2. PICK r : r = From(s, at)
  OBVIOUS
<1>3. /\ r \in Frames /\ Len(r) = Len(s) - at + 1
      /\ \A k \in 1..(Len(s) - at + 1) : r[k] = s[at + k - 1]
  BY <1>2, Cut
<1>4. DOMAIN r = 1..(Len(s) - at + 1) /\ Sorted(r)
  BY <1>2, <1>3, FrameFields, SortedPart
<1>5. ASSUME NEW k \in at..Len(s) PROVE k \in DOMAIN s /\ s[k].end > x
  <2>1. k \in DOMAIN s /\ at \in DOMAIN s /\ s[at].end > x
    BY <1>0, <1>1
  <2>2. CASE k = at
    BY <2>1, <2>2
  <2>3. CASE at < k
    <3>1. Before(s[at], s[k])
      BY <2>1, <2>3 DEF Sorted
    <3> QED BY <1>0, <2>1, <3>1 DEF Before
  <2> QED BY <2>2, <2>3
<1>6. ASSUME NEW i \in DOMAIN r
      PROVE  r[i].end > x /\ \E j \in DOMAIN s : r[i] = s[j]
  <2>1. at + i - 1 \in at..Len(s)
    BY <1>0, <1>4
  <2> QED BY <1>3, <1>4, <1>5, <2>1
<1>7. ASSUME NEW j \in DOMAIN s, s[j].end > x
      PROVE  \E i \in DOMAIN r : r[i] = s[j]
  <2>1. j >= at
    <3> SUFFICES ASSUME j < at PROVE FALSE
      BY <1>0
    <3>1. j \in 1..(at - 1)
      BY <1>0
    <3>2. s[j].end <= x /\ s[j].end \in Int
      BY <1>0, <1>1, <3>1
    <3> QED BY <1>7, <3>2
  <2>2. j - at + 1 \in DOMAIN r
    BY <1>0, <1>4, <2>1
  <2>3. r[j - at + 1] = s[at + (j - at + 1) - 1]
    BY <1>3, <1>4, <2>2
  <2>4. r[j - at + 1] = s[j]
    BY <1>0, <2>3
  <2> QED BY <2>2, <2>4
<1>8. Dropped(s, x, r)
  BY <1>3, <1>4, <1>6, <1>7 DEF Dropped
<1> QED BY <1>1, <1>2, <1>8

-----------------------------------------------------------------------------
(* The ring buffer *)

Cells == UNION {[0..(n - 1) -> Int \cup {Junk}] : n \in Nat}
Ring == [alloc : Nat, head : Nat, ctail : Nat, cells : Cells]

\* The ring buffer r holds bytes from o on, and no more than it has room for.
RingOK(r, o) ==
    /\ r \in Ring /\ o \in Nat
    /\ r.cells \in [0..(r.alloc - 1) -> Int \cup {Junk}]
    /\ r.ctail = o /\ o <= r.head /\ r.head <= o + r.alloc

\* Byte b is where it is looked for.
Right(r, b) == r.cells[b % r.alloc] = b

\* The counters of a ring buffer are natural numbers.
LEMMA RingFields ==
    ASSUME NEW r \in Ring
    PROVE  r.alloc \in Nat /\ r.head \in Nat /\ r.ctail \in Nat
BY DEF Ring

\* No two bytes in reach share a cell.
LEMMA OneCell ==
    ASSUME NEW n \in Nat, NEW o \in Nat, NEW a \in o..(o + n - 1), NEW b \in o..(o + n - 1)
    PROVE  n # 0 /\ a % n \in 0..(n - 1) /\ (a % n = b % n => a = b)
<1>1. n \in Nat \ {0} /\ a \in Nat /\ b \in Nat
  OBVIOUS
<1>2. a % n \in 0..(n - 1)
  BY <1>1, DivMod
<1>3. a < b /\ a % n = b % n => FALSE
  <2> HAVE a < b /\ a % n = b % n
  <2>1. b < a + n
    OBVIOUS
  <2> QED BY <1>1, <2>1, ModDistinct
<1>4. b < a /\ b % n = a % n => FALSE
  <2> HAVE b < a /\ b % n = a % n
  <2>1. a < b + n
    OBVIOUS
  <2> QED BY <1>1, <2>1, ModDistinct
<1> QED BY <1>1, <1>2, <1>3, <1>4

\* The cells of a ring buffer of any size are Cells.
LEMMA CellsIn ==
    ASSUME NEW n \in Nat, NEW c \in [0..(n - 1) -> Int \cup {Junk}]
    PROVE  c \in Cells
BY DEF Cells

\* ring_buf_write_at keeps what it does not overwrite, and writes what it should.
LEMMA WriteEffect ==
    ASSUME NEW r, NEW o, RingOK(r, o), NEW at \in Nat, NEW len \in Nat,
           o <= at, at + len <= o + r.alloc,
           NEW w, w = RingWriteAt(r, at, at, len)
    PROVE  /\ RingOK(w, o) /\ w.alloc = r.alloc
           /\ w.head >= r.head /\ w.head >= at + len
           /\ \A b \in o..(o + r.alloc - 1) : Right(r, b) => Right(w, b)
           /\ \A b \in at..(at + len - 1) : Right(w, b)
<1>1. /\ r \in Ring /\ o \in Nat /\ r.alloc \in Nat /\ r.head \in Nat /\ r.ctail = o
      /\ r.cells \in [0..(r.alloc - 1) -> Int \cup {Junk}]
      /\ o <= r.head /\ r.head <= o + r.alloc
  BY RingFields DEF RingOK
<1> DEFINE ks(c) == {k \in 0..(len - 1) : (at + k) % r.alloc = c}
           d == [c \in 0..(r.alloc - 1) |-> IF ks(c) = {} THEN r.cells[c]
                                            ELSE at + Max(ks(c))]
<1>2. ASSUME NEW c, ks(c) # {}
      PROVE  Max(ks(c)) \in 0..(len - 1) /\ (at + Max(ks(c))) % r.alloc = c
  <2>1. PICK T : T = ks(c)
    OBVIOUS
  <2>2. T \in SUBSET Nat /\ T # {} /\ \A n \in T : n <= len
    BY <1>2, <2>1
  <2>3. \E n \in T : \A m \in T : m <= n
    BY <2>2, NatMax
  <2>4. Max(T) \in T
    BY <2>2, <2>3 DEF Max
  <2> QED BY <2>1, <2>4
<1>3. d \in [0..(r.alloc - 1) -> Int \cup {Junk}]
  <2> SUFFICES ASSUME NEW c \in 0..(r.alloc - 1)
               PROVE  (IF ks(c) = {} THEN r.cells[c] ELSE at + Max(ks(c)))
                        \in Int \cup {Junk}
    OBVIOUS
  <2>1. CASE ks(c) = {}
    BY <1>1, <2>1
  <2>2. CASE ks(c) # {}
    <3> HIDE DEF ks
    <3>1. Max(ks(c)) \in 0..(len - 1)
      BY <1>2, <2>2
    <3> QED BY <2>2, <3>1
  <2> QED BY <2>1, <2>2
<1>4. w = [r EXCEPT !.cells = d, !.head = Larger(r.head, at + len)]
  <2>1. DOMAIN r.cells = 0..(r.alloc - 1)
    BY <1>1
  <2>2. w = [r EXCEPT !.cells = [c \in DOMAIN r.cells |-> IF ks(c) = {} THEN r.cells[c]
                                            ELSE at + Max(ks(c))],
                      !.head = Larger(r.head, at + len)]
    BY DEF RingWriteAt
  <2> HIDE DEF ks
  <2> QED BY <2>1, <2>2
<1> HIDE DEF d
<1>5. PICK h \in Nat : /\ h = Larger(r.head, at + len)
                       /\ h >= r.head /\ h >= at + len /\ h <= o + r.alloc
  BY <1>1 DEF Larger
<1>6. /\ w \in Ring /\ w.alloc = r.alloc /\ w.ctail = r.ctail /\ w.head = h
      /\ w.cells = d
  <2>1. d \in Cells
    BY <1>1, <1>3, CellsIn
  <2> QED BY <1>1, <1>4, <1>5, <2>1 DEF Ring
<1>7. RingOK(w, o)
  BY <1>1, <1>3, <1>5, <1>6 DEF RingOK
<1>8. ASSUME NEW b \in o..(o + r.alloc - 1)
      PROVE  /\ b % r.alloc \in 0..(r.alloc - 1)
             /\ ks(b % r.alloc) # {} => d[b % r.alloc] = b
             /\ ks(b % r.alloc) = {} => d[b % r.alloc] = r.cells[b % r.alloc]
  <2>1. PICK c : c = b % r.alloc
    OBVIOUS
  <2>2. c \in 0..(r.alloc - 1)
    BY <1>1, <2>1, OneCell
  <2>3. d[c] = IF ks(c) = {} THEN r.cells[c] ELSE at + Max(ks(c))
    <3> HIDE DEF ks
    <3> QED BY <2>2 DEF d
  <2>4. CASE ks(c) # {}
    <3>1. PICK m : m = Max(ks(c))
      OBVIOUS
    <3>2. m \in 0..(len - 1) /\ (at + m) % r.alloc = c
      BY <1>2, <2>4, <3>1
    <3>3. at + m \in o..(o + r.alloc - 1)
      BY <1>1, <3>2
    <3>4. at + m = b
      BY <1>1, <2>1, <3>2, <3>3, OneCell
    <3> HIDE DEF ks
    <3> QED BY <2>1, <2>2, <2>3, <2>4, <3>1, <3>4
  <2>5. CASE ks(c) = {}
    <3> HIDE DEF ks
    <3> QED BY <2>1, <2>2, <2>3, <2>5
  <2> QED BY <2>4, <2>5
<1>9. \A b \in o..(o + r.alloc - 1) : Right(r, b) => Right(w, b)
  <2> HIDE DEF ks
  <2> QED BY <1>6, <1>8 DEF Right
<1>10. ASSUME NEW b \in at..(at + len - 1) PROVE Right(w, b)
  <2>1. b \in o..(o + r.alloc - 1)
    BY <1>1
  <2>2. b - at \in 0..(len - 1) /\ at + (b - at) = b
    OBVIOUS
  <2>3. b - at \in ks(b % r.alloc)
    BY <2>2
  <2> HIDE DEF ks
  <2> QED BY <1>6, <1>8, <2>1, <2>3 DEF Right
<1> QED BY <1>5, <1>6, <1>7, <1>9, <1>10

\* ring_buf_resize keeps what is stored.
LEMMA ResizeEffect ==
    ASSUME NEW r, NEW o, RingOK(r, o), NEW n \in Nat, n # 0, r.head - o <= n,
           NEW w, w = RingResized(r, n)
    PROVE  /\ RingOK(w, o) /\ w.head = r.head
           /\ \A b \in o..(r.head - 1) : Right(r, b) => Right(w, b)
<1>1. /\ r \in Ring /\ o \in Nat /\ r.alloc \in Nat /\ r.head \in Nat /\ r.ctail = o
      /\ r.cells \in [0..(r.alloc - 1) -> Int \cup {Junk}]
      /\ o <= r.head /\ r.head <= o + r.alloc
  BY RingFields DEF RingOK
<1> DEFINE bs(c) == {b \in o..(r.head - 1) : b % n = c}
           d == [c \in 0..(n - 1) |-> IF bs(c) = {} THEN Junk
                                      ELSE r.cells[Max(bs(c)) % r.alloc]]
<1>2. ASSUME NEW c, bs(c) # {}
      PROVE  Max(bs(c)) \in o..(r.head - 1) /\ Max(bs(c)) % n = c
  <2>1. PICK T : T = bs(c)
    OBVIOUS
  <2>2. T \in SUBSET Nat /\ T # {} /\ \A k \in T : k <= r.head
    <3>1. T \in SUBSET (o..(r.head - 1)) /\ T # {}
      BY <1>2, <2>1
    <3> QED BY <1>1, <3>1
  <2>3. \E k \in T : \A m \in T : m <= k
    BY <1>1, <2>2, NatMax
  <2>4. Max(T) \in T
    BY <2>2, <2>3 DEF Max
  <2> QED BY <2>1, <2>4
<1>3. d \in [0..(n - 1) -> Int \cup {Junk}]
  <2> SUFFICES ASSUME NEW c \in 0..(n - 1)
               PROVE  (IF bs(c) = {} THEN Junk ELSE r.cells[Max(bs(c)) % r.alloc])
                        \in Int \cup {Junk}
    OBVIOUS
  <2> HIDE DEF bs
  <2>1. CASE bs(c) = {}
    BY <2>1
  <2>2. CASE bs(c) # {}
    <3>1. PICK m : m = Max(bs(c))
      OBVIOUS
    <3>2. m \in o..(o + r.alloc - 1)
      BY <1>1, <1>2, <2>2, <3>1, SMTT(30)
    <3>3. m % r.alloc \in 0..(r.alloc - 1)
      BY <1>1, <3>2, OneCell
    <3>4. r.cells[m % r.alloc] \in Int \cup {Junk}
      BY <1>1, <3>3
    <3> QED BY <2>2, <3>1, <3>4
  <2> QED BY <2>1, <2>2
<1>4. w = [r EXCEPT !.alloc = n, !.cells = d]
  BY <1>1 DEF RingResized
<1> HIDE DEF d
<1>5. /\ w \in Ring /\ w.alloc = n /\ w.ctail = r.ctail /\ w.head = r.head
      /\ w.cells = d
  <2>1. d \in Cells
    BY <1>3, CellsIn
  <2> QED BY <1>1, <1>4, <2>1 DEF Ring
<1>6. RingOK(w, o)
  BY <1>1, <1>3, <1>5 DEF RingOK
<1>7. ASSUME NEW b \in o..(r.head - 1), Right(r, b) PROVE Right(w, b)
  <2>1. PICK c : c = b % n
    OBVIOUS
  <2>2. b \in o..(o + n - 1)
    BY <1>1
  <2>3. c \in 0..(n - 1)
    BY <1>1, <2>1, <2>2, OneCell
  <2>4. b \in bs(c)
    BY <2>1
  <2>5. PICK m : m = Max(bs(c))
    OBVIOUS
  <2>6. m \in o..(r.head - 1) /\ m % n = c
    BY <1>2, <2>4, <2>5
  <2>7. m \in o..(o + n - 1)
    BY <1>1, <2>6
  <2>8. m = b
    BY <1>1, <2>1, <2>2, <2>6, <2>7, OneCell
  <2> HIDE DEF bs
  <2>9. d[c] = r.cells[b % r.alloc]
    BY <2>3, <2>4, <2>5, <2>8 DEF d
  <2> QED BY <1>5, <1>7, <2>1, <2>9 DEF Right
<1> QED BY <1>5, <1>6, <1>7

\* ring_buf_cpop_range moves the tail, and the head if it has to.
LEMMA CullEffect ==
    ASSUME NEW r, NEW o, RingOK(r, o), NEW x \in Nat, o <= x,
           NEW w, w = RingCull(r, x)
    PROVE  RingOK(w, x) /\ w.head >= r.head /\ w.alloc = r.alloc /\ w.cells = r.cells
<1>1. /\ r \in Ring /\ r.alloc \in Nat /\ r.head \in Nat /\ r.ctail = o /\ o \in Nat
      /\ r.cells \in [0..(r.alloc - 1) -> Int \cup {Junk}]
      /\ o <= r.head /\ r.head <= o + r.alloc
  BY RingFields DEF RingOK
<1>2. PICK h \in Nat : h = Larger(r.head, x) /\ h >= r.head /\ h >= x /\ h <= x + r.alloc
  BY <1>1 DEF Larger
<1>3. w = [r EXCEPT !.ctail = x, !.head = h]
  BY <1>2 DEF RingCull
<1>4. /\ w \in Ring /\ w.ctail = x /\ w.head = h /\ w.alloc = r.alloc
      /\ w.cells = r.cells
  BY <1>1, <1>3 DEF Ring
<1> QED BY <1>1, <1>2, <1>4 DEF RingOK

-----------------------------------------------------------------------------
(* Frames and ring buffer together *)

\* A frame of the list when the reader is at offset o: it has bytes to read, and
\* they are in its packet or in the ring buffer.
GoodFrame(f, r, o) ==
    /\ o < f.end /\ f.start <= f.end
    /\ f.data = NoData \/ f.data = f.start
    /\ f.data = NoData =>
         f.end <= r.head /\ \A b \in Int : o <= b /\ In(f, b) => Right(r, b)

Good(s, r, o) == \A i \in DOMAIN s : GoodFrame(s[i], r, o)

\* A frame stays good while its bytes stay in the ring buffer.
LEMMA GoodKept ==
    ASSUME NEW f \in Frame, NEW r, NEW w, NEW o \in Nat, NEW x \in Nat, o <= x, x < f.end,
           r.head \in Nat, w.head \in Nat, r.head <= w.head,
           \A b \in x..(r.head - 1) : Right(r, b) => Right(w, b),
           GoodFrame(f, r, o)
    PROVE  GoodFrame(f, w, x)
<1>1. f.start \in Int /\ f.end \in Int
  BY FrameBounds
<1>2. ASSUME f.data = NoData
      PROVE  f.end <= w.head /\ \A b \in Int : x <= b /\ In(f, b) => Right(w, b)
  <2>1. f.end <= r.head /\ \A b \in Int : o <= b /\ In(f, b) => Right(r, b)
    BY <1>2 DEF GoodFrame
  <2>2. ASSUME NEW b \in Int, x <= b, In(f, b) PROVE Right(w, b)
    <3>1. b \in x..(r.head - 1) /\ o <= b
      BY <1>1, <2>1, <2>2 DEF In
    <3> QED BY <2>1, <2>2, <3>1
  <2> QED BY <1>1, <2>1, <2>2
<1> QED BY <1>2 DEF GoodFrame

-----------------------------------------------------------------------------
(* Moving frames into the ring buffer *)

\* The fold of MoveToRbuf, step by step.
LEMMA MoveFold ==
    ASSUME NEW s \in Frames, NEW base
    PROVE  \E g : /\ g[0] = base
                  /\ \A k \in 1..Len(s) : g[k] = MoveFrame(g[k - 1], s[k])
                  /\ FoldLeft(MoveFrame, base, s) = g[Len(s)]
<1>0. Len(s) \in Nat /\ DOMAIN s = 1..Len(s)
  BY FrameFields
<1> DEFINE S == DOMAIN s
           Body(g, t) == IF t = {} THEN base ELSE MoveFrame(g[t \ {Max(t)}], s[Max(t)])
           Eq(g) == g = [t \in SUBSET S |-> Body(g, t)]
           iter == CHOOSE g : Eq(g)
           Low(n) == {t \in SUBSET S : \A x \in t : x <= n}
           OK(g, n) == g \in [SUBSET S -> {g[t] : t \in SUBSET S}]
                       /\ \A t \in Low(n) : g[t] = Body(g, t)
           Bad == {n \in Nat : ~ \E g : OK(g, n)}
<1>1. FoldLeft(MoveFrame, base, s) = iter[S]
  BY DEF FoldLeft, MapThenFoldSet
<1>2. ASSUME NEW t \in SUBSET S, t # {}
      PROVE  /\ Max(t) \in t /\ \A x \in t : x <= Max(t)
             /\ \A x \in t \ {Max(t)} : x <= Max(t) - 1
  <2>1. t \in SUBSET Nat /\ \A n \in t : n <= Len(s)
    BY <1>0
  <2>2. \E n \in t : \A m \in t : m <= n
    BY <1>0, <1>2, <2>1, NatMax
  <2>3. Max(t) \in t /\ \A x \in t : x <= Max(t)
    BY <2>1, <2>2 DEF Max
  <2> QED BY <2>1, <2>3
<1> HIDE DEF S
<1>3. Bad = {}
  <2> SUFFICES ASSUME Bad # {} PROVE FALSE
    OBVIOUS
  <2>1. Bad \in SUBSET Nat
    OBVIOUS
  <2>2. PICK n \in Bad : \A m \in Bad : n <= m
    <3> HIDE DEF Bad
    <3> QED BY <2>1, NatMin
  <2>3. n # 0
    <3> DEFINE z == [t \in SUBSET S |-> base]
    <3>1. \A t \in Low(0) : t = {}
      <4> SUFFICES ASSUME NEW t \in Low(0), t # {} PROVE FALSE
        OBVIOUS
      <4>1. PICK x \in t : x <= 0
        OBVIOUS
      <4>2. x \in 1..Len(s)
        BY <1>0 DEF S
      <4> QED BY <4>1, <4>2
    <3>2. OK(z, 0)
      BY <3>1
    <3>3. 0 \notin Bad
      <4> HIDE DEF z, OK
      <4> QED BY <3>2
    <3> QED
      <4> HIDE DEF Bad
      <4> QED BY <3>3
  <2>4. n - 1 \in Nat /\ n - 1 \notin Bad
    <3> HIDE DEF Bad
    <3> QED BY <2>1, <2>2, <2>3
  <2>5. PICK g : OK(g, n - 1)
    <3> HIDE DEF OK
    <3> QED BY <2>4
  <2> DEFINE h == [t \in SUBSET S |-> Body(g, t)]
  <2>6. ASSUME NEW t \in Low(n) PROVE h[t] = Body(h, t)
    <3>1. CASE t = {}
      BY <3>1
    <3>2. CASE t # {}
      <4>1. t \ {Max(t)} \in Low(n - 1)
        <5>1. \A x \in t : x \in Nat /\ x <= n
          BY <1>0 DEF S
        <5>2. \A x \in t \ {Max(t)} : x <= Max(t) - 1 /\ Max(t) \in t
          BY <1>2, <3>2
        <5>3. \A x \in t \ {Max(t)} : x <= n - 1
          BY <2>4, <5>1, <5>2
        <5> QED BY <5>3
      <4>2. g[t \ {Max(t)}] = Body(g, t \ {Max(t)})
        BY <2>5, <4>1
      <4>3. t \ {Max(t)} \in SUBSET S
        OBVIOUS
      <4>4. h[t \ {Max(t)}] = Body(g, t \ {Max(t)})
        <5> HIDE DEF Body
        <5> QED BY <4>3
      <4>5. h[t \ {Max(t)}] = g[t \ {Max(t)}]
        BY <4>2, <4>4
      <4>6. h[t] = Body(g, t)
        <5> HIDE DEF Body
        <5> QED OBVIOUS
      <4> HIDE DEF h
      <4> QED BY <3>2, <4>5, <4>6
    <3> QED BY <3>1, <3>2
  <2>7. h \in [SUBSET S -> {h[t] : t \in SUBSET S}]
    <3> HIDE DEF Body
    <3> QED OBVIOUS
  <2>8. OK(h, n)
    <3> HIDE DEF h, Body
    <3> QED BY <2>6, <2>7
  <2>9. n \notin Bad
    <3> HIDE DEF h, OK
    <3> QED BY <2>8
  <2> HIDE DEF Bad
  <2> QED BY <2>2, <2>9
<1>4. PICK g : OK(g, Len(s))
  <2> HIDE DEF OK
  <2> QED BY <1>0, <1>3
<1>5. SUBSET S = Low(Len(s))
  BY <1>0 DEF S
<1>6. Eq(g)
  <2> HIDE DEF Body
  <2> QED BY <1>4, <1>5
<1>7. Eq(iter)
  <2> HIDE DEF Eq
  <2> QED BY <1>6
<1>8. \A t \in SUBSET S : iter[t] = Body(iter, t)
  <2> HIDE DEF Body, iter
  <2> QED BY <1>7
<1> DEFINE a == [k \in 0..Len(s) |-> iter[1..k]]
<1> HIDE DEF iter
<1>9. a[0] = base
  <2>1. 1..0 = {} /\ {} \in SUBSET S
    OBVIOUS
  <2>2. iter[{}] = base
    BY <1>8, <2>1
  <2>3. a[0] = iter[1..0]
    BY <1>0
  <2> QED BY <2>1, <2>2, <2>3
<1>10. ASSUME NEW k \in 1..Len(s) PROVE a[k] = MoveFrame(a[k - 1], s[k])
  <2>1. PICK t : t = 1..k
    OBVIOUS
  <2>2. t \in SUBSET S /\ t # {} /\ k \in t
    BY <1>0, <2>1 DEF S
  <2>3. Max(t) = k
    <3>1. Max(t) \in t /\ \A x \in t : x <= Max(t)
      BY <1>2, <2>2
    <3> QED BY <2>1, <2>2, <3>1
  <2>4. t \ {k} = 1..(k - 1)
    BY <2>1
  <2>5. iter[t] = MoveFrame(iter[t \ {k}], s[k])
    BY <1>8, <2>2, <2>3
  <2>6. a[k] = iter[t] /\ a[k - 1] = iter[t \ {k}]
    <3>1. k \in 0..Len(s) /\ k - 1 \in 0..Len(s)
      BY <1>0
    <3>2. a[k] = iter[1..k] /\ a[k - 1] = iter[1..(k - 1)]
      BY <3>1
    <3> HIDE DEF a
    <3> QED BY <2>1, <2>4, <3>2
  <2> HIDE DEF a
  <2> QED BY <2>5, <2>6
<1>11. FoldLeft(MoveFrame, base, s) = a[Len(s)]
  <2>1. S = 1..Len(s)
    BY <1>0 DEF S
  <2>2. a[Len(s)] = iter[1..Len(s)]
    BY <1>0
  <2> QED BY <1>1, <2>1, <2>2
<1> HIDE DEF a
<1> QED BY <1>9, <1>10, <1>11

AllBeforeOne(s, f) == \A i \in DOMAIN s : Before(s[i], f)

OneMore(s, f, u) ==
    /\ u \in Frames /\ Sorted(u) /\ u # <<>> /\ Last(u) = f
    /\ \A i \in DOMAIN u : u[i] = f \/ \E j \in DOMAIN s : u[i] = s[j]
    /\ \A j \in DOMAIN s : \E i \in DOMAIN u : u[i] = s[j]
    /\ \E i \in DOMAIN u : u[i] = f

\* A list with one more frame at the end is sorted.
LEMMA Appended ==
    ASSUME NEW s \in Frames, Sorted(s), NEW f \in Frame, AllBeforeOne(s, f)
    PROVE  OneMore(s, f, Append(s, f))
<1>0. PICK u : u = Append(s, f)
  OBVIOUS
<1>1. /\ u \in Frames /\ u # <<>> /\ Len(u) = Len(s) + 1
      /\ \A i \in 1..Len(s) : u[i] = s[i]
      /\ u[Len(s) + 1] = f
  BY <1>0, AppendProperties DEF Frames
<1>2. /\ Len(s) \in Nat /\ DOMAIN s = 1..Len(s) /\ DOMAIN u = 1..(Len(s) + 1)
  BY <1>1, FrameFields
<1>3. Last(u) = f
  BY <1>1 DEF Last
<1>4. \A i \in DOMAIN u : (i \in DOMAIN s /\ u[i] = s[i]) \/ (i = Len(s) + 1 /\ u[i] = f)
  BY <1>1, <1>2
<1>5. Sorted(u)
  <2> SUFFICES ASSUME NEW i \in DOMAIN u, NEW j \in DOMAIN u, i < j
               PROVE  Before(u[i], u[j])
    BY DEF Sorted
  <2>1. i \in DOMAIN s /\ u[i] = s[i]
    BY <1>2, <1>4
  <2> QED BY <1>4, <2>1 DEF Sorted, AllBeforeOne
<1>6. \A j \in DOMAIN s : j \in DOMAIN u /\ u[j] = s[j]
  BY <1>1, <1>2
<1>7. Len(s) + 1 \in DOMAIN u
  BY <1>2
<1> QED BY <1>0, <1>1, <1>3, <1>4, <1>5, <1>6, <1>7 DEF OneMore

\* The last frame is extended.
Longer(s, e, u) ==
    /\ u \in Frames /\ Sorted(u) /\ u # <<>>
    /\ DOMAIN u = DOMAIN s /\ Len(s) \in DOMAIN s
    /\ Last(u) = [Last(s) EXCEPT !.end = e] /\ u[Len(s)] = Last(u)
    /\ Last(u) \in Frame /\ Last(s) \in Frame /\ s[Len(s)] = Last(s)
    /\ \A i \in DOMAIN s : i # Len(s) => u[i] = s[i]

\* A list whose last frame has been made longer is sorted.
LEMMA Extended ==
    ASSUME NEW s \in Frames, Sorted(s), s # <<>>, NEW e \in 0..Size, Last(s).end < e
    PROVE  Longer(s, e, [s EXCEPT ![Len(s)].end = e])
<1>0. PICK u : u = [s EXCEPT ![Len(s)].end = e]
  OBVIOUS
<1>1. /\ Len(s) \in Nat /\ DOMAIN s = 1..Len(s)
      /\ \A i \in DOMAIN s : s[i] \in Frame
  BY FrameFields
<1>2. Len(s) \in DOMAIN s
  BY <1>1, EmptySeq DEF Frames
<1>3. PICK n : n = Len(s)
  OBVIOUS
<1>4. PICK l : l = s[n]
  OBVIOUS
<1>5. PICK g : g = [l EXCEPT !.end = e]
  OBVIOUS
<1>6. l \in Frame /\ g \in Frame /\ g.start = l.start /\ g.end = e
  BY <1>1, <1>2, <1>3, <1>4, <1>5 DEF Frame
<1>7. u = [s EXCEPT ![n] = g]
  BY <1>0, <1>3, <1>4, <1>5
<1>8. /\ u \in Frames /\ Len(u) = n /\ DOMAIN u = DOMAIN s
      /\ u[n] = g /\ \A i \in DOMAIN s : i # n => u[i] = s[i]
  <2>1. s \in [1..n -> Frame] /\ n \in Nat /\ n \in 1..n
    BY <1>1, <1>2, <1>3, LenProperties DEF Frames
  <2>2. u \in [1..n -> Frame]
    BY <1>6, <1>7, <2>1
  <2>3. u \in Seq(Frame) /\ Len(u) = n
    BY <2>1, <2>2
  <2> QED BY <1>1, <1>3, <1>7, <2>1, <2>2, <2>3 DEF Frames
<1>9. Last(u) = g /\ Last(s) = l
  BY <1>3, <1>4, <1>8 DEF Last
<1>10. Sorted(u)
  <2> SUFFICES ASSUME NEW i \in DOMAIN u, NEW j \in DOMAIN u, i < j
               PROVE  Before(u[i], u[j])
    BY DEF Sorted
  <2>1. i # n /\ u[i] = s[i] /\ Before(s[i], s[j])
    BY <1>1, <1>3, <1>8 DEF Sorted
  <2>2. CASE j # n
    BY <1>8, <2>1, <2>2
  <2>3. CASE j = n
    <3>1. Before(s[i], l) /\ u[j] = g /\ s[i] \in Frame
      BY <1>1, <1>4, <1>8, <2>1, <2>3
    <3>2. Before(s[i], g)
      BY <1>6, <1>9, <3>1, FrameBounds DEF Before
    <3> QED BY <2>1, <3>1, <3>2
  <2> QED BY <2>2, <2>3
<1>11. u # <<>>
  <2>1. Len(u) # 0
    BY <1>1, <1>2, <1>3, <1>8
  <2> QED BY <2>1, EmptySeq
<1>12. Longer(s, e, u)
  BY <1>1, <1>2, <1>3, <1>4, <1>5, <1>6, <1>8, <1>9, <1>10, <1>11 DEF Longer
<1> QED BY <1>0, <1>12

MoveRec == [fits : BOOLEAN, limit : Nat, rbuf : Ring, frames : Frames]

\* The ring buffer w has all that r had, and perhaps more.
Grown(r, w, o) ==
    /\ RingOK(w, o) /\ w.alloc = r.alloc /\ r.head <= w.head
    /\ \A b \in o..(o + r.alloc - 1) : Right(r, b) => Right(w, b)

\* The frames fr stand for the first k of s.
StandsFor(fr, s, k) ==
    /\ fr \in Frames /\ Sorted(fr)
    /\ \A i \in DOMAIN fr : \E j, l \in 1..k : /\ fr[i].start = s[j].start
                                               /\ fr[i].end = s[l].end
    /\ \A b \in Int : Covers(fr, b) <=> \E j \in 1..k : In(s[j], b)
    /\ \A j \in 1..k : Reaches(fr, s[j].end)

\* What is true of the loop of ossl_sframe_list_move_data after k frames.
Moved(m, s, k, r, o) ==
    /\ m \in MoveRec
    /\ Grown(r, m.rbuf, o)
    /\ StandsFor(m.frames, s, k) /\ Good(m.frames, m.rbuf, o)
    /\ m.fits =>
        /\ k = 0 => m.limit = o /\ m.frames = <<>>
        /\ k # 0 => /\ m.frames # <<>>
                    /\ Last(m.frames).end = s[k].end /\ m.limit = s[k].end
        /\ \A i \in DOMAIN m.frames : m.frames[i].data = NoData

\* A ring buffer that has grown twice has grown.
LEMMA GrownTrans ==
    ASSUME NEW r, NEW v, NEW w, NEW o, RingOK(r, o), Grown(r, v, o), Grown(v, w, o)
    PROVE  Grown(r, w, o)
<1>1. r.head \in Nat /\ v.head \in Nat /\ w.head \in Nat
  BY RingFields DEF Grown, RingOK
<1> QED BY <1>1 DEF Grown

\* A frame stays good while the ring buffer grows.
LEMMA GoodGrown ==
    ASSUME NEW f \in Frame, NEW r, NEW w, NEW o, RingOK(r, o), Grown(r, w, o),
           GoodFrame(f, r, o)
    PROVE  GoodFrame(f, w, o)
<1>1. /\ r.head \in Nat /\ w.head \in Nat /\ r.alloc \in Nat /\ o \in Nat
      /\ r.head <= o + r.alloc /\ r.head <= w.head
  BY RingFields DEF Grown, RingOK
<1>2. \A b \in o..(r.head - 1) : b \in o..(o + r.alloc - 1)
  BY <1>1
<1>3. \A b \in o..(r.head - 1) : Right(r, b) => Right(w, b)
  BY <1>2 DEF Grown
<1>4. o < f.end /\ o <= o
  BY <1>1 DEF GoodFrame
<1> QED BY <1>1, <1>3, <1>4, GoodKept

\* The bounds of the frames that stand for the first k - 1, and the k-th.
LEMMA StandsBefore ==
    ASSUME NEW s \in Frames, Sorted(s), NEW k \in 1..Len(s), NEW fr,
           StandsFor(fr, s, k - 1), NEW f \in Frame,
           f.start = s[k].start, f.end = s[k].end
    PROVE  \A i \in DOMAIN fr : Before(fr[i], f)
<1>1. Len(s) \in Nat /\ DOMAIN s = 1..Len(s)
  BY FrameFields
<1> TAKE i \in DOMAIN fr
<1>2. PICK j \in 1..(k - 1), l \in 1..(k - 1) :
        fr[i].start = s[j].start /\ fr[i].end = s[l].end
  BY DEF StandsFor
<1>3. /\ j \in DOMAIN s /\ l \in DOMAIN s /\ k \in DOMAIN s /\ j < k /\ l < k
  BY <1>1
<1>4. Before(s[j], s[k]) /\ Before(s[l], s[k])
  BY <1>3 DEF Sorted
<1> QED BY <1>2, <1>4 DEF Before

\* u is made of fr and a last frame f.
Ending(fr, f, u) ==
    /\ u # <<>> /\ Last(u) = f
    /\ \A i \in DOMAIN u : u[i] = f \/ \E j \in DOMAIN fr : u[i] = fr[j]

\* A frame that does not touch the one before gets a place of its own.
LEMMA StandsAppend ==
    ASSUME NEW s \in Frames, Sorted(s), NEW k \in 1..Len(s), NEW fr,
           StandsFor(fr, s, k - 1), NEW f \in Frame,
           f.start = s[k].start, f.end = s[k].end
    PROVE  StandsFor(Append(fr, f), s, k) /\ Ending(fr, f, Append(fr, f))
<1>0. PICK u : u = Append(fr, f)
  OBVIOUS
<1>1. /\ u \in Frames /\ Sorted(u) /\ u # <<>> /\ Last(u) = f
      /\ \A i \in DOMAIN u : u[i] = f \/ \E j \in DOMAIN fr : u[i] = fr[j]
      /\ \A j \in DOMAIN fr : \E i \in DOMAIN u : u[i] = fr[j]
      /\ \E i \in DOMAIN u : u[i] = f
  <2>1. fr \in Frames /\ Sorted(fr)
    BY DEF StandsFor
  <2>2. \A i \in DOMAIN fr : Before(fr[i], f)
    BY StandsBefore
  <2>3. OneMore(fr, f, u)
    BY <1>0, <2>1, <2>2, Appended DEF AllBeforeOne
  <2> QED BY <2>3 DEF OneMore
<1>2. k \in Nat /\ \A j \in 1..k : j \in 1..(k - 1) \/ j = k
  BY FrameFields
<1>3. \A j \in 1..(k - 1) : j \in 1..k
  BY <1>2
<1>4. k \in 1..k
  BY <1>2
<1>5. ASSUME NEW i \in DOMAIN u
      PROVE  \E j, l \in 1..k : u[i].start = s[j].start /\ u[i].end = s[l].end
  <2>1. CASE u[i] = f
    BY <1>4, <2>1
  <2>2. CASE \E j \in DOMAIN fr : u[i] = fr[j]
    <3>1. PICK n \in DOMAIN fr : u[i] = fr[n]
      BY <2>2
    <3>2. PICK j \in 1..(k - 1), l \in 1..(k - 1) :
             fr[n].start = s[j].start /\ fr[n].end = s[l].end
      BY DEF StandsFor
    <3> QED BY <1>3, <3>1, <3>2
  <2> QED BY <1>1, <2>1, <2>2
<1>6. \A b : In(f, b) <=> In(s[k], b)
  BY DEF In
<1>7. ASSUME NEW b \in Int
      PROVE  Covers(u, b) <=> \E j \in 1..k : In(s[j], b)
  <2>1. Covers(fr, b) <=> \E j \in 1..(k - 1) : In(s[j], b)
    BY DEF StandsFor
  <2>2. Covers(u, b) <=> Covers(fr, b) \/ In(f, b)
    BY <1>1 DEF Covers
  <2> QED BY <1>2, <1>3, <1>4, <1>6, <2>1, <2>2
<1>8. ASSUME NEW j \in 1..k PROVE Reaches(u, s[j].end)
  <2>1. CASE j = k
    <3>1. f.end >= s[j].end
      BY <2>1, FrameBounds
    <3> QED BY <1>1, <3>1 DEF Reaches
  <2>2. CASE j \in 1..(k - 1)
    <3>1. Reaches(fr, s[j].end)
      BY <2>2 DEF StandsFor
    <3> QED BY <1>1, <3>1 DEF Reaches
  <2> QED BY <1>2, <2>1, <2>2
<1>9. StandsFor(u, s, k) /\ Ending(fr, f, u)
  BY <1>1, <1>5, <1>7, <1>8 DEF StandsFor, Ending
<1> QED BY <1>0, <1>9

\* A frame that touches the one before is merged with it.
LEMMA StandsMerge ==
    ASSUME NEW s \in Frames, Sorted(s), NEW k \in 1..Len(s), NEW fr,
           StandsFor(fr, s, k - 1), fr # <<>>, s[k].start <= Last(fr).end
    PROVE  /\ StandsFor([fr EXCEPT ![Len(fr)].end = s[k].end], s, k)
           /\ Ending(fr, [Last(fr) EXCEPT !.end = s[k].end],
                     [fr EXCEPT ![Len(fr)].end = s[k].end])
<1>0. PICK u : u = [fr EXCEPT ![Len(fr)].end = s[k].end]
  OBVIOUS
<1>1. fr \in Frames /\ Sorted(fr) /\ s[k] \in Frame /\ s[k].end \in 0..Size
  BY FrameFields DEF StandsFor
<1>2. \A i \in DOMAIN fr : Before(fr[i], s[k])
  BY <1>1, StandsBefore
<1>3. Len(fr) \in DOMAIN fr /\ Last(fr) = fr[Len(fr)]
  BY <1>1, FrameFields, EmptySeq DEF Frames, Last
<1>4. Before(Last(fr), s[k])
  BY <1>2, <1>3
<1>5. /\ u \in Frames /\ Sorted(u) /\ u # <<>>
      /\ DOMAIN u = DOMAIN fr
      /\ Last(u) = [Last(fr) EXCEPT !.end = s[k].end] /\ u[Len(fr)] = Last(u)
      /\ Last(u) \in Frame /\ Last(fr) \in Frame
      /\ \A i \in DOMAIN fr : i # Len(fr) => u[i] = fr[i]
  <2>1. Last(fr).end < s[k].end
    BY <1>4 DEF Before
  <2>2. fr \in Frames /\ Sorted(fr) /\ fr # <<>> /\ s[k].end \in 0..Size
        /\ u = [fr EXCEPT ![Len(fr)].end = s[k].end]
    BY <1>0, <1>1
  <2>3. Longer(fr, s[k].end, u)
    BY <2>1, <2>2, Extended
  <2> QED BY <2>3 DEF Longer
<1>6. PICK f : f = Last(fr)
  OBVIOUS
<1>7. PICK g : g = Last(u)
  OBVIOUS
<1>8. /\ f \in Frame /\ g \in Frame /\ g.start = f.start /\ g.end = s[k].end
      /\ s[k].start <= f.end /\ f.start <= s[k].start /\ f.end < s[k].end
      /\ f.start \in Int /\ f.end \in Int /\ s[k].start \in Int /\ s[k].end \in Int
  BY <1>1, <1>4, <1>5, <1>6, <1>7, FrameBounds DEF Before, Frame
<1>9. k \in Nat /\ k \in 1..k /\ \A j \in 1..(k - 1) : j \in 1..k
  BY FrameFields
<1>10. \A j \in 1..k : j \in 1..(k - 1) \/ j = k
  BY <1>9
<1>11. ASSUME NEW b \in Int PROVE In(g, b) <=> In(f, b) \/ In(s[k], b)
  BY <1>8 DEF In
<1>12. \A i \in DOMAIN fr : (u[i] = g /\ fr[i] = f) \/ u[i] = fr[i]
  BY <1>3, <1>5, <1>6, <1>7
<1>13. ASSUME NEW i \in DOMAIN u
       PROVE  \E j, l \in 1..k : u[i].start = s[j].start /\ u[i].end = s[l].end
  <2>1. PICK j \in 1..(k - 1), l \in 1..(k - 1) :
             fr[i].start = s[j].start /\ fr[i].end = s[l].end
    BY <1>5 DEF StandsFor
  <2>2. CASE u[i] = fr[i]
    BY <1>9, <2>1, <2>2
  <2>3. CASE u[i] = g /\ fr[i] = f
    BY <1>8, <1>9, <2>1, <2>3
  <2> QED BY <1>5, <1>12, <2>2, <2>3
<1>14. ASSUME NEW b \in Int
       PROVE  Covers(u, b) <=> \E j \in 1..k : In(s[j], b)
  <2>1. Covers(fr, b) <=> \E j \in 1..(k - 1) : In(s[j], b)
    BY DEF StandsFor
  <2>2. Covers(u, b) <=> Covers(fr, b) \/ In(s[k], b)
    <3>1. ASSUME Covers(u, b) PROVE Covers(fr, b) \/ In(s[k], b)
      <4>1. PICK i \in DOMAIN fr : In(u[i], b)
        BY <1>5, <3>1 DEF Covers
      <4> QED BY <1>11, <1>12, <4>1 DEF Covers
    <3>2. ASSUME Covers(fr, b) PROVE Covers(u, b)
      <4>1. PICK i \in DOMAIN fr : In(fr[i], b)
        BY <3>2 DEF Covers
      <4>2. In(u[i], b)
        BY <1>11, <1>12, <4>1
      <4> QED BY <1>5, <4>2 DEF Covers
    <3>3. ASSUME In(s[k], b) PROVE Covers(u, b)
      BY <1>3, <1>5, <1>7, <1>11, <3>3 DEF Covers
    <3> QED BY <3>1, <3>2, <3>3
  <2> QED BY <1>9, <1>10, <2>1, <2>2
<1>15. ASSUME NEW j \in 1..k PROVE Reaches(u, s[j].end)
  <2>1. CASE j = k
    <3>1. g.end >= s[j].end
      BY <1>8, <2>1
    <3> QED BY <1>3, <1>5, <1>7, <3>1 DEF Reaches
  <2>2. CASE j \in 1..(k - 1)
    <3>1. PICK i \in DOMAIN fr : fr[i].end >= s[j].end
      BY <2>2 DEF StandsFor, Reaches
    <3>2. s[j].end \in Int
      BY FrameFields
    <3>3. u[i].end >= s[j].end
      <4>1. CASE u[i] = fr[i]
        BY <3>1, <4>1
      <4>2. CASE u[i] = g /\ fr[i] = f
        BY <1>8, <3>1, <3>2, <4>2
      <4> QED BY <1>12, <4>1, <4>2
    <3> QED BY <1>5, <3>3 DEF Reaches
  <2> QED BY <1>10, <2>1, <2>2
<1>16. StandsFor(u, s, k)
  BY <1>5, <1>13, <1>14, <1>15 DEF StandsFor
<1>17. Ending(fr, [Last(fr) EXCEPT !.end = s[k].end], u)
  BY <1>5, <1>7, <1>12 DEF Ending
<1> QED BY <1>0, <1>16, <1>17

\* The fields of the state of the loop.
LEMMA MoveFields ==
    ASSUME NEW m \in MoveRec
    PROVE  /\ m.fits \in BOOLEAN /\ m.limit \in Nat /\ m.rbuf \in Ring /\ m.frames \in Frames
BY DEF MoveRec

\* One iteration of ossl_sframe_list_move_data, for a frame that is moved, a frame
\* that is in the ring buffer already and one that does not fit.
LEMMA MoveStep ==
    ASSUME NEW s \in Frames, Sorted(s), NEW r, NEW o, RingOK(r, o), Good(s, r, o),
           NEW k \in 1..Len(s), NEW m, Moved(m, s, k - 1, r, o)
    PROVE  Moved(MoveFrame(m, s[k]), s, k, r, o)
<1>1. PICK f : f = s[k]
  OBVIOUS
<1>2. /\ f \in Frame /\ f.start \in Nat /\ f.end \in Nat /\ f.data \in Int
      /\ k \in DOMAIN s /\ Len(s) \in Nat /\ DOMAIN s = 1..Len(s) /\ k \in Nat
  <2>1. /\ f \in Frame /\ f.start \in 0..Size /\ f.end \in 0..Size /\ f.data \in Int
        /\ k \in DOMAIN s /\ Len(s) \in Nat /\ DOMAIN s = 1..Len(s)
    BY <1>1, FrameFields
  <2> QED BY <2>1
<1>3. /\ m \in MoveRec /\ m.limit \in Nat /\ m.frames \in Frames /\ m.rbuf \in Ring
      /\ m.fits \in BOOLEAN
      /\ Grown(r, m.rbuf, o) /\ RingOK(m.rbuf, o)
      /\ StandsFor(m.frames, s, k - 1) /\ Good(m.frames, m.rbuf, o)
  BY MoveFields DEF Moved, Grown
<1>4. GoodFrame(f, m.rbuf, o) /\ o < f.end /\ f.start <= f.end
      /\ (f.data = NoData \/ f.data = f.start)
  <2>1. GoodFrame(f, r, o)
    BY <1>1, <1>2 DEF Good
  <2> QED BY <1>2, <1>3, <2>1, GoodGrown DEF GoodFrame
<1>5. o \in Nat /\ m.rbuf.alloc \in Nat /\ m.rbuf.head \in Nat /\ m.rbuf.ctail = o
      /\ m.rbuf.head <= o + m.rbuf.alloc
  BY <1>3, RingFields DEF RingOK
<1>6. PICK limit : limit = Larger(m.limit, f.start)
  OBVIOUS
<1>7. CASE ~m.fits \/ (f.data # NoData /\ ~RingFits(m.rbuf, limit, f.end - limit))
  <2>1. PICK u : u = Append(m.frames, f)
    OBVIOUS
  <2>2. PICK v : v = [m EXCEPT !.fits = FALSE, !.frames = u]
    OBVIOUS
  <2>3. MoveFrame(m, s[k]) = v
    BY <1>1, <1>6, <1>7, <2>1, <2>2 DEF MoveFrame
  <2>4. StandsFor(u, s, k) /\ Ending(m.frames, f, u)
    BY <1>1, <1>2, <1>3, <2>1, StandsAppend
  <2>5. Good(u, m.rbuf, o)
    BY <1>3, <1>4, <2>4 DEF Good, Ending
  <2>6. /\ v \in MoveRec /\ v.fits = FALSE /\ v.frames = u /\ v.rbuf = m.rbuf
    <3>1. u \in Frames
      BY <2>4 DEF StandsFor
    <3> QED BY <1>3, <2>2, <3>1 DEF MoveRec
  <2> QED BY <1>3, <2>3, <2>4, <2>5, <2>6 DEF Moved
<1>8. CASE m.fits /\ (f.data = NoData \/ RingFits(m.rbuf, limit, f.end - limit))
  <2>1. /\ k - 1 = 0 => m.limit = o /\ m.frames = <<>>
        /\ k - 1 # 0 => /\ m.frames # <<>>
                        /\ Last(m.frames).end = s[k - 1].end /\ m.limit = s[k - 1].end
        /\ \A i \in DOMAIN m.frames : m.frames[i].data = NoData
    BY <1>8 DEF Moved
  <2>2. m.frames # <<>> =>
          \E i \in DOMAIN m.frames : /\ Last(m.frames) = m.frames[i]
                                     /\ m.frames[i] \in Frame
                                     /\ Before(m.frames[i], f)
                                     /\ GoodFrame(m.frames[i], m.rbuf, o)
                                     /\ m.frames[i].data = NoData
    <3> HAVE m.frames # <<>>
    <3>1. /\ Len(m.frames) \in DOMAIN m.frames /\ m.frames[Len(m.frames)] \in Frame
          /\ Last(m.frames) = m.frames[Len(m.frames)]
      BY <1>3, FrameFields, EmptySeq DEF Frames, Last
    <3>2. Before(m.frames[Len(m.frames)], f)
      BY <1>1, <1>2, <1>3, <3>1, StandsBefore
    <3> QED BY <1>3, <2>1, <3>1, <3>2 DEF Good
  <2>3. limit \in Nat /\ limit >= m.limit /\ limit >= f.start
        /\ (limit = m.limit \/ limit = f.start)
    BY <1>2, <1>3, <1>6 DEF Larger
  <2>4. m.limit >= o /\ m.limit <= f.end
    <3>1. CASE k - 1 = 0
      BY <1>2, <1>4, <1>5, <2>1, <3>1
    <3>2. CASE k - 1 # 0
      <4>1. k - 1 \in DOMAIN s /\ k - 1 < k
        BY <1>2, <3>2
      <4>2. Before(s[k - 1], f) /\ GoodFrame(s[k - 1], r, o)
        BY <1>1, <1>2, <4>1 DEF Sorted, Good
      <4>3. s[k - 1].end \in Int
        BY <1>2, <4>1, FrameFields
      <4> QED BY <1>2, <1>5, <2>1, <3>2, <4>2, <4>3 DEF Before, GoodFrame
    <3> QED BY <3>1, <3>2
  <2>5. limit >= o /\ limit <= f.end /\ f.end - limit \in Nat
    <3>1. limit >= o /\ limit <= f.end
      <4>1. CASE limit = m.limit
        BY <2>4, <4>1
      <4>2. CASE limit = f.start
        BY <1>2, <1>3, <1>4, <1>5, <2>3, <2>4, <4>2
      <4> QED BY <2>3, <4>1, <4>2
    <3> QED BY <1>2, <2>3, <3>1
  <2>6. ASSUME NEW b \in Int, o <= b, In(f, b), b < limit PROVE Right(m.rbuf, b)
    <3>1. f.start <= b /\ b < m.limit
      BY <1>2, <1>3, <2>3, <2>6 DEF In
    <3>2. k - 1 # 0
      BY <1>5, <2>1, <2>6, <3>1
    <3>3. PICK g \in Frame : /\ g = Last(m.frames) /\ Before(g, f)
                             /\ GoodFrame(g, m.rbuf, o) /\ g.data = NoData
      BY <2>1, <2>2, <3>2
    <3>4. In(g, b)
      <4>1. g.start \in Int /\ g.end \in Int /\ g.start <= f.start /\ g.end = m.limit
        BY <2>1, <3>2, <3>3, FrameBounds DEF Before
      <4> QED BY <1>2, <3>1, <4>1 DEF In
    <3> QED BY <2>6, <3>3, <3>4 DEF GoodFrame
  <2>7. PICK w : w = IF f.data = NoData THEN m.rbuf
                     ELSE RingWriteAt(m.rbuf, limit, f.data + (limit - f.start), f.end - limit)
    OBVIOUS
  <2>8. /\ Grown(m.rbuf, w, o) /\ f.end <= w.head
        /\ \A b \in Int : o <= b /\ In(f, b) => Right(w, b)
    <3>1. CASE f.data = NoData
      <4>1. w = m.rbuf
        BY <2>7, <3>1
      <4>2. Grown(m.rbuf, w, o)
        BY <1>3, <1>5, <4>1 DEF Grown
      <4> QED BY <1>4, <3>1, <4>1, <4>2 DEF GoodFrame
    <3>2. CASE f.data # NoData
      <4>1. f.data + (limit - f.start) = limit
        BY <1>2, <1>4, <2>3, <3>2
      <4>2. w = RingWriteAt(m.rbuf, limit, limit, f.end - limit)
        BY <2>7, <3>2, <4>1
      <4>3. PICK len \in Nat : len = f.end - limit
        BY <2>5
      <4>4. limit + len <= o + m.rbuf.alloc
        <5>1. RingFits(m.rbuf, limit, len)
          BY <1>8, <3>2, <4>3
        <5> QED BY <1>5, <2>3, <5>1 DEF RingFits, RingAvail, RingUsed
      <4>5. /\ RingOK(w, o) /\ w.alloc = m.rbuf.alloc
            /\ w.head >= m.rbuf.head /\ w.head >= limit + len
            /\ \A b \in o..(o + m.rbuf.alloc - 1) : Right(m.rbuf, b) => Right(w, b)
            /\ \A b \in limit..(limit + len - 1) : Right(w, b)
        BY <1>3, <2>3, <2>5, <4>2, <4>3, <4>4, WriteEffect, SMTT(30)
      <4>6. w.head \in Nat
        BY <4>5, RingFields DEF RingOK
      <4>7. Grown(m.rbuf, w, o)
        BY <1>5, <4>5, <4>6 DEF Grown
      <4>8. limit + len = f.end
        BY <1>2, <2>3, <4>3
      <4>9. ASSUME NEW b \in Int, o <= b, In(f, b) PROVE Right(w, b)
        <5>1. f.start <= b /\ b < f.end
          BY <4>9 DEF In
        <5>2. CASE b < limit
          <6>1. Right(m.rbuf, b)
            BY <2>6, <4>9, <5>2
          <6>2. b \in o..(o + m.rbuf.alloc - 1)
            BY <1>2, <1>5, <4>4, <4>8, <4>9, <5>1, SMTT(30)
          <6> QED BY <4>5, <6>1, <6>2
        <5>3. CASE b >= limit
          <6>1. b \in limit..(limit + len - 1)
            BY <1>2, <2>3, <4>3, <4>8, <5>1, <5>3, SMTT(30)
          <6> QED BY <4>5, <6>1
        <5> QED BY <2>3, <5>2, <5>3
      <4> QED BY <1>2, <4>5, <4>6, <4>7, <4>8, <4>9
    <3> QED BY <3>1, <3>2
  <2>9. Grown(r, w, o)
    BY <1>3, <2>8, GrownTrans
  <2>10. ASSUME NEW i \in DOMAIN m.frames
         PROVE  GoodFrame(m.frames[i], w, o)
    BY <1>3, <2>8, FrameFields, GoodGrown DEF Good
  <2>11. PICK u : u = IF m.frames # <<>> /\ Last(m.frames).end >= f.start
                      THEN [m.frames EXCEPT ![Len(m.frames)].end = f.end]
                      ELSE Append(m.frames, [f EXCEPT !.data = NoData])
    OBVIOUS
  <2>12. PICK v : v = [fits |-> TRUE, limit |-> f.end, rbuf |-> w, frames |-> u]
    OBVIOUS
  <2>13. MoveFrame(m, s[k]) = v
    BY <1>1, <1>6, <1>8, <2>7, <2>11, <2>12 DEF MoveFrame
  <2>14. /\ StandsFor(u, s, k) /\ u # <<>> /\ Last(u).end = f.end
         /\ Good(u, w, o) /\ \A i \in DOMAIN u : u[i].data = NoData
    <3>1. CASE m.frames # <<>> /\ Last(m.frames).end >= f.start
      <4>1. PICK g \in Frame : /\ g = Last(m.frames) /\ Before(g, f)
                               /\ GoodFrame(g, m.rbuf, o) /\ g.data = NoData
        BY <2>2, <3>1
      <4>2. g.start \in Int /\ g.end \in Int /\ g.end >= f.start /\ g.start <= f.start
            /\ g.end < f.end /\ o < g.end
        BY <3>1, <4>1, FrameBounds DEF Before, GoodFrame
      <4>3. s[k].start <= Last(m.frames).end
        BY <1>1, <1>2, <4>1, <4>2
      <4>4. PICK h : h = [g EXCEPT !.end = f.end]
        OBVIOUS
      <4>5. u = [m.frames EXCEPT ![Len(m.frames)].end = s[k].end]
        BY <1>1, <2>11, <3>1
      <4>6. StandsFor(u, s, k) /\ Ending(m.frames, h, u)
        <5>1. /\ StandsFor(u, s, k)
              /\ Ending(m.frames, [Last(m.frames) EXCEPT !.end = s[k].end], u)
          BY <1>3, <3>1, <4>3, <4>5, StandsMerge
        <5> QED BY <1>1, <4>1, <4>4, <5>1
      <4>7. h.start = g.start /\ h.end = f.end /\ h.data = NoData
        BY <4>1, <4>4 DEF Frame
      <4>8. ASSUME NEW b \in Int, o <= b, In(h, b) PROVE Right(w, b)
        <5>1. In(g, b) \/ In(f, b)
          BY <1>2, <4>2, <4>7, <4>8 DEF In
        <5>2. CASE In(f, b)
          BY <2>8, <4>8, <5>2
        <5>3. CASE In(g, b)
          <6>1. GoodFrame(g, w, o)
            BY <1>3, <2>8, <4>1, GoodGrown
          <6> QED BY <4>1, <4>8, <5>3, <6>1 DEF GoodFrame
        <5> QED BY <5>1, <5>2, <5>3
      <4>9. GoodFrame(h, w, o)
        BY <1>2, <1>4, <2>8, <4>2, <4>7, <4>8 DEF GoodFrame
      <4> QED BY <2>1, <2>10, <4>6, <4>7, <4>9 DEF Good, Ending
    <3>2. CASE ~(m.frames # <<>> /\ Last(m.frames).end >= f.start)
      <4>1. PICK g : g = [f EXCEPT !.data = NoData]
        OBVIOUS
      <4>2. g \in Frame /\ g.start = f.start /\ g.end = f.end /\ g.data = NoData
        BY <1>2, <4>1 DEF Frame, NoData
      <4>3. u = Append(m.frames, g)
        BY <2>11, <3>2, <4>1
      <4>4. StandsFor(u, s, k) /\ Ending(m.frames, g, u)
        BY <1>1, <1>3, <4>2, <4>3, StandsAppend
      <4>5. \A b : In(g, b) <=> In(f, b)
        BY <4>2 DEF In
      <4>6. GoodFrame(g, w, o)
        BY <1>4, <2>8, <4>2, <4>5 DEF GoodFrame
      <4> QED BY <2>1, <2>10, <4>2, <4>4, <4>6 DEF Good, Ending
    <3> QED BY <3>1, <3>2
  <2>15. /\ v \in MoveRec /\ v.fits = TRUE /\ v.limit = f.end /\ v.rbuf = w
         /\ v.frames = u
    <3>1. u \in Frames /\ w \in Ring
      BY <2>9, <2>14 DEF StandsFor, Grown, RingOK
    <3> QED BY <1>2, <2>12, <3>1 DEF MoveRec
  <2> QED BY <1>1, <1>2, <2>9, <2>13, <2>14, <2>15 DEF Moved
<1> QED BY <1>3, <1>7, <1>8

\* The whole loop, by the least iteration that would go wrong.
LEMMA MoveAll ==
    ASSUME NEW s \in Frames, Sorted(s), NEW r, NEW o, RingOK(r, o), Good(s, r, o),
           NEW m, m = FoldLeft(MoveFrame, [fits |-> TRUE, limit |-> o, rbuf |-> r,
                                           frames |-> <<>>], s)
    PROVE  Moved(m, s, Len(s), r, o)
<1>0. Len(s) \in Nat
  BY FrameFields
<1>1. PICK base : base = [fits |-> TRUE, limit |-> o, rbuf |-> r, frames |-> <<>>]
  OBVIOUS
<1>2. PICK g : /\ g[0] = base
               /\ \A k \in 1..Len(s) : g[k] = MoveFrame(g[k - 1], s[k])
               /\ m = g[Len(s)]
  <2>1. m = FoldLeft(MoveFrame, base, s)
    BY ONLY <1>1, m = FoldLeft(MoveFrame, [fits |-> TRUE, limit |-> o, rbuf |-> r,
                                           frames |-> <<>>], s), Zenon
  <2>2. PICK g : /\ g[0] = base
                 /\ \A k \in 1..Len(s) : g[k] = MoveFrame(g[k - 1], s[k])
                 /\ FoldLeft(MoveFrame, base, s) = g[Len(s)]
    BY ONLY s \in Frames, MoveFold, Zenon
  <2> QED BY ONLY <2>1, <2>2, Zenon
<1>3. Moved(base, s, 0, r, o)
  <2>1. <<>> \in Frames /\ DOMAIN <<>> = {}
    BY DEF Frames
  <2>2. /\ base.fits = TRUE /\ base.limit = o /\ base.rbuf = r /\ base.frames = <<>>
        /\ base \in MoveRec
    BY <1>1, <2>1 DEF MoveRec, RingOK
  <2>3. StandsFor(<<>>, s, 0) /\ Good(<<>>, r, o)
    BY <2>1 DEF StandsFor, Good, Sorted, Covers, Reaches
  <2>4. Grown(r, r, o)
    BY RingFields DEF Grown, RingOK
  <2> QED BY <2>1, <2>2, <2>3, <2>4 DEF Moved
<1> DEFINE Bad == {k \in 0..Len(s) : ~Moved(g[k], s, k, r, o)}
<1>4. Bad = {}
  <2> SUFFICES ASSUME Bad # {} PROVE FALSE
    OBVIOUS
  <2>1. Bad \in SUBSET Nat
    BY <1>0
  <2>2. PICK k \in Bad : \A j \in Bad : k <= j
    <3> HIDE DEF Bad
    <3> QED BY <2>1, NatMin
  <2>3. k # 0
    BY <1>2, <1>3
  <2>4. k \in 1..Len(s) /\ k - 1 \in 0..Len(s) /\ k - 1 \notin Bad
    <3>1. k \in 0..Len(s)
      OBVIOUS
    <3>2. k \in 1..Len(s) /\ k - 1 \in 0..Len(s)
      BY <1>0, <2>3, <3>1
    <3> HIDE DEF Bad
    <3> QED BY <1>0, <2>2, <3>2
  <2>5. Moved(g[k - 1], s, k - 1, r, o)
    BY <2>4
  <2>6. Moved(MoveFrame(g[k - 1], s[k]), s, k, r, o)
    BY <2>4, <2>5, MoveStep
  <2> QED BY <1>2, <2>4, <2>6
<1>5. Len(s) \in 0..Len(s)
  BY <1>0
<1> QED BY <1>2, <1>4, <1>5

\* The list fr and the ring buffer w hold what the list s and r held.
Settled(s, fr, r, w, o) ==
    /\ fr \in Frames /\ Sorted(fr) /\ Good(fr, w, o) /\ Grown(r, w, o)
    /\ \A b \in Int : Covers(fr, b) <=> Covers(s, b)
    /\ \A e \in Int : Reaches(s, e) => Reaches(fr, e)

\* ossl_sframe_list_move_data changes where bytes are, and never which there are.
LEMMA MoveEffect ==
    ASSUME NEW s \in Frames, Sorted(s), s # <<>>, NEW r, NEW o, RingOK(r, o), Good(s, r, o),
           NEW skip \in {0, 1},
           NEW m, m = FoldLeft(MoveFrame, [fits |-> TRUE, limit |-> o, rbuf |-> r,
                                           frames |-> <<>>], From(s, skip + 1))
    PROVE  Settled(s, Upto(s, skip) \o m.frames, r, m.rbuf, o)
<1>0. /\ Len(s) \in Nat /\ Len(s) # 0 /\ DOMAIN s = 1..Len(s)
      /\ \A i \in DOMAIN s : s[i] \in Frame /\ s[i].end \in Int
  <2>1. Len(s) # 0
    BY EmptySeq DEF Frames
  <2> QED BY <2>1, FrameFields
<1>1. PICK at \in 1..(Len(s) + 1) : at = skip + 1
  BY <1>0
<1>2. PICK t : t = From(s, at)
  OBVIOUS
<1>3. PICK h : h = Upto(s, at - 1)
  OBVIOUS
<1>4. /\ t \in Frames /\ Len(t) = Len(s) - at + 1 /\ DOMAIN t = 1..(Len(s) - at + 1)
      /\ \A k \in 1..(Len(s) - at + 1) : t[k] = s[at + k - 1]
      /\ Sorted(t)
  <2>1. /\ t \in Frames /\ Len(t) = Len(s) - at + 1
        /\ \A k \in 1..(Len(s) - at + 1) : t[k] = s[at + k - 1]
    BY <1>2, Cut
  <2> QED BY <1>2, <2>1, FrameFields, SortedPart
<1>5. /\ h \in Frames /\ DOMAIN h = 1..(at - 1)
      /\ \A k \in 1..(at - 1) : h[k] = s[k]
      /\ Sorted(h)
  <2>1. /\ h \in Frames /\ Len(h) = at - 1 /\ \A k \in 1..(at - 1) : h[k] = s[k]
    BY <1>3, Cut
  <2> QED BY <1>3, <2>1, FrameFields, SortedPart
<1>6. ASSUME NEW k \in DOMAIN t PROVE at + k - 1 \in DOMAIN s /\ t[k] = s[at + k - 1]
  BY <1>0, <1>4
<1>7. ASSUME NEW k \in DOMAIN h PROVE k \in DOMAIN s /\ h[k] = s[k]
  BY <1>0, <1>5
<1>8. ASSUME NEW j \in DOMAIN s
      PROVE  \/ \E k \in DOMAIN h : h[k] = s[j]
             \/ \E k \in DOMAIN t : t[k] = s[j]
  <2>1. CASE j < at
    BY <1>0, <1>5, <2>1
  <2>2. CASE j >= at
    <3>1. j - at + 1 \in DOMAIN t
      BY <1>0, <1>4, <2>2
    <3>2. t[j - at + 1] = s[at + (j - at + 1) - 1]
      BY <1>4, <3>1
    <3>3. t[j - at + 1] = s[j]
      BY <1>0, <3>2
    <3> QED BY <3>1, <3>3
  <2> QED BY <1>0, <2>1, <2>2
<1>9. Good(t, r, o)
  BY <1>6 DEF Good
<1>10. Moved(m, t, Len(t), r, o)
  BY <1>1, <1>2, <1>4, <1>9, MoveAll
<1>11. /\ StandsFor(m.frames, t, Len(t)) /\ Good(m.frames, m.rbuf, o)
       /\ Grown(r, m.rbuf, o) /\ m.frames \in Frames /\ Sorted(m.frames)
  BY <1>10 DEF Moved, StandsFor
<1>12. AllBefore(h, m.frames)
  <2> SUFFICES ASSUME NEW i \in DOMAIN h, NEW j \in DOMAIN m.frames
               PROVE  Before(h[i], m.frames[j])
    BY DEF AllBefore
  <2>0. DOMAIN t = 1..Len(t)
    BY <1>4, FrameFields
  <2>1. PICK a \in DOMAIN t, c \in DOMAIN t :
          m.frames[j].start = t[a].start /\ m.frames[j].end = t[c].end
    <3>1. \E a, c \in 1..Len(t) :
            m.frames[j].start = t[a].start /\ m.frames[j].end = t[c].end
      BY ONLY <1>11, j \in DOMAIN m.frames DEF StandsFor
    <3> QED BY ONLY <2>0, <3>1
  <2>2. /\ i \in DOMAIN s /\ at + a - 1 \in DOMAIN s /\ at + c - 1 \in DOMAIN s
        /\ i < at + a - 1 /\ i < at + c - 1
    <3>1. i \in DOMAIN s /\ at + a - 1 \in DOMAIN s /\ at + c - 1 \in DOMAIN s
      BY <1>6, <1>7
    <3>2. i \in 1..(at - 1) /\ a \in 1..(Len(s) - at + 1) /\ c \in 1..(Len(s) - at + 1)
      BY <1>4, <1>5
    <3>3. i < at + a - 1 /\ i < at + c - 1
      BY ONLY <1>0, <3>2, at \in 1..(Len(s) + 1)
    <3> QED BY <3>1, <3>3
  <2>3. Before(s[i], s[at + a - 1]) /\ Before(s[i], s[at + c - 1])
    BY <2>2 DEF Sorted
  <2>4. Before(h[i], t[a]) /\ Before(h[i], t[c])
    BY <1>6, <1>7, <2>3
  <2> QED BY <2>1, <2>4 DEF Before
<1>13. PICK u : u = h \o m.frames
  OBVIOUS
<1>14. u \in Frames /\ Sorted(u) /\ Union(h, m.frames, u)
  BY <1>5, <1>11, <1>12, <1>13, Joined
<1>15. Good(u, m.rbuf, o)
  <2>1. ASSUME NEW i \in DOMAIN h PROVE GoodFrame(h[i], m.rbuf, o)
    <3>1. GoodFrame(h[i], r, o) /\ h[i] \in Frame
      BY <1>0, <1>7 DEF Good
    <3> QED BY <1>11, <3>1, GoodGrown
  <2> QED BY <1>11, <1>14, <2>1 DEF Good, Union
<1>16. ASSUME NEW b \in Int PROVE Covers(u, b) <=> Covers(s, b)
  <2>1. Covers(m.frames, b) <=> Covers(t, b)
    BY <1>4, <1>11 DEF StandsFor, Covers
  <2>2. Covers(u, b) <=> Covers(h, b) \/ Covers(m.frames, b)
    BY <1>14 DEF Covers, Union
  <2>3. Covers(s, b) <=> Covers(h, b) \/ Covers(t, b)
    BY <1>6, <1>7, <1>8 DEF Covers
  <2> QED BY <2>1, <2>2, <2>3
<1>17. ASSUME NEW e \in Int, Reaches(s, e) PROVE Reaches(u, e)
  <2>1. PICK j \in DOMAIN s : s[j].end >= e
    BY <1>17 DEF Reaches
  <2>2. CASE \E k \in DOMAIN h : h[k] = s[j]
    BY <1>14, <2>1, <2>2 DEF Union, Reaches
  <2>3. CASE \E k \in DOMAIN t : t[k] = s[j]
    <3>1. Reaches(m.frames, s[j].end)
      BY <1>4, <1>11, <2>3 DEF StandsFor
    <3>2. PICK i \in DOMAIN m.frames : m.frames[i].end >= s[j].end
      BY <3>1 DEF Reaches
    <3>3. m.frames[i].end >= e
      <4>1. m.frames[i].end \in Int
        BY <1>11, FrameFields
      <4> QED BY <1>0, <2>1, <3>2, <4>1
    <3> QED BY <1>14, <3>3 DEF Union, Reaches
  <2> QED BY <1>8, <2>2, <2>3
<1>18. Settled(s, u, r, m.rbuf, o)
  BY <1>11, <1>14, <1>15, <1>16, <1>17 DEF Settled
<1>19. Upto(s, skip) = h
  BY <1>1, <1>3
<1> QED BY <1>13, <1>18, <1>19

-----------------------------------------------------------------------------
(* The inductive invariant *)

FlType == [frames : Frames, fin : BOOLEAN, offset : 0..Size, locked : BOOLEAN]

TypeInv == fl \in FlType /\ head_range \in [start : 0..Size, end : 0..Size]

\* The list and the ring buffer hold together what was received and not read.
ListInv ==
    /\ Sorted(fl.frames)
    /\ RingOK(rbuf, fl.offset)
    /\ Good(fl.frames, rbuf, fl.offset)

\* Once the end is known the list reaches it, unless it has been read.
FinInv == fl.fin => fl.offset = Size \/ Reaches(fl.frames, Size)

\* A record that the reader holds starts where the reader is, and is there.
RecordInv ==
    fl.locked => /\ head_range.start = fl.offset /\ fl.offset < head_range.end
                 /\ \A b \in fl.offset..(head_range.end - 1) : Covers(fl.frames, b)

IInv == TypeInv /\ ListInv /\ FinInv /\ RecordInv

\* The types of the parts of the state.
LEMMA StateFields ==
    ASSUME TypeInv
    PROVE  /\ fl.frames \in Frames /\ fl.fin \in BOOLEAN /\ fl.locked \in BOOLEAN
           /\ fl.offset \in 0..Size /\ fl.offset \in Nat
           /\ head_range.start \in 0..Size /\ head_range.end \in 0..Size
           /\ Size \in Nat
BY SizeAssumption DEF TypeInv, FlType

\* The buffer starts empty.
LEMMA InitInv ==
    ASSUME Init
    PROVE  IInv
<1>1. PICK n \in Nat :
        rbuf = [alloc |-> n, head |-> 0, ctail |-> 0, cells |-> [c \in 0..(n - 1) |-> Junk]]
  BY RbufAssumption DEF Init
<1>2. /\ fl = [frames |-> <<>>, fin |-> FALSE, offset |-> 0, locked |-> FALSE]
      /\ head_range = [start |-> 0, end |-> 0]
  BY DEF Init
<1>3. <<>> \in Frames /\ DOMAIN <<>> = {}
  BY DEF Frames
<1>4. TypeInv
  BY <1>2, <1>3, SizeAssumption DEF TypeInv, FlType
<1>5. fl.frames = <<>> /\ fl.offset = 0 /\ fl.fin = FALSE /\ fl.locked = FALSE
  BY <1>2
<1>6. Sorted(fl.frames) /\ Good(fl.frames, rbuf, fl.offset)
  BY <1>3, <1>5 DEF Sorted, Good
<1>7. RingOK(rbuf, fl.offset)
  <2>1. PICK c : c = [k \in 0..(n - 1) |-> Junk]
    OBVIOUS
  <2>2. c \in [0..(n - 1) -> Int \cup {Junk}]
    BY <2>1
  <2>3. c \in Cells
    BY <2>2, CellsIn
  <2>4. rbuf = [alloc |-> n, head |-> 0, ctail |-> 0, cells |-> c]
    BY <1>1, <2>1
  <2>5. rbuf \in Ring
    BY <2>3, <2>4 DEF Ring
  <2> QED BY <1>5, <2>2, <2>4, <2>5 DEF RingOK
<1> QED BY <1>4, <1>5, <1>6, <1>7 DEF IInv, ListInv, FinInv, RecordInv

\* ossl_quic_rstream_queue_data: the list gets the frame unless it is old.
LEMMA QueueInv ==
    ASSUME IInv, NEW b \in 0..Size, NEW fin \in BOOLEAN, NEW a \in 0..b, QueueData(a, b, fin)
    PROVE  IInv'
<1>0. /\ TypeInv /\ Sorted(fl.frames) /\ RingOK(rbuf, fl.offset)
      /\ Good(fl.frames, rbuf, fl.offset) /\ FinInv /\ RecordInv
  BY DEF IInv, ListInv
<1>1. /\ fl.frames \in Frames /\ fl.fin \in BOOLEAN /\ fl.locked \in BOOLEAN
      /\ fl.offset \in 0..Size /\ fl.offset \in Nat /\ Size \in Nat
  BY <1>0, StateFields
<1>2. PICK new : new = [start |-> a, end |-> b, data |-> a]
  OBVIOUS
<1>3. new \in Frame /\ new.start = a /\ new.end = b /\ new.data = a /\ a <= b /\ a # NoData
  BY <1>1, <1>2 DEF Frame, NoData
<1>4. PICK fr : fr = IF fl.offset >= b THEN fl.frames ELSE Insert(fl.frames, new)
  OBVIOUS
<1>5. /\ fl' = [fl EXCEPT !.fin = @ \/ fin, !.frames = fr]
      /\ rbuf' = rbuf /\ head_range' = head_range /\ (fin => b = Size)
  BY <1>2, <1>4 DEF QueueData
<1>6. /\ fl'.fin = (fl.fin \/ fin) /\ fl'.frames = fr /\ fl'.offset = fl.offset
      /\ fl'.locked = fl.locked /\ (fr \in Frames => fl' \in FlType)
  BY <1>0, <1>1, <1>5 DEF TypeInv, FlType
<1>7. CASE fl.offset >= b
  <2>1. fr = fl.frames
    BY <1>4, <1>7
  <2>2. TypeInv' /\ ListInv' /\ RecordInv'
    BY <1>0, <1>1, <1>5, <1>6, <2>1 DEF TypeInv, ListInv, RecordInv
  <2>3. fin => fl.offset = Size
    BY <1>1, <1>5, <1>7
  <2>4. FinInv'
    BY <1>0, <1>6, <2>1, <2>3 DEF FinInv
  <2> QED BY <2>2, <2>4 DEF IInv
<1>8. CASE fl.offset < b
  <2>1. Inserted(fl.frames, new, fr)
    <3>1. fr = Insert(fl.frames, new)
      BY <1>1, <1>4, <1>8
    <3> QED BY <1>0, <1>1, <1>3, <3>1, InsertEffect
  <2>2. fr \in Frames /\ Sorted(fr)
    BY <2>1 DEF Inserted
  <2>3. Good(fr, rbuf, fl.offset)
    <3>1. GoodFrame(new, rbuf, fl.offset)
      BY <1>3, <1>8 DEF GoodFrame
    <3> QED BY <1>0, <2>1, <3>1 DEF Inserted, Good
  <2>4. \A c \in Int : Covers(fl.frames, c) => Covers(fr, c)
    BY <2>1 DEF Inserted
  <2>5. FinInv'
    <3>1. Reaches(fl.frames, Size) => Reaches(fr, Size)
      BY <1>1, <2>1 DEF Inserted
    <3>2. fin => Reaches(fr, Size)
      <4>1. fin => Size <= new.end
        BY <1>1, <1>3, <1>5
      <4> QED BY <1>1, <2>1, <4>1 DEF Inserted
    <3> QED BY <1>0, <1>6, <3>1, <3>2 DEF FinInv
  <2>6. RecordInv'
    <3>1. head_range.end \in Int
      BY <1>0, StateFields
    <3>2. \A c \in fl.offset..(head_range.end - 1) : c \in Int
      BY <1>1, <3>1
    <3> QED BY <1>0, <1>5, <1>6, <2>4, <3>2 DEF RecordInv
  <2>7. TypeInv' /\ ListInv'
    BY <1>0, <1>5, <1>6, <2>2, <2>3 DEF TypeInv, ListInv
  <2> QED BY <2>5, <2>6, <2>7 DEF IInv
<1> QED BY <1>1, <1>7, <1>8

\* The reader is at x now, and frames and ring buffer were given up to there.
Advanced(x) ==
    /\ fl' \in FlType /\ fl'.offset = x /\ fl'.fin = fl.fin /\ fl'.locked = FALSE
    /\ Dropped(fl.frames, x, fl'.frames) /\ fl.offset <= x
    /\ ListInv' /\ FinInv' /\ RecordInv'

\* A reader that has moved on to x leaves a list and a ring buffer in order.
LEMMA AdvanceEffect ==
    ASSUME IInv, NEW x \in fl.offset..Size, fl' = Drop(x),
           rbuf' = RingCull(rbuf, x) \/ (x = 0 /\ rbuf' = rbuf)
    PROVE  Advanced(x)
<1>0. /\ TypeInv /\ Sorted(fl.frames) /\ RingOK(rbuf, fl.offset)
      /\ Good(fl.frames, rbuf, fl.offset) /\ FinInv
  BY DEF IInv, ListInv
<1>1. /\ fl.frames \in Frames /\ fl.fin \in BOOLEAN /\ fl.locked \in BOOLEAN
      /\ fl.offset \in 0..Size /\ fl.offset \in Nat /\ Size \in Nat
  BY <1>0, StateFields
<1>2. x \in Nat /\ fl.offset <= x /\ x \in 0..Size
  BY <1>1
<1>3. PICK fr : fr = From(fl.frames, FirstWhere(fl.frames, LAMBDA f : f.end > x))
  OBVIOUS
<1>4. Dropped(fl.frames, x, fr)
  <2>1. x \in Int
    BY <1>2
  <2> QED BY <1>0, <1>1, <1>3, <2>1, DropEffect
<1>5. fl' = [fl EXCEPT !.offset = x, !.frames = fr, !.locked = FALSE]
  BY <1>3 DEF Drop
<1>6. fr \in Frames /\ Sorted(fr)
  BY <1>4 DEF Dropped
<1>7. /\ fl' \in FlType /\ fl'.offset = x /\ fl'.fin = fl.fin /\ fl'.locked = FALSE
      /\ fl'.frames = fr
  BY <1>0, <1>1, <1>2, <1>5, <1>6 DEF TypeInv, FlType
<1>8. PICK w : w = rbuf'
  OBVIOUS
<1>9. /\ RingOK(w, x) /\ w.head >= rbuf.head /\ w.alloc = rbuf.alloc
      /\ w.cells = rbuf.cells /\ rbuf.head \in Nat /\ w.head \in Nat
  <2>1. CASE w = RingCull(rbuf, x)
    <3>1. RingOK(w, x) /\ w.head >= rbuf.head /\ w.alloc = rbuf.alloc /\ w.cells = rbuf.cells
      BY <1>0, <1>2, <2>1, CullEffect
    <3>2. rbuf \in Ring /\ w \in Ring
      BY <1>0, <3>1 DEF RingOK
    <3> QED BY <3>1, <3>2, RingFields
  <2>2. CASE x = 0 /\ w = rbuf
    <3>1. fl.offset = x /\ rbuf \in Ring
      BY <1>0, <1>1, <1>2, <2>2 DEF RingOK
    <3>2. rbuf.head \in Nat
      BY <3>1, RingFields
    <3> QED BY <1>0, <2>2, <3>1, <3>2
  <2> QED BY <1>8, <2>1, <2>2
<1>10. Good(fr, w, x)
  <2> SUFFICES ASSUME NEW i \in DOMAIN fr PROVE GoodFrame(fr[i], w, x)
    BY DEF Good
  <2>1. PICK j \in DOMAIN fl.frames : fr[i] = fl.frames[j] /\ fr[i].end > x
    BY <1>4 DEF Dropped
  <2>2. fr[i] \in Frame /\ fr[i].end \in Int
    BY <1>6, FrameFields
  <2>3. x < fr[i].end /\ rbuf.head <= w.head
    BY <1>2, <1>9, <2>1, <2>2
  <2>4. \A b \in x..(rbuf.head - 1) : Right(rbuf, b) => Right(w, b)
    BY <1>9 DEF Right
  <2>5. GoodFrame(fr[i], rbuf, fl.offset)
    BY <1>0, <2>1 DEF Good
  <2> QED BY <1>1, <1>2, <1>9, <2>2, <2>3, <2>4, <2>5, GoodKept
<1>11. ListInv'
  BY <1>6, <1>7, <1>8, <1>9, <1>10 DEF ListInv
<1>12. FinInv'
  <2> SUFFICES ASSUME fl.fin, x # Size PROVE Reaches(fr, Size)
    BY <1>7 DEF FinInv
  <2>1. x < Size
    BY <1>1, <1>2
  <2>2. Reaches(fl.frames, Size)
    BY <1>0, <1>1, <1>2, <2>1 DEF FinInv
  <2>3. PICK j \in DOMAIN fl.frames : fl.frames[j].end >= Size
    BY <2>2 DEF Reaches
  <2>4. fl.frames[j].end \in Int
    BY <1>1, FrameFields
  <2>5. fl.frames[j].end > x
    BY <1>1, <1>2, <2>1, <2>3, <2>4
  <2> QED BY <1>4, <2>3, <2>5 DEF Dropped, Reaches
<1>13. RecordInv'
  BY <1>7 DEF RecordInv
<1> QED BY <1>4, <1>7, <1>11, <1>12, <1>13 DEF Advanced

-----------------------------------------------------------------------------
(* What the reader can get at *)

\* Frames 1 to p are one after the other without a gap, and then there is one.
Peeked(p) ==
    /\ p \in 0..Len(fl.frames)
    /\ \A i \in 1..p : /\ fl.frames[i].start <= PeekStart(i)
                       /\ PeekStart(i) < fl.frames[i].end
    /\ p < Len(fl.frames) => fl.frames[p + 1].start > PeekStart(p + 1)

\* The read offset or the end of a frame.
LEMMA PeekStarts ==
    ASSUME IInv, NEW i \in 1..(Len(fl.frames) + 1)
    PROVE  PeekStart(i) \in fl.offset..Size
<1>1. /\ fl.frames \in Frames /\ fl.offset \in 0..Size /\ Size \in Nat
      /\ Good(fl.frames, rbuf, fl.offset)
  BY StateFields DEF IInv, ListInv
<1>2. Len(fl.frames) \in Nat /\ DOMAIN fl.frames = 1..Len(fl.frames)
  BY <1>1, FrameFields
<1>3. CASE i = 1
  BY <1>1, <1>3 DEF PeekStart
<1>4. CASE i # 1
  <2>1. i - 1 \in 1..Len(fl.frames)
    BY <1>2, <1>4
  <2>2. fl.frames[i - 1].end \in 0..Size
    BY <1>1, <2>1, FrameFields
  <2>3. fl.offset < fl.frames[i - 1].end
    BY <1>1, <1>2, <2>1 DEF Good, GoodFrame
  <2>4. PeekStart(i) = fl.frames[i - 1].end
    BY <1>4 DEF PeekStart
  <2> QED BY <1>1, <2>2, <2>3, <2>4
<1> QED BY <1>3, <1>4

\* ossl_sframe_list_peek goes through the frames up to the first gap, and no frame
\* on the way is without bytes.
LEMMA PeekEffect ==
    ASSUME IInv
    PROVE  Peeked(Peekable)
<1>1. /\ fl.frames \in Frames /\ fl.offset \in 0..Size /\ Size \in Nat
      /\ Good(fl.frames, rbuf, fl.offset) /\ Sorted(fl.frames)
  BY StateFields DEF IInv, ListInv
<1>2. PICK n \in Nat : n = Len(fl.frames) /\ DOMAIN fl.frames = 1..n
  BY <1>1, FrameFields
<1> DEFINE ids == [i \in DOMAIN fl.frames |-> i]
           Stop(i) == fl.frames[i].start > PeekStart(i) \/ PeekStart(i) >= fl.frames[i].end
           S == {i \in 1..(n + 1) : i > n \/ Stop(i)}
           T == {i \in 1..(Len(ids) + 1) : i > Len(ids) \/ Stop(ids[i])}
<1>3. Len(ids) = n /\ \A i \in 1..n : ids[i] = i
  BY <1>2
<1>4. T = S
  <2>1. T = {i \in 1..(n + 1) : i > n \/ Stop(ids[i])}
    BY <1>3
  <2>2. \A i \in 1..(n + 1) : i > n \/ ids[i] = i
    BY <1>3
  <2> HIDE DEF ids, T, Stop
  <2> QED BY <2>1, <2>2
<1>5. Peekable = Min(T) - 1
  BY DEF Peekable, FirstWhere
<1>6. S \in SUBSET (1..(n + 1)) /\ n + 1 \in S
  BY <1>2
<1>7. PICK m : m = Min(S) /\ m \in S /\ \A j \in S : m <= j
  <2> HIDE DEF S
  <2> QED BY <1>2, <1>6, FirstOf, SMTT(30)
<1>8. Peekable = m - 1 /\ m \in 1..(n + 1)
  BY <1>4, <1>5, <1>7
<1>9. ASSUME NEW i \in 1..n
      PROVE  PeekStart(i) \in Int /\ PeekStart(i) < fl.frames[i].end
             /\ fl.frames[i].start \in Int /\ fl.frames[i].end \in Int
  <2>1. PeekStart(i) \in fl.offset..Size
    BY <1>2, PeekStarts
  <2>2. fl.frames[i].start \in Int /\ fl.frames[i].end \in Int
    BY <1>1, <1>2, FrameFields
  <2>3. CASE i = 1
    <3>1. PeekStart(i) = fl.offset
      BY <2>3 DEF PeekStart
    <3>2. fl.offset < fl.frames[i].end
      BY <1>1, <1>2 DEF Good, GoodFrame
    <3> QED BY <1>1, <2>1, <2>2, <3>1, <3>2
  <2>4. CASE i # 1
    <3>1. PeekStart(i) = fl.frames[i - 1].end
      BY <2>4 DEF PeekStart
    <3>2. i - 1 \in 1..n /\ i - 1 < i
      BY <1>2, <2>4
    <3>3. Before(fl.frames[i - 1], fl.frames[i])
      BY <1>1, <1>2, <3>2 DEF Sorted
    <3>4. PeekStart(i) < fl.frames[i].end
      BY <3>1, <3>3 DEF Before
    <3> QED BY <1>1, <2>1, <2>2, <3>4
  <2> QED BY <2>3, <2>4
<1>10. ASSUME NEW i \in 1..(m - 1) PROVE fl.frames[i].start <= PeekStart(i)
  <2>1. i \in 1..n /\ i \in 1..(n + 1) /\ ~(m <= i) /\ ~(i > n)
    BY <1>2, <1>8
  <2>2. i \notin S
    <3> HIDE DEF S
    <3> QED BY <1>7, <2>1
  <2>3. ~Stop(i)
    BY <2>1, <2>2
  <2> QED BY <1>9, <2>1, <2>3
<1>11. ASSUME m - 1 < n PROVE fl.frames[m].start > PeekStart(m)
  <2>1. m \in 1..n /\ ~(m > n)
    BY <1>2, <1>8, <1>11, SMTT(30)
  <2>2. Stop(m)
    BY <1>7, <2>1
  <2> QED BY <1>9, <2>1, <2>2
<1>12. PICK p : p = m - 1
  OBVIOUS
<1>13. p \in 0..n /\ p + 1 = m
  BY <1>2, <1>8, <1>12
<1>14. \A i \in 1..p : i \in 1..n
  BY <1>2, <1>13
<1>15. Peeked(p)
  BY <1>2, <1>9, <1>10, <1>11, <1>12, <1>13, <1>14 DEF Peeked
<1> QED BY <1>8, <1>12, <1>15

\* A byte of a frame of the list has its value, wherever it is stored.
LEMMA ByteRight ==
    ASSUME IInv, NEW i \in DOMAIN fl.frames, NEW b \in Int, fl.offset <= b,
           In(fl.frames[i], b)
    PROVE  ByteOf(fl.frames[i], b) = b
<1>1. fl.frames \in Frames /\ Good(fl.frames, rbuf, fl.offset)
  BY StateFields DEF IInv, ListInv
<1>2. PICK f : f = fl.frames[i]
  OBVIOUS
<1>3. f \in Frame /\ f.start \in Int /\ GoodFrame(f, rbuf, fl.offset)
  BY <1>1, <1>2, FrameFields DEF Good
<1>4. CASE f.data = NoData
  BY <1>2, <1>3, <1>4 DEF GoodFrame, ByteOf, Right
<1>5. CASE f.data # NoData
  <2>1. f.data = f.start
    BY <1>3, <1>5 DEF GoodFrame
  <2>2. ByteOf(f, b) = f.start + (b - f.start)
    BY <1>5, <2>1 DEF ByteOf
  <2> QED BY <1>2, <1>3, <2>2
<1> QED BY <1>4, <1>5

\* Where the list ends once the end of the stream is known.
LEMMA ListEnd ==
    ASSUME IInv
    PROVE  /\ Len(fl.frames) \in Nat /\ DOMAIN fl.frames = 1..Len(fl.frames)
           /\ Len(fl.frames) # 0 => fl.offset < Size
           /\ fl.fin => IF Len(fl.frames) = 0 THEN fl.offset = Size
                        ELSE fl.frames[Len(fl.frames)].end = Size
<1>1. /\ fl.frames \in Frames /\ fl.offset \in 0..Size /\ Size \in Nat
      /\ Good(fl.frames, rbuf, fl.offset) /\ Sorted(fl.frames) /\ FinInv
  BY StateFields DEF IInv, ListInv
<1>2. PICK n \in Nat : n = Len(fl.frames) /\ DOMAIN fl.frames = 1..n
  BY <1>1, FrameFields
<1>3. ASSUME n # 0 PROVE fl.offset < Size
  <2>1. n \in 1..n
    BY <1>2, <1>3
  <2>2. fl.offset < fl.frames[n].end
    BY <1>1, <1>2, <2>1 DEF Good, GoodFrame
  <2>3. fl.frames[n].end \in 0..Size
    BY <1>1, <1>2, <2>1, FrameFields
  <2> QED BY <1>1, <2>2, <2>3
<1>4. ASSUME fl.fin, n = 0 PROVE fl.offset = Size
  <2>1. DOMAIN fl.frames = {}
    BY <1>2, <1>4
  <2> QED BY <1>1, <1>4, <2>1 DEF FinInv, Reaches
<1>5. ASSUME fl.fin, n # 0 PROVE fl.frames[n].end = Size
  <2>1. fl.offset # Size
    BY <1>1, <1>3, <1>5
  <2>2. PICK j \in 1..n : fl.frames[j].end >= Size
    BY <1>1, <1>2, <1>5, <2>1 DEF FinInv, Reaches
  <2>3. n \in 1..n
    BY <1>2, <1>5
  <2>4. fl.frames[j].end \in 0..Size /\ fl.frames[n].end \in 0..Size
    BY <1>1, <1>2, <2>3, FrameFields
  <2>5. CASE j = n
    BY <1>1, <2>2, <2>4, <2>5
  <2>6. CASE j < n
    <3>1. Before(fl.frames[j], fl.frames[n])
      BY <1>1, <1>2, <2>3, <2>6 DEF Sorted
    <3> QED BY <1>1, <2>2, <2>4, <3>1 DEF Before
  <2> QED BY <1>2, <2>5, <2>6
<1> QED BY <1>2, <1>3, <1>4, <1>5

\* The end of what can be read now.
ReadEnd == PeekStart(Peekable + 1)

\* It is the end of the last frame peeked at.
LEMMA ReadEndIn ==
    ASSUME IInv
    PROVE  /\ ReadEnd \in fl.offset..Size /\ ReadEnd \in Nat
           /\ Peekable \in 0..Len(fl.frames)
           /\ ReadEnd = IF Peekable = 0 THEN fl.offset ELSE fl.frames[Peekable].end
<1>1. Peekable \in 0..Len(fl.frames) /\ Len(fl.frames) \in Nat
  BY PeekEffect, ListEnd DEF Peeked
<1>2. PICK p \in 0..Len(fl.frames) : p = Peekable
  BY <1>1
<1>3. p + 1 \in 1..(Len(fl.frames) + 1)
  BY <1>1
<1>4. fl.offset \in 0..Size /\ Size \in Nat
  BY StateFields DEF IInv
<1>5. ReadEnd \in fl.offset..Size
  BY <1>2, <1>3, PeekStarts DEF ReadEnd
<1>6. ReadEnd \in Nat
  BY <1>4, <1>5
<1>7. ReadEnd = IF p = 0 THEN fl.offset ELSE fl.frames[p].end
  <2>1. (p + 1 = 1 <=> p = 0) /\ (p + 1) - 1 = p
    BY <1>1, <1>2
  <2> QED BY <1>2, <2>1 DEF ReadEnd, PeekStart
<1> QED BY <1>1, <1>2, <1>5, <1>6, <1>7

\* Each byte that can be read is in the part of one frame that is peeked at.
Segment(i, b) == PeekStart(i) <= b /\ b < fl.frames[i].end

\* No byte before the first gap is missed.
LEMMA SegmentOf ==
    ASSUME IInv, NEW b \in Int, fl.offset <= b, b < ReadEnd
    PROVE  \E i \in 1..Peekable : Segment(i, b)
<1>1. /\ Peekable \in 0..Len(fl.frames) /\ Len(fl.frames) \in Nat
      /\ fl.offset \in Nat
      /\ ReadEnd = IF Peekable = 0 THEN fl.offset ELSE fl.frames[Peekable].end
  BY ReadEndIn, ListEnd, StateFields DEF IInv
<1>2. PICK p \in Nat : p = Peekable /\ p <= Len(fl.frames)
  BY <1>1
<1>3. p # 0 /\ b < fl.frames[p].end
  BY <1>1, <1>2
<1> DEFINE S == {i \in 1..p : b < fl.frames[i].end}
<1>4. S \in SUBSET Nat /\ p \in S
  BY <1>2, <1>3
<1>5. PICK i \in S : \A j \in S : i <= j
  <2> HIDE DEF S
  <2> QED BY <1>4, NatMin
<1>6. i \in 1..p /\ b < fl.frames[i].end
  OBVIOUS
<1>7. CASE i = 1
  <2>1. PeekStart(i) = fl.offset
    BY <1>7 DEF PeekStart
  <2> QED BY <1>2, <1>6, <2>1 DEF Segment
<1>8. CASE i # 1
  <2>1. i - 1 \in 1..p /\ ~(i <= i - 1)
    BY <1>2, <1>6, <1>8
  <2>2. i - 1 \notin S
    <3> HIDE DEF S
    <3> QED BY <1>5, <2>1
  <2>3. ~(b < fl.frames[i - 1].end)
    BY <2>1, <2>2
  <2>4. fl.frames[i - 1].end \in Int
    <3>1. fl.frames \in Frames /\ i - 1 \in 1..Len(fl.frames)
      BY <1>1, <1>2, <2>1, StateFields DEF IInv
    <3> QED BY <3>1, FrameFields
  <2>5. fl.frames[i - 1].end <= b
    BY <2>3, <2>4
  <2>6. PeekStart(i) = fl.frames[i - 1].end
    BY <1>8 DEF PeekStart
  <2> QED BY <1>2, <1>6, <2>5, <2>6 DEF Segment
<1> QED BY <1>7, <1>8

\* Such a frame covers the byte.
LEMMA SegmentIn ==
    ASSUME IInv, NEW i \in 1..Peekable, NEW b \in Int, Segment(i, b)
    PROVE  i \in DOMAIN fl.frames /\ In(fl.frames[i], b) /\ fl.offset <= b
<1>1. /\ Peekable \in 0..Len(fl.frames) /\ Len(fl.frames) \in Nat
      /\ DOMAIN fl.frames = 1..Len(fl.frames) /\ Peeked(Peekable)
      /\ fl.frames \in Frames /\ fl.offset \in Nat
  BY ReadEndIn, ListEnd, PeekEffect, StateFields DEF IInv
<1>2. i \in DOMAIN fl.frames /\ i \in 1..Len(fl.frames) /\ i \in 1..(Len(fl.frames) + 1)
  BY <1>1
<1>3. PeekStart(i) \in fl.offset..Size /\ Size \in Nat
  BY <1>2, PeekStarts, StateFields DEF IInv
<1>4. fl.frames[i].start \in Int /\ fl.frames[i].start <= PeekStart(i)
  BY <1>1, <1>2, FrameFields DEF Peeked
<1>5. PeekStart(i) \in Int /\ fl.offset <= PeekStart(i)
  BY <1>1, <1>3
<1> QED BY <1>1, <1>2, <1>4, <1>5 DEF Segment, In

-----------------------------------------------------------------------------
(* Every step keeps the invariant. *)

\* The end of what n bytes of buffer get.
LEMMA ReadTo ==
    ASSUME IInv, NEW n \in Nat
    PROVE  /\ ReadResult(n).end = Smaller(ReadEnd, fl.offset + n)
           /\ ReadResult(n).end \in fl.offset..Size
<1>1. /\ ReadEnd \in fl.offset..Size /\ ReadEnd \in Nat /\ fl.offset \in Nat /\ Size \in Nat
      /\ ReadEnd = IF Peekable = 0 THEN fl.offset ELSE fl.frames[Peekable].end
  BY ReadEndIn, StateFields DEF IInv
<1>2. ReadResult(n).end = IF Peekable = 0 THEN fl.offset
                          ELSE Smaller(fl.frames[Peekable].end, fl.offset + n)
  BY DEF ReadResult
<1>3. Smaller(ReadEnd, fl.offset + n) \in fl.offset..Size
  BY <1>1 DEF Smaller
<1>4. CASE Peekable = 0
  BY <1>1, <1>2, <1>3, <1>4 DEF Smaller
<1>5. CASE Peekable # 0
  BY <1>1, <1>2, <1>3, <1>5
<1> QED BY <1>4, <1>5

\* ossl_quic_rstream_read.
LEMMA ReadInv ==
    ASSUME IInv, NEW n \in 0..Size, Read(n)
    PROVE  IInv'
<1>1. PICK x : x = ReadResult(n).end
  OBVIOUS
<1>2. n \in Nat
  BY SizeAssumption
<1>3. x \in fl.offset..Size
  BY <1>1, <1>2, ReadTo
<1>4. CASE UNCHANGED <<fl, rbuf>>
  BY <1>4 DEF Read, IInv, TypeInv, ListInv, FinInv, RecordInv
<1>5. CASE fl' = Drop(x) /\ rbuf' = RingCull(rbuf, x)
  <2>1. Advanced(x)
    BY <1>3, <1>5, AdvanceEffect
  <2>2. head_range' = head_range
    BY DEF Read
  <2> QED BY <2>1, <2>2 DEF Advanced, IInv, TypeInv
<1> QED BY <1>1, <1>4, <1>5 DEF Read

\* The record handed out is part of the first frame.
RecordTo(end) ==
    /\ head_range' = [start |-> fl.offset, end |-> end]
    /\ fl' = [fl EXCEPT !.locked = TRUE]
    /\ end \in (fl.offset + 1)..fl.frames[1].end
    /\ end < fl.frames[1].end /\ PeekFin(1) => CutsLast
    /\ 1 \in DOMAIN fl.frames /\ fl.frames[1].start <= fl.offset /\ Peekable # 0
    /\ out' = [bytes |-> [k \in 1..(end - fl.offset) |->
                            ByteOf(fl.frames[1], fl.offset + k - 1)],
               fin |-> PeekFin(1)]

\* A record is not empty, even where it is cut at the end of the ring buffer.
LEMMA RecordEffect ==
    ASSUME IInv, GetRecord, ~fl.locked, Peekable # 0
    PROVE  \E end : RecordTo(end)
<1>1. /\ Peekable \in 0..Len(fl.frames) /\ Len(fl.frames) \in Nat
      /\ DOMAIN fl.frames = 1..Len(fl.frames) /\ Peeked(Peekable)
      /\ fl.frames \in Frames /\ fl.offset \in Nat
  BY ReadEndIn, ListEnd, PeekEffect, StateFields DEF IInv
<1>2. 1 \in 1..Peekable /\ 1 \in DOMAIN fl.frames /\ fl.frames # <<>>
  BY <1>1
<1>3. PICK f : f = fl.frames[1] /\ f = Head(fl.frames)
  BY <1>1, <1>2, HeadTailProperties DEF Frames
<1>4. f.start <= fl.offset
  BY <1>1, <1>2, <1>3 DEF Peeked, PeekStart
<1>5. /\ f \in Frame /\ f.start \in Int /\ f.end \in Int
      /\ GoodFrame(f, rbuf, fl.offset) /\ RingOK(rbuf, fl.offset)
  BY <1>1, <1>2, <1>3, FrameFields DEF IInv, ListInv, Good
<1>6. PICK room : room = rbuf.alloc - (fl.offset % rbuf.alloc)
  OBVIOUS
<1>7. PICK end : end = IF f.data = NoData THEN Smaller(f.end, fl.offset + room) ELSE f.end
  OBVIOUS
<1>8. /\ end < f.end /\ PeekFin(1) => CutsLast
      /\ head_range' = [start |-> fl.offset, end |-> end]
      /\ fl' = [fl EXCEPT !.locked = TRUE]
      /\ out' = [bytes |-> [k \in 1..(end - fl.offset) |->
                              ByteOf(f, fl.offset + k - 1)],
                 fin |-> PeekFin(1)]
  BY <1>3, <1>6, <1>7 DEF GetRecord
<1>9. fl.offset < f.end
  BY <1>5 DEF GoodFrame
<1>10. end \in (fl.offset + 1)..f.end
  <2>1. CASE f.data # NoData
    <3>1. end = f.end
      BY <1>7, <2>1
    <3> QED BY <1>1, <1>5, <1>9, <3>1
  <2>2. CASE f.data = NoData
    <3>1. end = Smaller(f.end, fl.offset + room)
      BY <1>7, <2>2
    <3>2. rbuf.alloc \in Nat /\ rbuf.head \in Nat /\ rbuf.head <= fl.offset + rbuf.alloc
      BY <1>5, RingFields DEF RingOK
    <3>3. f.end <= rbuf.head
      BY <1>5, <2>2 DEF GoodFrame
    <3>4. rbuf.alloc # 0
      BY <1>1, <1>5, <1>9, <3>2, <3>3
    <3>5. fl.offset % rbuf.alloc \in 0..(rbuf.alloc - 1)
      BY <1>1, <3>2, <3>4, DivMod
    <3>6. room \in Int /\ room > 0
      BY <1>6, <3>2, <3>5
    <3> QED BY <1>1, <1>5, <1>9, <3>1, <3>6 DEF Smaller
  <2> QED BY <2>1, <2>2
<1>11. RecordTo(end)
  BY <1>2, <1>3, <1>4, <1>8, <1>10 DEF RecordTo
<1> QED BY <1>11

\* Without a record nothing changes but the result.
LEMMA NoRecord ==
    ASSUME IInv, GetRecord, fl.locked \/ Peekable = 0
    PROVE  /\ out' = [bytes |-> <<>>, fin |-> ~fl.locked /\ PeekFin(0)]
           /\ UNCHANGED <<fl, head_range, rbuf>>
<1>1. Peekable \in 0..Len(fl.frames)
  BY ReadEndIn
<1>2. ~(~fl.locked /\ Peekable > 0)
  BY <1>1
<1> QED BY <1>2 DEF GetRecord

\* ossl_quic_rstream_get_record.
LEMMA GetRecordInv ==
    ASSUME IInv, GetRecord
    PROVE  IInv'
<1>0. rbuf' = rbuf
  BY DEF GetRecord
<1>1. CASE ~fl.locked /\ Peekable # 0
  <2>1. PICK end : RecordTo(end)
    BY <1>1, RecordEffect
  <2>2. /\ fl' = [fl EXCEPT !.locked = TRUE] /\ 1 \in DOMAIN fl.frames
        /\ fl.frames[1].start <= fl.offset
        /\ head_range' = [start |-> fl.offset, end |-> end]
        /\ end \in (fl.offset + 1)..fl.frames[1].end
    BY <2>1 DEF RecordTo
  <2>3. /\ fl.frames \in Frames /\ fl.offset \in 0..Size /\ Size \in Nat /\ fl.offset \in Nat
        /\ fl \in FlType
    BY StateFields DEF IInv, TypeInv
  <2>4. fl.frames[1].end \in 0..Size /\ fl.frames[1].start \in Int
    BY <2>2, <2>3, FrameFields
  <2>5. /\ fl' \in FlType /\ fl'.frames = fl.frames /\ fl'.fin = fl.fin
        /\ fl'.offset = fl.offset /\ fl'.locked = TRUE
    BY <2>2, <2>3 DEF FlType
  <2>6. /\ end \in 0..Size /\ fl.offset < end /\ end <= fl.frames[1].end
        /\ head_range'.start = fl.offset /\ head_range'.end = end
    BY <2>2, <2>3, <2>4
  <2>7. TypeInv'
    BY <2>2, <2>3, <2>5, <2>6 DEF TypeInv
  <2>8. ListInv' /\ FinInv'
    BY <1>0, <2>5 DEF IInv, ListInv, FinInv
  <2>9. ASSUME NEW b \in fl.offset..(end - 1) PROVE Covers(fl.frames, b)
    <3>1. In(fl.frames[1], b)
      BY <2>2, <2>3, <2>4, <2>6 DEF In
    <3> QED BY <2>2, <3>1 DEF Covers
  <2>10. RecordInv'
    BY <2>5, <2>6, <2>9 DEF RecordInv
  <2> QED BY <2>7, <2>8, <2>10 DEF IInv
<1>2. CASE fl.locked \/ Peekable = 0
  <2>1. UNCHANGED <<fl, head_range, rbuf>>
    BY <1>2, NoRecord
  <2> QED BY <2>1 DEF IInv, TypeInv, ListInv, FinInv, RecordInv
<1> QED BY <1>1, <1>2

\* ossl_quic_rstream_release_record moves the reader within the record it holds.
LEMMA ReleaseInv ==
    ASSUME IInv, NEW n \in 0..Size, ReleaseRecord(n)
    PROVE  Advanced(fl.offset + n) /\ IInv'
<1>1. /\ fl.locked /\ head_range.start + n <= head_range.end
      /\ fl' = Drop(head_range.start + n) /\ head_range' = head_range
      /\ rbuf' = IF head_range.start + n > 0 THEN RingCull(rbuf, head_range.start + n)
                 ELSE rbuf
  BY DEF ReleaseRecord
<1>2. head_range.start = fl.offset
  BY <1>1 DEF IInv, RecordInv
<1>3. /\ fl.offset \in 0..Size /\ Size \in Nat /\ head_range.end \in 0..Size
      /\ fl.offset \in Nat
  BY StateFields DEF IInv
<1>4. PICK x : x = fl.offset + n
  OBVIOUS
<1>5. x \in fl.offset..Size /\ (x > 0 \/ x = 0)
  BY <1>1, <1>2, <1>3, <1>4
<1>6. fl' = Drop(x) /\ (rbuf' = RingCull(rbuf, x) \/ (x = 0 /\ rbuf' = rbuf))
  BY <1>1, <1>2, <1>4, <1>5
<1>7. Advanced(x)
  BY <1>5, <1>6, AdvanceEffect
<1>8. IInv'
  BY <1>1, <1>7 DEF Advanced, IInv, TypeInv
<1> QED BY <1>4, <1>7, <1>8

\* Moving data changes how frames are stored, not what they hold.
LEMMA MoveInv ==
    ASSUME IInv, MoveToRbuf
    PROVE  /\ IInv' /\ fl'.offset = fl.offset /\ fl'.fin = fl.fin
           /\ fl'.locked = fl.locked
           /\ \A b \in Int : Covers(fl'.frames, b) <=> Covers(fl.frames, b)
<1>0. /\ TypeInv /\ Sorted(fl.frames) /\ RingOK(rbuf, fl.offset)
      /\ Good(fl.frames, rbuf, fl.offset) /\ FinInv /\ RecordInv
  BY DEF IInv, ListInv
<1>1. /\ fl.frames \in Frames /\ fl.offset \in 0..Size /\ fl.offset \in Nat
      /\ head_range.end \in 0..Size /\ Size \in Nat /\ fl \in FlType
  BY <1>0, StateFields DEF TypeInv
<1>2. PICK skip \in {0, 1} : skip = IF fl.locked THEN 1 ELSE 0
  OBVIOUS
<1>3. PICK m : m = FoldLeft(MoveFrame, [fits |-> TRUE, limit |-> fl.offset, rbuf |-> rbuf,
                                        frames |-> <<>>], From(fl.frames, skip + 1))
  OBVIOUS
<1>4. PICK fr : fr = Upto(fl.frames, skip) \o m.frames
  OBVIOUS
<1>5. /\ fl.frames # <<>> /\ fl' = [fl EXCEPT !.frames = fr] /\ rbuf' = m.rbuf
      /\ head_range' = head_range
  BY <1>2, <1>3, <1>4 DEF MoveToRbuf
<1>6. Settled(fl.frames, fr, rbuf, m.rbuf, fl.offset)
  BY <1>0, <1>1, <1>3, <1>4, <1>5, MoveEffect
<1>7. /\ fr \in Frames /\ Sorted(fr) /\ Good(fr, m.rbuf, fl.offset)
      /\ RingOK(m.rbuf, fl.offset)
      /\ \A b \in Int : Covers(fr, b) <=> Covers(fl.frames, b)
      /\ Reaches(fl.frames, Size) => Reaches(fr, Size)
  BY <1>1, <1>6 DEF Settled, Grown
<1>8. /\ fl' \in FlType /\ fl'.frames = fr /\ fl'.offset = fl.offset
      /\ fl'.fin = fl.fin /\ fl'.locked = fl.locked
  BY <1>1, <1>5, <1>7 DEF FlType
<1>9. TypeInv' /\ ListInv' /\ FinInv'
  BY <1>0, <1>5, <1>7, <1>8 DEF TypeInv, ListInv, FinInv
<1>10. RecordInv'
  <2>1. \A b \in fl.offset..(head_range.end - 1) : b \in Int
    BY <1>1
  <2> QED BY <1>0, <1>5, <1>7, <1>8, <2>1 DEF RecordInv
<1> QED BY <1>7, <1>8, <1>9, <1>10 DEF IInv

\* ossl_quic_rstream_resize_rbuf.
LEMMA ResizeInv ==
    ASSUME IInv, NEW n \in RbufSizes, ResizeRbuf(n)
    PROVE  IInv'
<1>0. /\ TypeInv /\ Sorted(fl.frames) /\ RingOK(rbuf, fl.offset)
      /\ Good(fl.frames, rbuf, fl.offset)
  BY DEF IInv, ListInv
<1>1. fl.frames \in Frames /\ fl.offset \in Nat
  BY <1>0, StateFields
<1>2. /\ n \in Nat /\ n # 0 /\ rbuf.head - fl.offset <= n
      /\ fl' = fl /\ head_range' = head_range
  BY <1>0, RbufAssumption DEF ResizeRbuf, RingUsed, RingOK
<1>3. PICK w : w = rbuf' /\ w = RingResized(rbuf, n)
  BY DEF ResizeRbuf
<1>4. /\ RingOK(w, fl.offset) /\ w.head = rbuf.head
      /\ \A b \in fl.offset..(rbuf.head - 1) : Right(rbuf, b) => Right(w, b)
  BY <1>0, <1>2, <1>3, ResizeEffect
<1>5. rbuf.head \in Nat
  BY <1>0, RingFields DEF RingOK
<1>6. Good(fl.frames, w, fl.offset)
  <2> SUFFICES ASSUME NEW i \in DOMAIN fl.frames
               PROVE  GoodFrame(fl.frames[i], w, fl.offset)
    BY DEF Good
  <2>1. fl.frames[i] \in Frame /\ GoodFrame(fl.frames[i], rbuf, fl.offset)
    BY <1>0, <1>1, FrameFields DEF Good
  <2>2. fl.offset < fl.frames[i].end /\ rbuf.head <= w.head /\ w.head \in Nat
        /\ fl.offset <= fl.offset
    BY <1>1, <1>4, <1>5, <2>1 DEF GoodFrame
  <2> QED BY <1>1, <1>4, <1>5, <2>1, <2>2, GoodKept
<1>7. ListInv'
  BY <1>0, <1>2, <1>3, <1>4, <1>6 DEF ListInv
<1>8. TypeInv' /\ FinInv' /\ RecordInv'
  BY <1>2 DEF IInv, TypeInv, FinInv, RecordInv
<1> QED BY <1>7, <1>8 DEF IInv

\* Every call keeps the invariant.
LEMMA NextInv ==
    ASSUME IInv, [Next]_vars
    PROVE  IInv'
<1>1. CASE \E b \in 0..Size, fin \in BOOLEAN : \E a \in 0..b : QueueData(a, b, fin)
  BY <1>1, QueueInv
<1>2. ASSUME NEW n \in 0..Size, Peek(n) PROVE IInv'
  BY <1>2 DEF Peek, IInv, TypeInv, ListInv, FinInv, RecordInv
<1>3. ASSUME NEW n \in 0..Size, Read(n) PROVE IInv'
  BY <1>3, ReadInv
<1>4. ASSUME NEW n \in 0..Size, ReleaseRecord(n) PROVE IInv'
  BY <1>4, ReleaseInv
<1>5. CASE GetRecord
  BY <1>5, GetRecordInv
<1>6. CASE MoveToRbuf
  BY <1>6, MoveInv
<1>7. ASSUME NEW n \in RbufSizes, ResizeRbuf(n) PROVE IInv'
  BY <1>7, ResizeInv
<1>8. CASE UNCHANGED vars
  BY <1>8 DEF vars, IInv, TypeInv, ListInv, FinInv, RecordInv
<1> QED BY <1>1, <1>2, <1>3, <1>4, <1>5, <1>6, <1>7, <1>8 DEF Next

-----------------------------------------------------------------------------
(* Theorems *)

\* The list is sorted, within the stream and not read yet, the ring buffer holds
\* the bytes of the frames moved to it, the known end of the stream is reached,
\* and a record that is held is there: for any order of arrival, any overlaps
\* and any calls of ossl_quic_rstream_*.
THEOREM BufferInvariant == Spec => []IInv
<1>1. Init => IInv
  BY InitInv
<1>2. IInv /\ [Next]_vars => IInv'
  BY NextInv
<1> QED BY <1>1, <1>2, PTL DEF Spec

\* The invariant orders the list.
LEMMA ListOrderedHolds ==
    ASSUME IInv
    PROVE  ListOrdered
<1>1. /\ fl.frames \in Frames /\ Sorted(fl.frames) /\ Good(fl.frames, rbuf, fl.offset)
  BY StateFields DEF IInv, ListInv
<1>2. PICK n \in Nat : n = Len(fl.frames) /\ DOMAIN fl.frames = 1..n
  BY <1>1, FrameFields
<1>3. ASSUME NEW i \in DOMAIN fl.frames
      PROVE  fl.frames[i].start <= fl.frames[i].end /\ fl.frames[i].end <= Size
  <2>1. fl.frames[i].end \in 0..Size
    BY <1>1, FrameFields
  <2>2. fl.frames[i].start <= fl.frames[i].end
    BY <1>1 DEF Good, GoodFrame
  <2> QED BY <2>1, <2>2, SizeAssumption
<1>4. ASSUME NEW i \in 1..(n - 1)
      PROVE  fl.frames[i].start <= fl.frames[i + 1].start
             /\ fl.frames[i].end < fl.frames[i + 1].end
  <2>1. i \in DOMAIN fl.frames /\ i + 1 \in DOMAIN fl.frames /\ i < i + 1
    BY <1>2
  <2>2. Before(fl.frames[i], fl.frames[i + 1])
    BY <1>1, <2>1 DEF Sorted
  <2> QED BY <2>2 DEF Before
<1>5. ASSUME fl.frames # <<>> PROVE fl.offset < Head(fl.frames).end
  <2>1. n # 0
    BY <1>1, <1>2, <1>5, EmptySeq DEF Frames
  <2>2. 1 \in DOMAIN fl.frames
    BY <1>2, <2>1
  <2>3. Head(fl.frames) = fl.frames[1]
    BY <1>1, <1>5, HeadTailProperties DEF Frames
  <2>4. fl.offset < fl.frames[1].end
    BY <1>1, <2>2 DEF Good, GoodFrame
  <2> QED BY <2>3, <2>4
<1> QED BY <1>2, <1>3, <1>4, <1>5 DEF ListOrdered

\* quic_sf_list.c keeps the order that every loop over the list relies on,
\* however frames overlap and wherever a drop or a move leaves the list.
THEOREM ListStaysOrdered == Spec => []ListOrdered
<1>1. IInv => ListOrdered
  BY ListOrderedHolds
<1> QED BY <1>1, BufferInvariant, PTL

\* The invariant implies the assertions.
LEMMA AssertionsFollow ==
    ASSUME IInv
    PROVE  AssertionsHold
<1>1. /\ fl.frames \in Frames /\ Good(fl.frames, rbuf, fl.offset)
      /\ RingOK(rbuf, fl.offset) /\ fl.offset \in Nat
  BY StateFields DEF IInv, ListInv
<1>2. /\ Len(fl.frames) \in Nat /\ DOMAIN fl.frames = 1..Len(fl.frames)
      /\ Len(fl.frames) # 0 => fl.offset < Size
      /\ fl.fin => IF Len(fl.frames) = 0 THEN fl.offset = Size
                   ELSE fl.frames[Len(fl.frames)].end = Size
  BY ListEnd
<1>3. /\ rbuf.head \in Nat /\ rbuf.alloc \in Nat /\ rbuf.ctail = fl.offset
      /\ rbuf.head <= fl.offset + rbuf.alloc
  BY <1>1, RingFields DEF RingOK
<1>4. ASSUME NEW i \in DOMAIN fl.frames, i = Peekable + 1
      PROVE  fl.frames[i].start > PeekStart(i)
  <2>1. Peeked(Peekable)
    BY PeekEffect
  <2>2. PICK p \in 0..Len(fl.frames) : p = Peekable
    BY <2>1 DEF Peeked
  <2>3. p < Len(fl.frames)
    BY <1>2, <1>4, <2>2
  <2> QED BY <1>4, <2>1, <2>2, <2>3 DEF Peeked
<1>5. ASSUME NEW i \in DOMAIN fl.frames, fl.frames[i].data = NoData,
             NEW b \in Larger(fl.offset, fl.frames[i].start)..(fl.frames[i].end - 1)
      PROVE  RingHas(rbuf, b)
  <2>1. fl.frames[i].start \in Int /\ fl.frames[i].end \in Int
    BY <1>1, FrameFields
  <2>2. fl.frames[i].end <= rbuf.head
    BY <1>1, <1>5 DEF Good, GoodFrame
  <2>3. b \in Int /\ fl.offset <= b /\ b < fl.frames[i].end
    BY <1>1, <2>1 DEF Larger
  <2> QED BY <1>1, <1>3, <2>1, <2>2, <2>3 DEF RingHas
<1>6. RingUsed(rbuf) <= rbuf.alloc
  BY <1>1, <1>3 DEF RingUsed
<1>7. fl.fin => (IF fl.frames = <<>> THEN fl.offset ELSE Last(fl.frames).end) = Size
  <2>1. fl.frames = <<>> <=> Len(fl.frames) = 0
    BY <1>1, EmptySeq DEF Frames
  <2> QED BY <1>2, <2>1 DEF Last
<1> QED BY <1>4, <1>5, <1>6, <1>7 DEF AssertionsHold

\* No assert of quic_sf_list.c, quic_rstream.c and ring_buf.h can fail: a frame
\* without a gap before it has bytes, moved data is in the ring buffer whole, and
\* the list ends where the stream does once the end is known.
THEOREM NoAssertionFails == Spec => []AssertionsHold
<1>1. IInv => AssertionsHold
  BY AssertionsFollow
<1> QED BY <1>1, BufferInvariant, PTL

-----------------------------------------------------------------------------
(* The refinement of the plain buffer *)

\* The received bytes are those the list covers.
LEMMA ReceivedIs ==
    ASSUME IInv, NEW b \in Int
    PROVE  b \in Received <=> b \in fl.offset..(Size - 1) /\ Covers(fl.frames, b)
<1>1. fl.frames \in Frames
  BY StateFields DEF IInv
<1>2. \A i \in DOMAIN fl.frames : fl.frames[i].start \in Int /\ fl.frames[i].end \in Int
  BY <1>1, FrameFields
<1> QED BY <1>2 DEF Received, Covers, In

\* What can be read without waiting: ossl_sframe_list_peek stops at a gap.
LEMMA AvailIs ==
    ASSUME IInv
    PROVE  Abstract!Avail = ReadEnd - fl.offset
<1>1. /\ ReadEnd \in fl.offset..Size /\ ReadEnd \in Nat /\ Peekable \in 0..Len(fl.frames)
      /\ ReadEnd = IF Peekable = 0 THEN fl.offset ELSE fl.frames[Peekable].end
      /\ Peeked(Peekable) /\ fl.frames \in Frames /\ Sorted(fl.frames)
      /\ fl.offset \in Nat /\ Size \in Nat
      /\ Len(fl.frames) \in Nat /\ DOMAIN fl.frames = 1..Len(fl.frames)
  BY ReadEndIn, PeekEffect, ListEnd, StateFields DEF IInv, ListInv
<1>2. ASSUME NEW b \in fl.offset..(ReadEnd - 1) PROVE b \in Received
  <2>1. b \in Int /\ fl.offset <= b /\ b < ReadEnd /\ b \in fl.offset..(Size - 1)
    BY <1>1
  <2>2. PICK i \in 1..Peekable : Segment(i, b)
    BY <2>1, SegmentOf
  <2>3. Covers(fl.frames, b)
    BY <2>1, <2>2, SegmentIn DEF Covers
  <2> QED BY <2>1, <2>3, ReceivedIs
<1>3. ~Covers(fl.frames, ReadEnd)
  <2> SUFFICES ASSUME NEW j \in 1..Len(fl.frames), In(fl.frames[j], ReadEnd) PROVE FALSE
    BY <1>1 DEF Covers
  <2>1. PICK p \in 0..Len(fl.frames) : p = Peekable
    BY <1>1
  <2>2. fl.frames[j].start \in Int /\ fl.frames[j].end \in Int
    BY <1>1, FrameFields
  <2>3. CASE j <= p
    <3>1. p \in 1..Len(fl.frames) /\ p # 0
      BY <1>1, <2>3
    <3>2. ReadEnd = fl.frames[p].end
      BY <1>1, <2>1, <3>1
    <3>3. CASE j = p
      BY <1>1, <2>2, <3>2, <3>3 DEF In
    <3>4. CASE j < p
      <4>1. Before(fl.frames[j], fl.frames[p])
        BY <1>1, <3>1, <3>4 DEF Sorted
      <4> QED BY <1>1, <2>2, <3>2, <4>1, SMTT(30) DEF In, Before
    <3> QED BY <1>1, <2>3, <3>3, <3>4
  <2>4. CASE p < j
    <3>1. p < Len(fl.frames) /\ p + 1 \in 1..Len(fl.frames)
      BY <1>1, <2>4
    <3>2. fl.frames[p + 1].start > ReadEnd
      BY <1>1, <2>1, <3>1 DEF Peeked, ReadEnd
    <3>3. fl.frames[p + 1].start \in Int
      BY <1>1, <3>1, FrameFields, SMTT(30)
    <3>4. CASE j = p + 1
      BY <1>1, <3>2, <3>3, <3>4 DEF In
    <3>5. CASE p + 1 < j
      <4>1. Before(fl.frames[p + 1], fl.frames[j])
        BY <1>1, <3>1, <3>5 DEF Sorted
      <4> QED BY <1>1, <2>2, <3>2, <3>3, <4>1, SMTT(30) DEF In, Before
    <3> QED BY <1>1, <2>4, <3>4, <3>5
  <2> QED BY <1>1, <2>3, <2>4
<1>4. ReadEnd \notin Received
  <2>1. ReadEnd \in Int
    BY <1>1
  <2> QED BY <1>3, <2>1, ReceivedIs
<1> DEFINE A == {b \in Received : \A c \in fl.offset..b : c \in Received}
<1>5. A = fl.offset..(ReadEnd - 1)
  <2>1. ASSUME NEW b \in A PROVE b \in fl.offset..(ReadEnd - 1)
    <3>1. b \in fl.offset..(Size - 1) /\ \A c \in fl.offset..b : c \in Received
      BY DEF Received
    <3>2. b \in Int /\ fl.offset <= b
      BY <1>1, <3>1
    <3>3. ASSUME ReadEnd <= b PROVE FALSE
      <4>1. ReadEnd \in fl.offset..b
        BY <1>1, <3>2, <3>3
      <4> QED BY <1>4, <3>1, <4>1
    <3> QED BY <1>1, <3>2, <3>3
  <2>2. ASSUME NEW b \in fl.offset..(ReadEnd - 1) PROVE b \in A
    <3>1. \A c \in fl.offset..b : c \in fl.offset..(ReadEnd - 1)
      BY <1>1
    <3>2. b \in Received /\ \A c \in fl.offset..b : c \in Received
      BY <1>2, <3>1
    <3> QED BY <3>2
  <2> HIDE DEF A
  <2> QED BY <2>1, <2>2
<1>6. Abstract!Avail = Cardinality(A)
  BY DEF Abstract!Avail, Abstract!Cardinality, Cardinality
<1>7. Cardinality(fl.offset..(ReadEnd - 1)) = ReadEnd - fl.offset
  <2>1. fl.offset \in Int /\ ReadEnd - 1 \in Int
    BY <1>1
  <2>2. Cardinality(fl.offset..(ReadEnd - 1))
          = IF fl.offset > ReadEnd - 1 THEN 0 ELSE ReadEnd - 1 - fl.offset + 1
    BY <2>1, FS_Interval
  <2> QED BY <1>1, <2>2, SMTT(30)
<1> HIDE DEF A
<1> QED BY <1>5, <1>6, <1>7

\* Whether a read that stops at end reports the end of the stream.
LEMMA ReadFin ==
    ASSUME IInv, NEW n \in Nat, NEW x, x = Smaller(ReadEnd, fl.offset + n)
    PROVE  (PeekFin(Peekable) /\ (Peekable = 0 \/ fl.frames[Peekable].end = x))
              <=> (fl.fin /\ x = Size)
<1>1. /\ ReadEnd \in fl.offset..Size /\ ReadEnd \in Nat /\ Peekable \in 0..Len(fl.frames)
      /\ ReadEnd = IF Peekable = 0 THEN fl.offset ELSE fl.frames[Peekable].end
      /\ fl.offset \in Nat /\ Size \in Nat /\ fl.frames \in Frames /\ Sorted(fl.frames)
      /\ Len(fl.frames) \in Nat /\ DOMAIN fl.frames = 1..Len(fl.frames)
      /\ Len(fl.frames) # 0 => fl.offset < Size
      /\ fl.fin => IF Len(fl.frames) = 0 THEN fl.offset = Size
                   ELSE fl.frames[Len(fl.frames)].end = Size
  BY ReadEndIn, ListEnd, StateFields DEF IInv, ListInv
<1>2. PICK p \in 0..Len(fl.frames) : p = Peekable
  BY <1>1
<1>3. x \in Nat /\ x <= ReadEnd /\ fl.offset <= x
  BY <1>1 DEF Smaller
<1>4. CASE p = 0
  <2>1. x = fl.offset
    BY <1>1, <1>2, <1>3, <1>4
  <2> QED BY <1>1, <1>2, <1>4, <2>1 DEF PeekFin
<1>5. CASE p # 0
  <2>1. p \in 1..Len(fl.frames) /\ ReadEnd = fl.frames[p].end /\ Len(fl.frames) # 0
    BY <1>1, <1>2, <1>5
  <2>2. ASSUME fl.fin, x = Size PROVE p = Len(fl.frames) /\ fl.frames[p].end = x
    <3>1. fl.frames[p].end = Size
      BY <1>1, <1>3, <2>1, <2>2
    <3>2. ASSUME p < Len(fl.frames) PROVE FALSE
      <4>1. Before(fl.frames[p], fl.frames[Len(fl.frames)])
        BY <1>1, <2>1, <3>2 DEF Sorted
      <4> QED BY <1>1, <2>1, <2>2, <3>1, <4>1 DEF Before
    <3> QED BY <1>1, <2>1, <2>2, <3>1, <3>2
  <2> QED BY <1>1, <1>2, <1>5, <2>1, <2>2 DEF PeekFin
<1> QED BY <1>4, <1>5

\* read_internal returns what the plain buffer does.
LEMMA ReadIs ==
    ASSUME IInv, NEW n \in 0..Size,
           NEW k, k = IF n < Abstract!Avail THEN n ELSE Abstract!Avail
    PROVE  /\ ReadResult(n).end = fl.offset + k
           /\ ReadResult(n).out = Abstract!Result(k)
<1>1. /\ n \in Nat /\ fl.offset \in Nat /\ Size \in Nat
      /\ ReadEnd \in fl.offset..Size /\ ReadEnd \in Nat
      /\ Abstract!Avail = ReadEnd - fl.offset
  BY ReadEndIn, AvailIs, StateFields DEF IInv
<1>2. PICK x : x = ReadResult(n).end
  OBVIOUS
<1>3. x = Smaller(ReadEnd, fl.offset + n)
  BY <1>1, <1>2, ReadTo
<1>4. k \in Nat /\ x = fl.offset + k /\ x <= ReadEnd /\ x <= fl.offset + n /\ x \in Nat
  BY <1>1, <1>3 DEF Smaller
<1> DEFINE frame(b) == CHOOSE i \in 1..Peekable : b \in PeekStart(i)..Taken(i, n)
           bytes == [j \in 1..(x - fl.offset) |->
                       ByteOf(fl.frames[frame(fl.offset + j - 1)], fl.offset + j - 1)]
           end == PeekFin(Peekable) /\ (Peekable = 0 \/ fl.frames[Peekable].end = x)
<1>5. ReadResult(n).out = [bytes |-> bytes, fin |-> end]
  BY <1>2 DEF ReadResult
<1>6. ASSUME NEW b \in Int, fl.offset <= b, b < x
      PROVE  ByteOf(fl.frames[frame(b)], b) = b
  <2>1. b < ReadEnd /\ b < fl.offset + n
    BY <1>1, <1>4, <1>6
  <2>2. ASSUME NEW i \in 1..Peekable
        PROVE  b \in PeekStart(i)..Taken(i, n) <=> Segment(i, b)
    <3>1. i \in 1..Len(fl.frames) /\ i \in 1..(Len(fl.frames) + 1)
      BY ReadEndIn, ListEnd
    <3>2. PeekStart(i) \in Int
      BY <1>1, <3>1, PeekStarts
    <3>3. fl.frames[i].end \in Int
      BY <3>1, FrameFields, StateFields DEF IInv
    <3> QED BY <1>1, <1>6, <2>1, <3>2, <3>3 DEF Taken, Smaller, Segment
  <2>3. \E i \in 1..Peekable : b \in PeekStart(i)..Taken(i, n)
    BY <1>6, <2>1, <2>2, SegmentOf
  <2>4. PICK i \in 1..Peekable : i = frame(b) /\ b \in PeekStart(i)..Taken(i, n)
    BY <2>3
  <2>5. Segment(i, b)
    BY <2>2, <2>4
  <2>6. i \in DOMAIN fl.frames /\ In(fl.frames[i], b)
    BY <1>6, <2>5, SegmentIn
  <2>7. ByteOf(fl.frames[i], b) = b
    BY <1>6, <2>6, ByteRight
  <2> HIDE DEF frame
  <2> QED BY <2>4, <2>7
<1>7. bytes = [j \in 1..k |-> fl.offset + j - 1]
  <2>1. x - fl.offset = k
    BY <1>1, <1>4
  <2>2. ASSUME NEW j \in 1..k
        PROVE  ByteOf(fl.frames[frame(fl.offset + j - 1)], fl.offset + j - 1)
                 = fl.offset + j - 1
    <3>1. PICK b \in Int : b = fl.offset + j - 1
      BY <1>1, <1>4
    <3>2. fl.offset <= b /\ b < x
      BY <1>1, <1>4, <3>1
    <3> HIDE DEF frame
    <3> QED BY <1>6, <3>1, <3>2
  <2> HIDE DEF frame
  <2> QED BY <2>1, <2>2
<1>8. end <=> (fl.fin /\ fl.offset + k = Size)
  <2> HIDE DEF end
  <2>1. end <=> (fl.fin /\ x = Size)
    BY <1>1, <1>3, ReadFin DEF end
  <2> QED BY <1>4, <2>1
<1>9. end \in BOOLEAN /\ fl.fin \in BOOLEAN
  BY StateFields DEF IInv, PeekFin
<1>10. end = (fl.fin /\ fl.offset + k = Size)
  <2> HIDE DEF end
  <2> QED BY <1>8, <1>9
<1>11. [bytes |-> bytes, fin |-> end] = Abstract!Result(k)
  <2> HIDE DEF end, bytes
  <2> QED BY <1>7, <1>10 DEF Abstract!Result
<1> QED BY <1>2, <1>4, <1>5, <1>11

\* The record as the plain buffer sees it.
Held == IF fl.locked THEN head_range.end - head_range.start ELSE -1

\* No record is of length -1.
LEMMA HeldIs ==
    ASSUME IInv
    PROVE  Held = -1 <=> ~fl.locked
<1>1. head_range.start \in Nat /\ head_range.end \in Nat
  BY StateFields DEF IInv
<1>2. fl.locked => head_range.start < head_range.end
  BY DEF IInv, RecordInv
<1> QED BY <1>1, <1>2 DEF Held

\* What is left when the reader has moved on by n bytes.
LEMMA ConsumeIs ==
    ASSUME IInv, IInv', NEW n, Advanced(fl.offset + n)
    PROVE  Abstract!Consume(n)
<1>1. PICK x : x = fl.offset + n
  OBVIOUS
<1>2. /\ fl'.offset = x /\ fl'.fin = fl.fin /\ Dropped(fl.frames, x, fl'.frames)
  BY <1>1 DEF Advanced
<1>3. fl'.offset \in Nat /\ fl.offset \in Nat /\ Size \in Nat /\ fl.frames \in Frames
  <2>1. TypeInv /\ TypeInv'
    BY DEF IInv
  <2> QED BY <2>1, SizeAssumption DEF TypeInv, FlType
<1>4. x \in Nat /\ fl'.frames \in Frames
  BY <1>2, <1>3 DEF Dropped
<1>5. ASSUME NEW b \in Int, x <= b PROVE Covers(fl'.frames, b) <=> Covers(fl.frames, b)
  <2>1. ASSUME Covers(fl'.frames, b) PROVE Covers(fl.frames, b)
    BY <1>2, <2>1 DEF Dropped, Covers
  <2>2. ASSUME Covers(fl.frames, b) PROVE Covers(fl'.frames, b)
    <3>1. PICK j \in DOMAIN fl.frames : In(fl.frames[j], b)
      BY <2>2 DEF Covers
    <3>2. fl.frames[j].end \in Int
      BY <1>3, FrameFields
    <3>3. fl.frames[j].end > x
      BY <1>4, <1>5, <3>1, <3>2 DEF In
    <3> QED BY <1>2, <3>1, <3>3 DEF Dropped, Covers
  <2> QED BY <2>1, <2>2
<1>6. \A b \in Int : b \in Received <=> b \in fl.offset..(Size - 1) /\ Covers(fl.frames, b)
  BY ReceivedIs
<1>7. \A b \in Int : b \in Received' <=> b \in x..(Size - 1) /\ Covers(fl'.frames, b)
  <2>1. \A i \in DOMAIN fl'.frames :
          fl'.frames[i].start \in Int /\ fl'.frames[i].end \in Int
    BY <1>4, FrameFields
  <2> QED BY <1>2, <2>1 DEF Received, Covers, In
<1>8. fl.offset <= x
  BY <1>1 DEF Advanced
<1>9. Received' = {b \in Received : b >= x}
  <2>1. \A b \in Received : b \in Int
    BY <1>3 DEF Received
  <2>2. \A b \in Received' : b \in Int
    BY <1>2, <1>3 DEF Received
  <2>3. ASSUME NEW b \in Int PROVE b \in Received' <=> b \in Received /\ b >= x
    BY <1>3, <1>4, <1>5, <1>6, <1>7, <1>8
  <2> QED BY <2>1, <2>2, <2>3
<1> QED BY <1>1, <1>2, <1>9 DEF Abstract!Consume

\* ossl_quic_rstream_queue_data adds what is new of the frame.
LEMMA QueueIs ==
    ASSUME IInv, NEW b \in 0..Size, NEW fin \in BOOLEAN, NEW a \in 0..b, QueueData(a, b, fin)
    PROVE  Abstract!Receive(a, b, fin)
<1>1. /\ fl.frames \in Frames /\ fl.offset \in Nat /\ Size \in Nat /\ Sorted(fl.frames)
      /\ fl \in FlType /\ a \in Nat /\ b \in Nat /\ a <= b /\ b <= Size
  BY StateFields DEF IInv, ListInv, TypeInv
<1>2. PICK new : new = [start |-> a, end |-> b, data |-> a]
  OBVIOUS
<1>3. PICK fr : fr = IF fl.offset >= b THEN fl.frames ELSE Insert(fl.frames, new)
  OBVIOUS
<1>4. /\ fl' = [fl EXCEPT !.fin = @ \/ fin, !.frames = fr]
      /\ head_range' = head_range /\ out' = Nothing
  BY <1>2, <1>3 DEF QueueData
<1>5. /\ fl'.fin = (fl.fin \/ fin) /\ fl'.frames = fr /\ fl'.offset = fl.offset
      /\ fl'.locked = fl.locked
  BY <1>1, <1>4 DEF FlType
<1>6. fr \in Frames /\ \A c \in Int : c >= fl.offset =>
        (Covers(fr, c) <=> Covers(fl.frames, c) \/ c \in a..(b - 1))
  <2>1. CASE fl.offset >= b
    <3>1. fr = fl.frames
      BY <1>3, <2>1
    <3>2. \A c \in Int : c >= fl.offset => c \notin a..(b - 1)
      BY <1>1, <2>1
    <3> QED BY <1>1, <3>1, <3>2
  <2>2. CASE fl.offset < b
    <3>1. fr = Insert(fl.frames, new)
      BY <1>1, <1>3, <2>2
    <3>2. new \in Frame /\ new.start = a /\ new.end = b
      BY <1>1, <1>2 DEF Frame
    <3>3. Inserted(fl.frames, new, fr)
      BY <1>1, <3>1, <3>2, InsertEffect
    <3>4. \A c \in Int : In(new, c) <=> c \in a..(b - 1)
      BY <1>1, <3>2 DEF In
    <3> QED BY <3>3, <3>4 DEF Inserted
  <2> QED BY <1>1, <2>1, <2>2
<1>7. Received' = Received \cup {c \in a..(b - 1) : c >= fl.offset}
  <2>1. \A c \in Int : c \in Received <=> c \in fl.offset..(Size - 1) /\ Covers(fl.frames, c)
    BY ReceivedIs
  <2>2. \A c \in Int : c \in Received' <=> c \in fl.offset..(Size - 1) /\ Covers(fr, c)
    <3>1. \A i \in DOMAIN fr : fr[i].start \in Int /\ fr[i].end \in Int
      BY <1>6, FrameFields
    <3> QED BY <1>5, <3>1 DEF Received, Covers, In
  <2>3. (\A c \in Received : c \in Int) /\ (\A c \in Received' : c \in Int)
    BY <1>1, <1>5 DEF Received
  <2>4. ASSUME NEW c \in Int
        PROVE  c \in Received' <=> c \in Received \/ (c \in a..(b - 1) /\ c >= fl.offset)
    BY <1>1, <1>6, <2>1, <2>2
  <2>5. \A c \in a..(b - 1) : c \in Int
    BY <1>1
  <2> QED BY <2>3, <2>4, <2>5
<1>8. Abstract!Nothing = Nothing
  BY DEF Abstract!Nothing, Nothing
<1> QED BY <1>4, <1>5, <1>7, <1>8 DEF Abstract!Receive

\* ossl_quic_rstream_peek.
LEMMA PeekIs ==
    ASSUME IInv, NEW n \in 0..Size, Peek(n)
    PROVE  Abstract!Peek(n)
<1>1. PICK k : k = IF n < Abstract!Avail THEN n ELSE Abstract!Avail
  OBVIOUS
<1>2. out' = Abstract!Result(k)
  BY <1>1, ReadIs DEF Peek
<1>3. UNCHANGED <<fl.offset, fl.fin, Held, Received>>
  BY DEF Peek, Held, Received
<1> QED BY <1>1, <1>2, <1>3 DEF Abstract!Peek, Held

\* ossl_quic_rstream_read consumes what it returns.
LEMMA ReadStep ==
    ASSUME IInv, IInv', NEW n \in 0..Size, Read(n)
    PROVE  Abstract!Read(n)
<1>1. PICK k : k = IF n < Abstract!Avail THEN n ELSE Abstract!Avail
  OBVIOUS
<1>2. PICK x : x = ReadResult(n).end
  OBVIOUS
<1>3. x = fl.offset + k /\ ReadResult(n).out = Abstract!Result(k)
  BY <1>1, <1>2, ReadIs
<1>4. ~fl.locked /\ out' = Abstract!Result(k) /\ head_range' = head_range
  BY <1>3 DEF Read
<1>5. /\ fl.offset \in Nat /\ n \in Nat /\ x \in fl.offset..Size /\ Size \in Nat
      /\ ReadEnd \in Nat /\ fl.offset <= ReadEnd /\ x = Smaller(ReadEnd, fl.offset + n)
      /\ Abstract!Avail = ReadEnd - fl.offset
      /\ Peekable = 0 => ReadEnd = fl.offset
  BY <1>2, StateFields, ReadTo, ReadEndIn, AvailIs DEF IInv
<1>6. k \in Nat
  BY <1>1, <1>5
<1>7. Abstract!Consume(k) /\ ~fl'.locked
  <2>1. CASE Peekable = 0 \/ x = 0
    <3>1. UNCHANGED <<fl, rbuf>>
      BY <1>2, <2>1 DEF Read
    <3>2. k = 0
      BY <1>3, <1>5, <1>6, <2>1 DEF Smaller
    <3>3. {b \in Received : b >= fl.offset + k} = Received
      BY <1>5, <3>2 DEF Received
    <3>4. Received' = Received
      BY <3>1 DEF Received
    <3> QED BY <1>4, <1>5, <3>1, <3>2, <3>3, <3>4 DEF Abstract!Consume
  <2>2. CASE ~(Peekable = 0 \/ x = 0)
    <3>1. fl' = Drop(x) /\ rbuf' = RingCull(rbuf, x)
      BY <1>2, <2>2 DEF Read
    <3>2. Advanced(x)
      BY <1>5, <3>1, AdvanceEffect
    <3>3. Abstract!Consume(k)
      BY <1>3, <3>2, ConsumeIs
    <3> QED BY <3>2, <3>3 DEF Advanced
  <2> QED BY <2>1, <2>2
<1>8. Held = -1 /\ Held' = -1
  BY <1>4, <1>7 DEF Held
<1> QED BY <1>1, <1>4, <1>7, <1>8 DEF Abstract!Read, Held

\* ossl_quic_rstream_release_record consumes what the reader says.
LEMMA ReleaseIs ==
    ASSUME IInv, NEW n \in 0..Size, ReleaseRecord(n)
    PROVE  Abstract!ReleaseRecord(n)
<1>1. Advanced(fl.offset + n) /\ IInv'
  BY ReleaseInv
<1>2. Abstract!Consume(n)
  BY <1>1, ConsumeIs
<1>3. fl.locked /\ head_range.start + n <= head_range.end /\ out' = Nothing
  BY DEF ReleaseRecord
<1>4. n <= Held
  <2>1. head_range.start \in Int /\ head_range.end \in Int /\ n \in Int
    BY StateFields DEF IInv
  <2> QED BY <1>3, <2>1 DEF Held
<1>5. Held' = -1
  BY <1>1 DEF Advanced, Held
<1>6. Abstract!Nothing = Nothing
  BY DEF Abstract!Nothing, Nothing
<1> QED BY <1>2, <1>3, <1>4, <1>5, <1>6 DEF Abstract!ReleaseRecord, Held

\* A record is a part of what can be read, and it ends the stream if it says so:
\* this is where the wrap-around must not cut the last frame.
LEMMA GetRecordIs ==
    ASSUME IInv, GetRecord, ~CutsLast
    PROVE  Abstract!GetRecord
<1>1. /\ fl.frames \in Frames /\ Sorted(fl.frames) /\ fl.fin \in BOOLEAN
      /\ fl.offset \in Nat /\ Size \in Nat
      /\ ReadEnd \in fl.offset..Size /\ ReadEnd \in Nat /\ Peekable \in 0..Len(fl.frames)
      /\ ReadEnd = IF Peekable = 0 THEN fl.offset ELSE fl.frames[Peekable].end
      /\ Abstract!Avail = ReadEnd - fl.offset
      /\ Len(fl.frames) \in Nat /\ DOMAIN fl.frames = 1..Len(fl.frames)
      /\ Len(fl.frames) # 0 => fl.offset < Size
      /\ fl.fin => IF Len(fl.frames) = 0 THEN fl.offset = Size
                   ELSE fl.frames[Len(fl.frames)].end = Size
  BY ReadEndIn, ListEnd, AvailIs, StateFields DEF IInv, ListInv
<1>2. PICK p \in 0..Len(fl.frames) : p = Peekable
  BY <1>1
<1>3. CASE ~fl.locked /\ p # 0
  <2>1. PICK end : RecordTo(end)
    BY <1>2, <1>3, RecordEffect
  <2>a. /\ fl' = [fl EXCEPT !.locked = TRUE]
        /\ head_range' = [start |-> fl.offset, end |-> end]
    BY <2>1 DEF RecordTo
  <2>b. out' = [bytes |-> [k \in 1..(end - fl.offset) |->
                             ByteOf(fl.frames[1], fl.offset + k - 1)],
                fin |-> PeekFin(1)]
    BY <2>1 DEF RecordTo
  <2>2. /\ 1 \in DOMAIN fl.frames /\ fl.frames[1].start <= fl.offset
        /\ end \in (fl.offset + 1)..fl.frames[1].end
    BY <2>1 DEF RecordTo
  <2>3. fl.frames[1].end \in 0..Size /\ fl.frames[1].start \in Int
    <3>1. 1 \in 1..Len(fl.frames) /\ fl.frames \in Frames
      BY <1>1, <2>2
    <3> QED BY <3>1, FrameFields
  <2>4. p \in 1..Len(fl.frames) /\ ReadEnd = fl.frames[p].end /\ Len(fl.frames) # 0
    BY <1>1, <1>2, <1>3
  <2>5. fl.frames[1].end <= ReadEnd
    <3>1. CASE p = 1
      BY <1>1, <2>3, <2>4, <3>1
    <3>2. CASE 1 < p
      <4>1. Before(fl.frames[1], fl.frames[p])
        BY <1>1, <2>2, <2>4, <3>2 DEF Sorted
      <4> QED BY <1>1, <2>3, <2>4, <4>1, SMTT(30) DEF Before
    <3> QED BY <2>4, <3>1, <3>2
  <2>6. PICK k : k = end - fl.offset
    OBVIOUS
  <2>7. k \in 1..Abstract!Avail /\ end = fl.offset + k /\ k \in Nat /\ end \in Nat
    <3>1. ReadEnd \in Nat /\ fl.offset \in Nat /\ Size \in Nat
          /\ Abstract!Avail = ReadEnd - fl.offset
      BY <1>1
    <3>2. end \in Int /\ fl.offset + 1 <= end /\ end <= fl.frames[1].end
      BY <2>2, <2>3, <3>1
    <3>a. fl.frames[1].end \in Int
      BY ONLY <2>3, SizeAssumption
    <3>3. PICK o \in Nat, r \in Nat, f \in Int :
            o = fl.offset /\ r = ReadEnd /\ f = fl.frames[1].end
      BY ONLY <3>1, <3>a
    <3>4. o + 1 <= end /\ end <= f /\ f <= r /\ end \in Int
      BY ONLY <2>5, <3>2, <3>3
    <3>5. k = end - o /\ Abstract!Avail = r - o
      BY ONLY <2>6, <3>1, <3>3
    <3>6. k \in 1..(r - o) /\ end = o + k /\ k \in Nat /\ end \in Nat
      BY ONLY <3>4, <3>5, o \in Nat, r \in Nat, f \in Int
    <3> QED BY ONLY <3>3, <3>5, <3>6
  <2>8. /\ fl'.locked = TRUE /\ fl'.frames = fl.frames /\ fl'.offset = fl.offset
        /\ fl'.fin = fl.fin
    <3>1. fl \in FlType
      BY DEF IInv, TypeInv
    <3> QED BY <2>a, <3>1 DEF FlType
  <2>9. Held = -1 /\ Held' = k /\ Received' = Received
    BY <1>3, <2>a, <2>6, <2>8 DEF Held, Received
  <2>10. ASSUME NEW j \in 1..k
         PROVE  ByteOf(fl.frames[1], fl.offset + j - 1) = fl.offset + j - 1
    <3>1. PICK b \in Int : b = fl.offset + j - 1
      BY <1>1, <2>7
    <3>2. fl.offset <= b /\ In(fl.frames[1], b)
      <4>1. fl.offset \in Nat /\ end \in Int /\ end <= fl.frames[1].end
        BY <1>1, <2>2, <2>3
      <4>2. fl.offset <= b /\ b < end
        BY <2>7, <3>1, <4>1
      <4> QED BY <2>2, <2>3, <4>1, <4>2 DEF In
    <3> QED BY <2>2, <3>1, <3>2, ByteRight
  <2>11. out' = [bytes |-> [i \in 1..k |-> fl.offset + i - 1], fin |-> PeekFin(1)]
    BY <2>b, <2>6, <2>10
  <2>12. end < fl.frames[1].end => ~PeekFin(1)
    BY <2>1 DEF RecordTo
  <2>13. PeekFin(1) = (fl.fin /\ fl.offset + k = Size)
    <3>1. CASE PeekFin(1)
      <4>1. 1 = Len(fl.frames) /\ fl.fin
        BY <3>1 DEF PeekFin
      <4>2. fl.frames[1].end = Size
        BY <1>1, <4>1
      <4>3. end = fl.frames[1].end
        BY <2>2, <2>3, <2>7, <2>12, <3>1
      <4> QED BY <2>7, <3>1, <4>1, <4>2, <4>3 DEF PeekFin
    <3>2. CASE ~PeekFin(1)
      <4>1. ~(fl.fin /\ fl.offset + k = Size)
        <5> SUFFICES ASSUME fl.fin, end = Size PROVE FALSE
          BY <2>7
        <5>1. fl.frames[1].end = Size
          BY <1>1, <2>2, <2>3
        <5>2. 1 < Len(fl.frames)
          <6>1. Len(fl.frames) \in Nat /\ Len(fl.frames) # 0 /\ 1 # Len(fl.frames)
            BY <1>1, <2>4, <3>2 DEF PeekFin
          <6>2. PICK l \in Nat : l = Len(fl.frames)
            BY ONLY <6>1
          <6>3. l # 0 /\ 1 # l
            BY ONLY <6>1, <6>2
          <6>4. 1 < l
            BY ONLY <6>3, l \in Nat
          <6> QED BY ONLY <6>2, <6>4
        <5>3. Before(fl.frames[1], fl.frames[Len(fl.frames)])
          <6>1. Len(fl.frames) \in DOMAIN fl.frames /\ Sorted(fl.frames)
            BY <1>1, <5>2
          <6> QED BY <2>2, <5>2, <6>1 DEF Sorted
        <5> QED BY <1>1, <2>3, <2>4, <5>1, <5>3 DEF Before
      <4> QED BY <3>2, <4>1 DEF PeekFin
    <3> QED BY <3>1, <3>2
  <2>14. out' = Abstract!Result(k)
    BY <2>11, <2>13 DEF Abstract!Result
  <2> QED BY <2>7, <2>8, <2>9, <2>14 DEF Abstract!GetRecord, Held
<1>4. CASE fl.locked \/ p = 0
  <2>1. /\ out' = [bytes |-> <<>>, fin |-> ~fl.locked /\ PeekFin(0)]
        /\ UNCHANGED <<fl, head_range, rbuf>>
    BY <1>2, <1>4, NoRecord
  <2>2. Held # -1 \/ Abstract!Avail = 0
    BY <1>1, <1>2, <1>4, HeldIs
  <2>3. (~fl.locked /\ PeekFin(0)) = (Held = -1 /\ (fl.fin /\ fl.offset + 0 = Size))
    <3>1. PeekFin(0) <=> fl.fin /\ fl.offset = Size
      BY <1>1 DEF PeekFin
    <3> QED BY <1>1, <3>1, HeldIs
  <2>4. out' = [Abstract!Result(0) EXCEPT !.fin = Held = -1 /\ @]
    <3>1. PICK by : by = [i \in 1..0 |-> fl.offset + i - 1]
      OBVIOUS
    <3>2. by = <<>>
      BY <3>1
    <3>3. PICK e : e = (fl.fin /\ fl.offset + 0 = Size)
      OBVIOUS
    <3>4. Abstract!Result(0) = [bytes |-> by, fin |-> e]
      BY <3>1, <3>3 DEF Abstract!Result
    <3>5. out' = [bytes |-> by, fin |-> Held = -1 /\ e]
      BY <2>1, <2>3, <3>2, <3>3
    <3> QED BY <3>4, <3>5
  <2>5. UNCHANGED <<fl.offset, fl.fin, Held, Received>>
    BY <2>1 DEF Held, Received
  <2> QED BY <2>2, <2>4, <2>5 DEF Abstract!GetRecord, Held
<1> QED BY <1>3, <1>4

\* QUIC_RSTREAM implements RecvBuffer: whatever order frames arrive in, however
\* they overlap, and whenever data is moved to the ring buffer or that is resized,
\* every call returns the bytes of the stream in order and its end exactly where it
\* is, to a reader that asks for no record the wrap-around cuts from the last frame.
THEOREM RecvBufferImplemented == ~CutsLast => (Spec => ImplementsRecvBuffer)
<1>0. SUFFICES ASSUME ~CutsLast PROVE Spec => ImplementsRecvBuffer
  OBVIOUS
<1>1. ASSUME Init PROVE Abstract!Init
  <2>1. /\ fl = [frames |-> <<>>, fin |-> FALSE, offset |-> 0, locked |-> FALSE]
        /\ out = Nothing
    BY <1>1 DEF Init
  <2>2. Received = {}
    BY <2>1 DEF Received
  <2> QED BY <2>1, <2>2 DEF Abstract!Init, Abstract!Nothing, Nothing
<1>2. ASSUME IInv, [Next]_vars
      PROVE  [Abstract!Next]_(Abstract!vars)
  <2>0. IInv'
    BY <1>2, NextInv
  <2>1. CASE \E b \in 0..Size, fin \in BOOLEAN : \E a \in 0..b : QueueData(a, b, fin)
    BY <1>2, <2>1, QueueIs DEF Abstract!Next
  <2>2. ASSUME NEW n \in 0..Size, Peek(n) PROVE Abstract!Next
    BY <1>2, <2>2, PeekIs DEF Abstract!Next
  <2>3. ASSUME NEW n \in 0..Size, Read(n) PROVE Abstract!Next
    BY <1>2, <2>0, <2>3, ReadStep DEF Abstract!Next
  <2>4. ASSUME NEW n \in 0..Size, ReleaseRecord(n) PROVE Abstract!Next
    BY <1>2, <2>4, ReleaseIs DEF Abstract!Next
  <2>5. CASE GetRecord
    BY <1>0, <1>2, <2>5, GetRecordIs DEF Abstract!Next
  <2>6. CASE MoveToRbuf
    <3>1. /\ fl'.offset = fl.offset /\ fl'.fin = fl.fin /\ fl'.locked = fl.locked
          /\ \A b \in Int : Covers(fl'.frames, b) <=> Covers(fl.frames, b)
      BY <1>2, <2>6, MoveInv
    <3>2. \A b \in Int : b \in Received
                           <=> b \in fl.offset..(Size - 1) /\ Covers(fl.frames, b)
      BY <1>2, ReceivedIs
    <3>3. \A b \in Int : b \in Received'
                           <=> b \in fl.offset..(Size - 1) /\ Covers(fl'.frames, b)
      <4>1. fl'.frames \in Frames
        BY <2>0 DEF IInv, TypeInv, FlType
      <4>2. \A i \in DOMAIN fl'.frames :
              fl'.frames[i].start \in Int /\ fl'.frames[i].end \in Int
        BY <4>1, FrameFields
      <4> QED BY <3>1, <4>2 DEF Received, Covers, In
    <3>4. (\A b \in Received : b \in Int) /\ (\A b \in Received' : b \in Int)
      BY <1>2, <3>1, StateFields DEF IInv, Received
    <3>5. Received' = Received
      BY <3>1, <3>2, <3>3, <3>4
    <3>6. out' = out /\ head_range' = head_range
      BY <2>6 DEF MoveToRbuf
    <3> QED BY <3>1, <3>5, <3>6 DEF Abstract!vars
  <2>7. ASSUME NEW n \in RbufSizes, ResizeRbuf(n) PROVE UNCHANGED Abstract!vars
    BY <2>7 DEF ResizeRbuf, Abstract!vars, Received
  <2>8. CASE UNCHANGED vars
    BY <2>8 DEF vars, Abstract!vars, Received
  <2> QED BY <1>2, <2>1, <2>2, <2>3, <2>4, <2>5, <2>6, <2>7, <2>8 DEF Next
<1> QED BY <1>1, <1>2, BufferInvariant, PTL DEF Spec, ImplementsRecvBuffer, Abstract!Spec
=============================================================================
