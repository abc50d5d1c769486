------------------------------- MODULE RStream -------------------------------
(***************************************************************************)
(* QUIC_RSTREAM: a sorted list of received stream frames (quic_sf_list.c)  *)
(* whose data stays in the packets until it is moved to a ring buffer      *)
(* (ring_buf.h), and the reader's calls on it (quic_rstream.c).            *)
(*                                                                         *)
(* The byte at offset b of the stream has the value b.  A frame whose data *)
(* is in its packet has a pointer to the first byte: here that byte's      *)
(* value.  A frame whose data is in the ring buffer has none.              *)
(***************************************************************************)
EXTENDS Integers, Sequences, SequencesExt

CONSTANTS
    Size,       \* the final size of the stream
    RbufSizes,  \* sizes the ring buffer may be given
    Junk,       \* a byte of the ring buffer that was never written
    CutsLast    \* the reader asks for a record of the last frame where that is cut

ASSUME SizeAssumption == Size \in Nat
ASSUME RbufAssumption == RbufSizes \subseteq Nat
ASSUME CutsLastAssumption == CutsLast \in BOOLEAN

VARIABLES
    fl,         \* SFRAME_LIST
    rbuf,       \* the ring buffer
    head_range, \* the record handed out
    out         \* result of the last call: the bytes, and whether they end it

vars == <<fl, rbuf, head_range, out>>

NoData == -1
Nothing == [bytes |-> <<>>, fin |-> FALSE]      \* a call that returns no bytes
Larger(a, b) == IF a >= b THEN a ELSE b
Smaller(a, b) == IF a =< b THEN a ELSE b

\* The position of the first frame that satisfies P, or one after the last.
FirstWhere(frames, P(_)) ==
    Min({i \in 1..(Len(frames) + 1) : i > Len(frames) \/ P(frames[i])})

From(frames, i) == SubSeq(frames, i, Len(frames))
Upto(frames, i) == SubSeq(frames, 1, i)

-----------------------------------------------------------------------------
(* Ring buffer *)

RingUsed(r) == r.head - r.ctail
RingAvail(r) == r.alloc - RingUsed(r)

RingFits(r, at, len) == at >= r.ctail /\ at + len =< r.head + RingAvail(r)

\* Write len bytes, the first of value v, at an offset.
RingWriteAt(r, at, v, len) ==
    [r EXCEPT !.cells = [c \in DOMAIN @ |->
                           LET ks == {k \in 0..(len - 1) : (at + k) % r.alloc = c}
                           IN  IF ks = {} THEN @[c] ELSE v + Max(ks)],
              !.head = Larger(@, at + len)]

\* ring_buf_get_ptr does not return NULL.
RingHas(r, at) == at >= r.ctail /\ at < r.head

\* Everything below an offset is given up; that may lie beyond the head.
RingCullEarly(r, limit) ==
    [r EXCEPT !.ctail = limit + 1, !.head = Larger(@, limit + 1)]

RingCull(r, limit) == [r EXCEPT !.ctail = limit, !.head = Larger(@, limit)]

RingResized(r, n) ==
    [r EXCEPT !.alloc = n,
              !.cells = [c \in 0..(n - 1) |->
                           LET bs == {b \in r.ctail..(r.head - 1) : b % n = c}
                           IN  IF bs = {} THEN Junk
                               ELSE r.cells[Max(bs) % r.alloc]]]

-----------------------------------------------------------------------------
(* Stream frame list *)

\* Insert a frame between those that start before it and those that do not;
\* what it covers is dropped, and so is the frame itself if its neighbours meet.
InsertKeepingEqual(frames, new) ==
    LET at   == FirstWhere(frames, LAMBDA f : f.start >= new.start)
        pre  == Upto(frames, at - 1)
        rest == From(frames, at)
        next == From(rest, FirstWhere(rest, LAMBDA f : f.end >= new.end))
    IN  IF pre # <<>> /\ Last(pre).end >= new.end THEN frames
        ELSE pre \o <<new>> \o next

InsertGapOfOne(frames, new) ==
    LET at   == FirstWhere(frames, LAMBDA f : f.start >= new.start)
        pre  == Upto(frames, at - 1)
        rest == From(frames, at)
        next == From(rest, FirstWhere(rest, LAMBDA f : f.end > new.end))
    IN  IF pre # <<>> /\ Last(pre).end >= new.end THEN frames
        ELSE IF pre # <<>> /\ next # <<>> /\ Head(next).start =< Last(pre).end + 1
        THEN pre \o next
        ELSE pre \o <<new>> \o next

Insert(frames, new) ==
    LET at   == FirstWhere(frames, LAMBDA f : f.start >= new.start)
        pre  == Upto(frames, at - 1)
        rest == From(frames, at)
        next == From(rest, FirstWhere(rest, LAMBDA f : f.end > new.end))
    IN  IF pre # <<>> /\ Last(pre).end >= new.end THEN frames
        ELSE IF pre # <<>> /\ next # <<>> /\ Head(next).start =< Last(pre).end
        THEN pre \o next
        ELSE pre \o <<new>> \o next

\* Where peeking at the i-th frame starts: at the end of the one before.
PeekStart(i) == IF i = 1 THEN fl.offset ELSE fl.frames[i - 1].end

\* The number of frames that can be peeked at one after the other.
Peekable ==
    FirstWhere([i \in DOMAIN fl.frames |-> i],
               LAMBDA i : \/ fl.frames[i].start > PeekStart(i)
                          \/ PeekStart(i) >= fl.frames[i].end) - 1

\* What the iteration reports as the end of the stream when it stops after i
\* frames without having filled the reader's buffer.
PeekFin(i) == i = Len(fl.frames) /\ fl.fin

Drop(limit) ==
    [fl EXCEPT !.offset = limit,
               !.frames = From(@, FirstWhere(@, LAMBDA f : f.end > limit)),
               !.locked = FALSE]

\* Byte b of a frame, through the packet or the ring buffer.
ByteOf(f, b) == IF f.data # NoData THEN f.data + (b - f.start)
                ELSE rbuf.cells[b % rbuf.alloc]

\* One iteration of ossl_sframe_list_move_data: write what is not in the ring
\* buffer yet, then merge the frame with the one before if they touch.  Once a
\* frame does not fit, the rest is left alone.
MoveFrame(m, f) ==
    LET limit == Larger(m.limit, f.start)
        len   == f.end - limit
        moved == [f EXCEPT !.data = NoData]
    IN  IF ~m.fits \/ (f.data # NoData /\ ~RingFits(m.rbuf, limit, len))
        THEN [m EXCEPT !.fits = FALSE, !.frames = Append(@, f)]
        ELSE [fits |-> TRUE, limit |-> f.end,
              rbuf |-> IF f.data = NoData THEN m.rbuf
                       ELSE RingWriteAt(m.rbuf, limit, f.data + (limit - f.start), len),
              frames |-> IF m.frames # <<>> /\ Last(m.frames).end >= f.start
                         THEN [m.frames EXCEPT ![Len(m.frames)].end = f.end]
                         ELSE Append(m.frames, moved)]

-----------------------------------------------------------------------------
Init ==
    /\ fl = [frames |-> <<>>, fin |-> FALSE, offset |-> 0, locked |-> FALSE]
    /\ rbuf \in {[alloc |-> n, head |-> 0, ctail |-> 0,
                  cells |-> [c \in 0..(n - 1) |-> Junk]] : n \in RbufSizes}
    /\ head_range = [start |-> 0, end |-> 0]
    /\ out = Nothing

\* ossl_quic_rstream_queue_data.  The sender is consistent: a FIN is at the final
\* size, as flow control has checked, and only a FIN comes without data.
QueueData(a, b, fin) ==
    /\ a < b \/ (a = b /\ fin)
    /\ fin => b = Size
    /\ fl' = [fl EXCEPT !.fin = @ \/ fin,
                        !.frames = IF fl.offset >= b THEN @
                                   ELSE Insert(@, [start |-> a, end |-> b, data |-> a])]
    /\ out' = Nothing
    /\ UNCHANGED <<rbuf, head_range>>

\* The part of the i-th frame that a buffer of n bytes takes.
Taken(i, n) == Smaller(fl.frames[i].end, fl.offset + n) - 1

\* read_internal copies frame after frame until n bytes are read.
ReadResult(n) ==
    LET last  == Peekable
        end   == IF last = 0 THEN fl.offset
                 ELSE Smaller(fl.frames[last].end, fl.offset + n)
        frame(b) == CHOOSE i \in 1..last : b \in PeekStart(i)..Taken(i, n)
    IN  [end |-> end,
         out |-> [bytes |-> [k \in 1..(end - fl.offset) |->
                               ByteOf(fl.frames[frame(fl.offset + k - 1)],
                                      fl.offset + k - 1)],
                  fin   |-> PeekFin(last)
                            /\ (last = 0 \/ fl.frames[last].end = end)]]

Peek(n) ==
    /\ out' = ReadResult(n).out
    /\ UNCHANGED <<fl, rbuf, head_range>>

\* A reader that works record by record does not call this while it holds one.
Read(n) ==
    LET r == ReadResult(n) IN
    /\ ~fl.locked
    /\ out' = r.out
    /\ IF Peekable = 0 \/ r.end = 0 THEN UNCHANGED <<fl, rbuf>>
       ELSE fl' = Drop(r.end) /\ rbuf' = RingCull(rbuf, r.end)
    /\ UNCHANGED head_range

\* ossl_quic_rstream_get_record: a record that is in the ring buffer ends where
\* the buffer wraps around.  No record is returned while one is held.  The end of
\* the stream was asked for before the record is cut, and is not taken back: a
\* reader whose CutsLast is FALSE keeps away from that.
GetRecord ==
    LET f    == Head(fl.frames)
        room == rbuf.alloc - (fl.offset % rbuf.alloc)
        end  == IF f.data = NoData THEN Smaller(f.end, fl.offset + room) ELSE f.end
    IN  /\ \/ /\ ~fl.locked /\ Peekable > 0
              /\ end < f.end /\ PeekFin(1) => CutsLast
              /\ head_range' = [start |-> fl.offset, end |-> end]
              /\ fl' = [fl EXCEPT !.locked = TRUE]
              /\ out' = [bytes |-> [k \in 1..(end - fl.offset) |->
                                      ByteOf(f, fl.offset + k - 1)],
                         fin |-> PeekFin(1)]
           \/ /\ fl.locked \/ Peekable = 0
              /\ out' = [bytes |-> <<>>, fin |-> ~fl.locked /\ PeekFin(0)]
              /\ UNCHANGED <<fl, head_range>>
        /\ UNCHANGED rbuf

ReleaseRecord(n) ==
    LET limit == head_range.start + n IN
    /\ fl.locked
    /\ limit =< head_range.end
    /\ fl' = Drop(limit)
    /\ rbuf' = IF limit > 0 THEN RingCull(rbuf, limit) ELSE rbuf
    /\ out' = Nothing
    /\ UNCHANGED head_range

\* The head frame stays where it is while a record of it is held.
MoveToRbuf ==
    LET skip == IF fl.locked THEN 1 ELSE 0
        m    == FoldLeft(MoveFrame,
                         [fits |-> TRUE, limit |-> fl.offset, rbuf |-> rbuf,
                          frames |-> <<>>], From(fl.frames, skip + 1))
    IN  /\ RingAvail(rbuf) > 0
        /\ fl.frames # <<>>
        /\ fl' = [fl EXCEPT !.frames = Upto(@, skip) \o m.frames]
        /\ rbuf' = m.rbuf
        /\ UNCHANGED <<head_range, out>>

ResizeRbuf(n) ==
    /\ ~fl.locked
    /\ n > 0 /\ n # rbuf.alloc /\ n >= RingUsed(rbuf)
    /\ rbuf' = RingResized(rbuf, n)
    /\ UNCHANGED <<fl, head_range, out>>

Next ==
    \/ \E b \in 0..Size, fin \in BOOLEAN : \E a \in 0..b : QueueData(a, b, fin)
    \/ \E n \in 0..Size : Peek(n) \/ Read(n) \/ ReleaseRecord(n)
    \/ GetRecord
    \/ MoveToRbuf
    \/ \E n \in RbufSizes : ResizeRbuf(n)

Spec == Init /\ [][Next]_vars

-----------------------------------------------------------------------------
(* Properties *)

\* Frames are sorted by both bounds, no two end at the same offset, and the read
\* offset is within the first: what every loop over the list relies on.  (A frame
\* may lie within its successor if both start at the same offset.)
ListOrdered ==
    LET fr == fl.frames IN
    /\ \A i \in DOMAIN fr : fr[i].start =< fr[i].end /\ fr[i].end =< Size
    /\ \A i \in 1..(Len(fr) - 1) : /\ fr[i].start =< fr[i + 1].start
                                   /\ fr[i].end < fr[i + 1].end
    /\ fr # <<>> => fl.offset < Head(fr).end

\* No assertion of the three files can fail: a frame without a gap before it has
\* bytes to peek at, data moved to the ring buffer is found there whole, and the
\* end of the list agrees with a final size once it is known.
AssertionsHold ==
    /\ \A i \in DOMAIN fl.frames :
        /\ i = Peekable + 1 => fl.frames[i].start > PeekStart(i)
        /\ fl.frames[i].data = NoData =>
             \A b \in Larger(fl.offset, fl.frames[i].start)..(fl.frames[i].end - 1) :
                 RingHas(rbuf, b)
    /\ RingUsed(rbuf) =< rbuf.alloc
    /\ fl.fin => (IF fl.frames = <<>> THEN fl.offset ELSE Last(fl.frames).end) = Size

-----------------------------------------------------------------------------
(* The list and the ring buffer implement the plain buffer. *)

Received ==
    {b \in fl.offset..(Size - 1) : \E i \in DOMAIN fl.frames :
        b >= fl.frames[i].start /\ b < fl.frames[i].end}

Abstract == INSTANCE RecvBuffer WITH
    got <- Received, offset <- fl.offset, fin <- fl.fin, out <- out,
    record <- IF fl.locked THEN head_range.end - head_range.start ELSE -1

\* Whatever order frames arrive in, however they overlap, and whenever data is
\* moved to the ring buffer or that is resized, the reader sees the bytes of the
\* stream in order and its end.
ImplementsRecvBuffer == Abstract!Spec
=============================================================================
