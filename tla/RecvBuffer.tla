----------------------------- MODULE RecvBuffer -----------------------------
(***************************************************************************)
(* What a QUIC receive buffer promises to its two users, the depacketiser  *)
(* that queues data and the reader: bytes come out once, in order, with the*)
(* value they were sent with, as soon as there is no gap before them, and  *)
(* the end of the stream is reported exactly at its last byte.  QuicStreams*)
(* uses the buffer in this form.  The value of a byte is its offset.       *)
(***************************************************************************)
EXTENDS Integers, FiniteSets

CONSTANT Size       \* the final size of the stream

VARIABLES
    got,        \* bytes received and not yet read
    offset,     \* the next byte to read
    fin,        \* the end of the stream is known
    record,     \* length of the record the reader holds, or -1
    out         \* what the last call returned

vars == <<got, offset, fin, record, out>>

Nothing == [bytes |-> <<>>, fin |-> FALSE]

\* The bytes that can be read, those without a gap before them.
Avail == Cardinality({b \in got : \A c \in offset..b : c \in got})

\* The result of a call that returns k bytes.
Result(k) == [bytes |-> [i \in 1..k |-> offset + i - 1],
              fin   |-> fin /\ offset + k = Size]

Init ==
    /\ got = {} /\ offset = 0 /\ fin = FALSE /\ record = -1
    /\ out = Nothing

Receive(a, b, f) ==
    /\ out' = Nothing
    /\ UNCHANGED <<offset, record>>
    /\ fin' = (fin \/ f)
    /\ got' = got \cup {c \in a..(b - 1) : c >= offset}

Peek(n) ==
    /\ UNCHANGED <<offset, fin, record, got>>
    /\ out' = Result(IF n < Avail THEN n ELSE Avail)

Consume(n) ==
    /\ offset' = offset + n
    /\ got' = {b \in got : b >= offset + n}
    /\ UNCHANGED fin

Read(n) ==
    LET k == IF n < Avail THEN n ELSE Avail IN
    /\ record = -1
    /\ UNCHANGED record
    /\ Consume(k)
    /\ out' = Result(k)

\* A record is any non-empty part of what can be read; none can be had while one
\* is held.
GetRecord ==
    /\ \/ /\ record = -1
          /\ \E k \in 1..Avail : out' = Result(k) /\ record' = k
       \/ /\ record # -1 \/ Avail = 0
          /\ out' = [Result(0) EXCEPT !.fin = record = -1 /\ @]
          /\ UNCHANGED record
    /\ UNCHANGED <<got, offset, fin>>

ReleaseRecord(n) ==
    /\ n =< record
    /\ record' = -1
    /\ out' = Nothing
    /\ Consume(n)

Next ==
    \/ \E b \in 0..Size, f \in BOOLEAN : \E a \in 0..b : Receive(a, b, f)
    \/ \E n \in 0..Size : Peek(n) \/ Read(n) \/ ReleaseRecord(n)
    \/ GetRecord

Spec == Init /\ [][Next]_vars
=============================================================================
