----------------------------- MODULE QuicStreams -----------------------------
(***************************************************************************)
(* The streams of one QUIC connection, seen from both of its endpoints:    *)
(* the send buffer (quic_sstream.c), the receive buffer (quic_rstream.c),  *)
(* the two flow controllers (quic_fc.c), the state machines of the stream  *)
(* map (quic_stream_map.c), the part of the packetiser that builds stream  *)
(* frames (quic_txp.c), the depacketiser that takes them (quic_rx_depack.c)*)
(* and the dispatcher that learns what became of a packet (quic_fifd.c).   *)
(*                                                                         *)
(* Every stream is bidirectional and exists at both ends from the start.   *)
(* A byte of a stream is its offset.  A packet carries at most one MAX_DATA*)
(* frame and, for each stream, what the packetiser put in for it.  The     *)
(* network delivers a packet at most once (the acknowledgement manager     *)
(* drops duplicates), in any order, or never; the sender takes a packet as *)
(* acknowledged after its delivery, or as lost at any time.  Elapsed time  *)
(* only decides whether a receive window is doubled: that is left open.    *)
(***************************************************************************)
EXTENDS Integers, FiniteSets, FiniteSetsExt

CONSTANTS
    End,            \* the two endpoints
    Stream,         \* the streams
    MaxSize,        \* bound: bytes written on a stream in one direction
    Writers,        \* endpoints whose application writes
    StreamWnd, StreamMaxWnd,    \* initial and largest stream-level window
    ConnWnd, ConnMaxWnd,        \* initial and largest connection-level window
    Slot,           \* bound: one slot for each packet under way at a time
    Resetters,      \* endpoints whose application may reset a stream
    Freers,         \* endpoints whose application may free a stream object
    ZeroConcluders  \* endpoints that conclude by a write of no bytes

ASSUME EndAssumption == \E a, b \in End : a # b /\ End = {a, b}
ASSUME StreamAssumption == IsFiniteSet(Stream) /\ IsFiniteSet(Slot)
ASSUME MaxSizeAssumption == MaxSize \in Nat
ASSUME RoleAssumption ==
    Writers \cup Resetters \cup Freers \cup ZeroConcluders \subseteq End
ASSUME WindowAssumption ==
    /\ {StreamWnd, StreamMaxWnd, ConnWnd, ConnMaxWnd} \subseteq Nat \ {0}
    /\ StreamWnd =< StreamMaxWnd
    /\ ConnWnd =< ConnMaxWnd

VARIABLES
    st,     \* st[e][s]: the QUIC_STREAM of s at e
    conn,   \* conn[e]: the connection-level flow controllers of e
    pkt,    \* pkt[i]: the packet under way in slot i, or NoPkt
    error   \* error[e]: the protocol error e has raised

vars == <<st, conn, pkt, error>>

Peer(e) == CHOOSE p \in End : p # e
Larger(a, b) == IF a >= b THEN a ELSE b
Smaller(a, b) == IF a =< b THEN a ELSE b

None == -1          \* a frame that is not in the packet
NoPkt == [from |-> "nobody"]

SendStates == {"READY", "SEND", "DATA_SENT", "DATA_RECVD",
               "RESET_SENT", "RESET_RECVD"}
RecvStates == {"RECV", "SIZE_KNOWN", "DATA_RECVD", "DATA_READ",
               "RESET_RECVD", "RESET_READ"}
Errors == {"NONE", "FLOW_CONTROL", "FINAL_SIZE"}

-----------------------------------------------------------------------------
(* RX flow controller *)

RxInit(wnd, max) ==
    [swm |-> 0, cwm |-> wnd, rwm |-> 0, hwm |-> 0, win |-> wnd, max |-> max,
     fin |-> FALSE, err |-> "NONE", changed |-> FALSE]

\* Bytes are spent from the credit; those beyond it are an error.
OnRxControlledBytes(r, n) ==
    IF n > r.cwm - r.swm
    THEN [r EXCEPT !.swm = r.cwm, !.err = "FLOW_CONTROL"]
    ELSE [r EXCEPT !.swm = @ + n]

\* A frame that reaches up to offset `end' of the stream.
OnRxStreamFrame(r, end, fin) ==
    IF r.fin /\ ((fin /\ r.hwm # end) \/ end > r.hwm)
    THEN [r EXCEPT !.err = "FINAL_SIZE"]
    ELSE LET f == [r EXCEPT !.fin = @ \/ fin]
         IN  IF end > r.hwm
             THEN OnRxControlledBytes([f EXCEPT !.hwm = end], end - r.hwm)
             ELSE IF end < r.hwm /\ fin THEN [f EXCEPT !.err = "FINAL_SIZE"]
                  ELSE f

CwmBumpDesired(r) == ~r.fin /\ r.cwm - r.rwm =< (r.win * 3) \div 4

\* The window that replaces r.win; the maximum takes precedence over the minimum.
AdjustedWindow(r, minWnd, double) ==
    Smaller(r.max, Larger(minWnd, IF double THEN 2 * r.win ELSE r.win))

\* The application has taken n bytes: perhaps extend the credit.
RxRetireUnclamped(r, n, minWnd, double) ==
    LET w == IF double THEN 2 * r.win ELSE r.win
    IN  [r EXCEPT !.rwm = @ + n, !.win = w, !.cwm = @ + w, !.changed = TRUE]

RxRetire(r, n, minWnd, double) ==
    LET q == [r EXCEPT !.rwm = @ + n]
        w == AdjustedWindow(q, minWnd, double)
    IN  IF ~CwmBumpDesired(q) THEN q
        ELSE [q EXCEPT !.win = w, !.cwm = Larger(@, q.rwm + w),
                       !.changed = @ \/ q.rwm + w > q.cwm]

\* The connection retires what its stream has retired, and keeps a window no
\* smaller than that stream's.
ConnRetireForgotten(c, n, minWnd, double) == c

ConnRetire(c, n, minWnd, double) ==
    [c EXCEPT !.rx = RxRetire(@, n, minWnd, double)]

-----------------------------------------------------------------------------
(* Send part *)

HasSStream(t) == t.sendState \in {"READY", "SEND", "DATA_SENT"}
SendIsReset(t) == t.sendState \in {"RESET_SENT", "RESET_RECVD"}

\* The send buffer is freed: what it held is gone.
FreeSStream(t) == [t EXCEPT !.new = {}, !.acked = {}]

IsTotallyAckedNoFin(t) == t.acked = 0..(t.size - 1)

IsTotallyAcked(t) ==
    /\ t.fin => t.ackedFin
    /\ t.acked = 0..(t.size - 1)

\* Something to transmit, were there credit for it.
HasPending(t) == t.new # {} \/ (t.fin /\ ~t.sentFin)

\* The stream may send below this offset, given the connection's credit.
FcLimit(t, connCredit) == t.txSwm + Smaller(t.txCwm - t.txSwm, connCredit)

HasDataToSend(t, connCredit) ==
    /\ HasSStream(t)
    /\ IF t.new = {} THEN t.fin /\ ~t.sentFin
       ELSE Min(t.new) < FcLimit(t, connCredit)

\* What the application must not have left undone when it lets go of a stream.
SendFinished(t) == SendIsReset(t) \/ t.sendState \in {"DATA_SENT", "DATA_RECVD"}
                   \/ (t.sendState = "SEND" /\ t.fin)

ReadyForGc(t) ==
    /\ t.deleted
    /\ t.ackedStop
    /\ t.sendState \in {"DATA_RECVD", "RESET_RECVD"}

ShouldBeActive(t, connCredit) ==
    /\ ~t.readyForGc
    /\ \/ t.recvState = "RECV" /\ (t.wantMaxStreamData \/ t.rx.changed)
       \/ t.wantStop
       \/ t.wantReset
       \/ ~t.peerStop /\ HasDataToSend(t, connCredit)

\* The packetiser only looks at active streams: every handler that gives a
\* stream something to send ends with this.
UpdateState(t, connCredit) ==
    LET u == IF t.sendState = "DATA_SENT" /\ IsTotallyAcked(t)
             THEN [FreeSStream(t) EXCEPT !.sendState = "DATA_RECVD"] ELSE t
        g == [u EXCEPT !.readyForGc = @ \/ ReadyForGc(u)]
    IN  [g EXCEPT !.active = ShouldBeActive(g, connCredit)]

\* The sending part is abandoned at the offset reached so far.
ResetSendPartAtSize(t, connCredit) ==
    IF t.sendState \in {"DATA_RECVD", "RESET_SENT", "RESET_RECVD"} THEN t
    ELSE UpdateState([FreeSStream(t) EXCEPT
             !.finalSize = IF t.sendState = "DATA_SENT" THEN @ ELSE t.size,
             !.wantReset = TRUE,
             !.sendState = "RESET_SENT"], connCredit)

ResetSendPartAtAcked(t, connCredit) ==
    IF t.sendState \in {"DATA_RECVD", "RESET_SENT", "RESET_RECVD"} THEN t
    ELSE UpdateState([FreeSStream(t) EXCEPT
             !.finalSize = IF t.sendState = "DATA_SENT" THEN @
                           ELSE Cardinality(t.acked),
             !.wantReset = TRUE,
             !.sendState = "RESET_SENT"], connCredit)

ResetSendPartNotReady(t, connCredit) ==
    IF t.sendState = "READY" THEN t ELSE ResetSendPartAtSize(t, connCredit)

ResetSendPart(t, connCredit) ==
    IF t.sendState \in {"DATA_RECVD", "RESET_SENT", "RESET_RECVD"} THEN t
    ELSE UpdateState([FreeSStream(t) EXCEPT
             !.finalSize = IF t.sendState = "DATA_SENT" THEN @ ELSE t.txSwm,
             !.wantReset = TRUE,
             !.sendState = "RESET_SENT"], connCredit)

-----------------------------------------------------------------------------
(* Receive part *)

\* Ask the peer to stop, now or again.
ScheduleStopSending(t, connCredit) ==
    IF t.stop /\ ~t.wantStop /\ t.recvState \in {"RECV", "SIZE_KNOWN"}
    THEN UpdateState([t EXCEPT !.wantStop = TRUE], connCredit)
    ELSE t

\* The bytes that can be read: those received in sequence from rwm on.
Readable(t) == {b \in t.got : \A c \in t.rx.rwm..b : c \in t.got}

FinReadable(t) ==
    /\ t.recvState \in {"SIZE_KNOWN", "DATA_RECVD"}
    /\ t.rx.rwm + Cardinality(Readable(t)) = t.rx.hwm

-----------------------------------------------------------------------------
(* Initial state *)

FreshStream ==
    [sendState |-> "READY", size |-> 0, fin |-> FALSE, new |-> {},
     sentFin |-> FALSE, acked |-> {}, ackedFin |-> FALSE, finalSize |-> 0,
     wantReset |-> FALSE, peerStop |-> FALSE, txSwm |-> 0, txCwm |-> StreamWnd,
     recvState |-> "RECV", got |-> {}, stop |-> FALSE, wantStop |-> FALSE,
     ackedStop |-> FALSE, wantMaxStreamData |-> FALSE,
     rx |-> RxInit(StreamWnd, StreamMaxWnd),
     deleted |-> FALSE, readyForGc |-> FALSE, active |-> FALSE]

Init ==
    /\ st = [e \in End |-> [s \in Stream |-> FreshStream]]
    /\ conn = [e \in End |-> [txSwm |-> 0, txCwm |-> ConnWnd,
                              rx |-> RxInit(ConnWnd, ConnMaxWnd),
                              wantMaxData |-> FALSE]]
    /\ pkt = [i \in Slot |-> NoPkt]
    /\ error = [e \in End |-> "NONE"]

ConnCredit(e) == conn[e].txCwm - conn[e].txSwm

-----------------------------------------------------------------------------
(* The application *)

\* SSL_write_ex2 appends what the stream's credit permits, perhaps with a FIN.
Write(e, s, n, conclude) ==
    LET t == st[e][s]
        a == [t EXCEPT !.sendState = "SEND", !.size = @ + n,
                       !.new = @ \cup t.size..(t.size + n - 1)]
    IN  /\ e \in Writers
        /\ t.sendState \in {"READY", "SEND"} /\ ~t.fin /\ ~t.deleted
        /\ t.size + n =< Smaller(t.txCwm, MaxSize)
        /\ st' = [st EXCEPT ![e][s] =
                    [UpdateState(a, ConnCredit(e)) EXCEPT !.fin = conclude]]
        /\ UNCHANGED <<conn, pkt, error>>

\* SSL_stream_conclude
Conclude(e, s) ==
    LET t == st[e][s] IN
    /\ e \in Writers
    /\ t.sendState \in {"READY", "SEND"} /\ ~t.fin /\ ~t.deleted
    /\ st' = [st EXCEPT ![e][s] =
                UpdateState([t EXCEPT !.sendState = "SEND", !.fin = TRUE],
                            ConnCredit(e))]
    /\ UNCHANGED <<conn, pkt, error>>

\* SSL_write_ex2 of no bytes with SSL_WRITE_FLAG_CONCLUDE: neither the state of
\* the send part is looked at nor that of the stream updated.
ConcludeByEmptyWrite(e, s) ==
    LET t == st[e][s] IN
    /\ e \in ZeroConcluders
    /\ HasSStream(t) /\ ~t.fin /\ ~t.deleted
    /\ st' = [st EXCEPT ![e][s].fin = TRUE]
    /\ UNCHANGED <<conn, pkt, error>>

\* SSL_stream_reset
Reset(e, s) ==
    LET t == st[e][s] IN
    /\ e \in Resetters
    /\ t.sendState \in {"READY", "SEND"} /\ ~t.fin /\ ~t.deleted
    /\ st' = [st EXCEPT ![e][s] = ResetSendPart(t, ConnCredit(e))]
    /\ UNCHANGED <<conn, pkt, error>>

\* SSL_free of a stream object: an unfinished send part is reset, the peer is
\* asked to stop, and the stream is left to be collected.
Free(e, s) ==
    LET t == st[e][s]
        c == ConnCredit(e)
        r == IF t.sendState \in {"READY", "SEND"} /\ ~t.fin
             THEN ResetSendPart(t, c) ELSE t
        p == IF r.recvState \in {"RECV", "SIZE_KNOWN"} /\ ~r.stop
             THEN ScheduleStopSending([r EXCEPT !.stop = TRUE], c) ELSE r
    IN  /\ e \in Freers
        /\ ~t.deleted
        /\ st' = [st EXCEPT ![e][s] = UpdateState([p EXCEPT !.deleted = TRUE], c)]
        /\ UNCHANGED <<conn, pkt, error>>

\* SSL_read of n bytes; reading up to the FIN ends the receive part.  Whether
\* either window is doubled depends on the time since it last grew.
Read(e, s, n, dblStream, dblConn) ==
    LET t   == st[e][s]
        all == n = Cardinality(Readable(t)) /\ FinReadable(t)
        rx  == RxRetire(t.rx, n, 0, dblStream)
        u   == [t EXCEPT !.rx = IF n = 0 THEN @ ELSE rx,
                         !.got = @ \ t.rx.rwm..(t.rx.rwm + n - 1),
                         !.recvState = IF all /\ @ = "DATA_RECVD"
                                       THEN "DATA_READ" ELSE @]
    IN  /\ t.recvState \in {"RECV", "SIZE_KNOWN", "DATA_RECVD"} /\ ~t.deleted
        /\ n =< Cardinality(Readable(t))
        /\ n > 0 \/ all
        /\ st' = [st EXCEPT ![e][s] =
                    IF n = 0 THEN u ELSE UpdateState(u, ConnCredit(e))]
        /\ conn' = IF n = 0 THEN conn
                   ELSE [conn EXCEPT ![e] = ConnRetire(@, n, rx.win, dblConn)]
        /\ UNCHANGED <<pkt, error>>

\* SSL_read tells the application that the peer has reset the stream.
ReadReset(e, s) ==
    /\ st[e][s].recvState = "RESET_RECVD" /\ ~st[e][s].deleted
    /\ st' = [st EXCEPT ![e][s].recvState = "RESET_READ"]
    /\ UNCHANGED <<conn, pkt, error>>

-----------------------------------------------------------------------------
(* The packetiser *)

NoFrames == [stop |-> FALSE, reset |-> None, maxStreamData |-> None,
             bytes |-> {}, fin |-> FALSE, end |-> None]

\* Bytes below `cut' that wait for transmission: older data goes first.
Chunk(t, cut) == IF HasSStream(t) THEN {b \in t.new : b < cut} ELSE {}

\* A FIN goes with the last byte, or by itself after the bytes still to be sent.
FinChoices(t, bytes) ==
    IF ~HasSStream(t) \/ ~t.fin \/ bytes # t.new THEN {FALSE}
    ELSE IF bytes # {} /\ Max(bytes) + 1 = t.size THEN {TRUE}
    ELSE {FALSE, ~t.sentFin}

StreamFrames(t, bytes, fin) ==
    [stop |-> t.wantStop,
     reset |-> IF t.wantReset THEN t.finalSize ELSE None,
     maxStreamData |->
         IF t.recvState = "RECV" /\ (t.wantMaxStreamData \/ t.rx.changed)
         THEN t.rx.cwm ELSE None,
     bytes |-> bytes,
     fin |-> fin,
     end |-> IF fin THEN t.size
             ELSE IF bytes = {} THEN None ELSE Max(bytes) + 1]

\* Credit is spent on bytes that were never sent before.
NewCreditAll(t, bytes) == Cardinality(bytes)

NewCredit(t, bytes) ==
    IF bytes = {} THEN 0 ELSE Larger(0, Max(bytes) + 1 - t.txSwm)

\* The streams share the credit of the connection: `used' is what each takes.
WithinCreditUnshared(e, used) ==
    \A s \in Stream : used[s] =< Smaller(st[e][s].txCwm - st[e][s].txSwm,
                                         ConnCredit(e))

WithinCredit(e, used) ==
    /\ \A s \in Stream : used[s] =< st[e][s].txCwm - st[e][s].txSwm
    /\ SumFunction(used) =< ConnCredit(e)

\* Bookkeeping once the packet is with the dispatcher and has been written.
AfterTx(t, f, used, connCredit) ==
    LET u == UpdateState(
               [t EXCEPT !.wantStop = FALSE, !.wantReset = FALSE,
                         !.wantMaxStreamData = @ /\ f.maxStreamData = None,
                         !.rx.changed = @ /\ f.maxStreamData = None,
                         !.new = @ \ f.bytes, !.sentFin = @ \/ f.fin,
                         !.txSwm = @ + used], connCredit)
    IN  IF u.sendState = "SEND" /\ u.fin /\ ~HasPending(u)
        THEN [u EXCEPT !.sendState = "DATA_SENT", !.finalSize = u.size] ELSE u

\* One packet: MAX_DATA if it is due, then for some of the active streams all
\* the control frames due and as much data as fits.
TxPacket(e, i, served, cut, fin) ==
    LET bytes == [s \in Stream |-> IF s \in served THEN Chunk(st[e][s], cut[s])
                                   ELSE {}]
        used  == [s \in Stream |-> NewCredit(st[e][s], bytes[s])]
        str   == [s \in Stream |->
                    IF s \in served
                    THEN StreamFrames(st[e][s], bytes[s], s \in fin)
                    ELSE NoFrames]
        md    == IF conn[e].wantMaxData \/ conn[e].rx.changed
                 THEN conn[e].rx.cwm ELSE None
        spent == conn[e].txSwm + SumFunction(used)
    IN  /\ pkt[i] = NoPkt
        /\ error[e] = "NONE"
        /\ \A s \in served : st[e][s].active
        /\ \A s \in Stream : (s \in fin) \in
                (IF s \in served THEN FinChoices(st[e][s], bytes[s]) ELSE {FALSE})
        /\ md # None \/ \E s \in served : str[s] # NoFrames
        /\ WithinCredit(e, used)
        /\ st' = [st EXCEPT ![e] = [s \in Stream |->
                    IF s \in served
                    THEN AfterTx(st[e][s], str[s], used[s], conn[e].txCwm - spent)
                    ELSE st[e][s]]]
        /\ conn' = [conn EXCEPT ![e].txSwm = spent,
                                ![e].wantMaxData = FALSE,
                                ![e].rx.changed = FALSE]
        /\ pkt' = [pkt EXCEPT ![i] =
                    [from |-> e, maxData |-> md, str |-> str,
                     onWire |-> TRUE, inflight |-> TRUE]]
        /\ UNCHANGED error

-----------------------------------------------------------------------------
(* The depacketiser *)

RecvReset(t, final, connCredit) ==
    LET r == OnRxStreamFrame(t.rx, final, TRUE)
        u == [t EXCEPT !.rx = r]
    IN  IF r.err # "NONE" THEN u
        ELSE IF t.recvState \in {"RECV", "SIZE_KNOWN", "DATA_RECVD"}
        THEN UpdateState([u EXCEPT !.recvState = "RESET_RECVD",
                                   !.wantStop = FALSE, !.got = {}], connCredit)
        ELSE UpdateState(u, connCredit)

RecvStream(t, f) ==
    LET r == OnRxStreamFrame(t.rx, f.end, f.fin)
        u == [t EXCEPT !.rx = r,
                       !.recvState = IF f.fin THEN "SIZE_KNOWN" ELSE @]
        v == [u EXCEPT !.got = @ \cup (f.bytes \ 0..(t.rx.rwm - 1))]
    IN  IF r.err # "NONE" \/ t.recvState \notin {"RECV", "SIZE_KNOWN"}
        THEN [t EXCEPT !.rx = r]
        ELSE IF t.stop THEN u
        ELSE IF FinReadable(v)
        THEN [v EXCEPT !.recvState = "DATA_RECVD", !.wantStop = FALSE]
        ELSE v

\* All the frames of a packet for one stream, in the order they were written.
RecvFrames(t, f, maxData, connCredit) ==
    LET m == IF maxData # None THEN UpdateState(t, connCredit) ELSE t
        p == IF f.stop THEN ResetSendPart([m EXCEPT !.peerStop = TRUE], connCredit)
             ELSE m
        r == IF f.reset # None THEN RecvReset(p, f.reset, connCredit) ELSE p
        c == IF f.maxStreamData # None
             THEN UpdateState([r EXCEPT !.txCwm = Larger(@, f.maxStreamData)],
                              connCredit)
             ELSE r
    IN  IF f.end # None THEN RecvStream(c, f) ELSE c

-----------------------------------------------------------------------------
(* The network and the fate of a packet *)

\* A packet that neither end needs any more gives its slot back.
Keep(p) == IF p.onWire \/ p.inflight THEN p ELSE NoPkt

Deliver(i) ==
    LET p     == pkt[i]
        d     == Peer(p.from)
        cwm   == IF p.maxData = None THEN conn[d].txCwm
                 ELSE Larger(conn[d].txCwm, p.maxData)
        after == [s \in Stream |-> RecvFrames(st[d][s], p.str[s], p.maxData,
                                              cwm - conn[d].txSwm)]
        fresh == SumFunction([s \in Stream |-> after[s].rx.hwm - st[d][s].rx.hwm])
        bad   == {s \in Stream : after[s].rx.err # "NONE"}
    IN  /\ p # NoPkt /\ p.onWire
        /\ error[d] = "NONE"
        /\ st' = [st EXCEPT ![d] = after]
        /\ conn' = [conn EXCEPT ![d].txCwm = cwm,
                                ![d].rx = OnRxControlledBytes(@, fresh)]
        /\ error' = [error EXCEPT ![d] =
                        IF bad = {} THEN @ ELSE after[CHOOSE s \in bad : TRUE].rx.err]
        /\ pkt' = [pkt EXCEPT ![i] =
                     Keep([p EXCEPT !.onWire = FALSE])]

\* A late copy of a packet taken as lost never arrives.
Drop(i) ==
    /\ pkt[i] # NoPkt /\ ~pkt[i].inflight
    /\ pkt' = [pkt EXCEPT ![i] = NoPkt]
    /\ UNCHANGED <<st, conn, error>>

\* The frames the dispatcher has a chunk for.
HasChunk(f) == f.stop \/ f.reset # None \/ f.end # None

\* A stream whose send buffer is gone is skipped altogether.
OnAcked(t, f, connCredit) ==
    LET u == [t EXCEPT !.acked = @ \cup f.bytes,
                       !.ackedFin = @ \/ f.fin,
                       !.ackedStop = @ \/ f.stop,
                       !.sendState = IF f.reset # None /\ @ = "RESET_SENT"
                                     THEN "RESET_RECVD" ELSE @]
    IN  IF ~HasChunk(f) \/ ~HasSStream(t) THEN t
        ELSE IF f.stop \/ f.reset # None \/ IsTotallyAcked(u)
        THEN UpdateState(u, connCredit)
        ELSE u

OnLostFinOnly(t, f, connCredit) ==
    IF ~HasChunk(f) \/ ~HasSStream(t) THEN t
    ELSE UpdateState([t EXCEPT !.sentFin = @ /\ ~(f.fin /\ ~t.ackedFin)], connCredit)

OnLostNoUpdate(t, f, connCredit) ==
    IF ~HasChunk(f) \/ ~HasSStream(t) THEN t
    ELSE [t EXCEPT !.new = @ \cup f.bytes,
                   !.sentFin = @ /\ ~(f.fin /\ ~t.ackedFin),
                   !.wantReset = @ \/ f.reset # None,
                   !.wantMaxStreamData = TRUE]

OnLost(t, f, connCredit) ==
    LET u == [t EXCEPT !.new = @ \cup f.bytes,
                       !.sentFin = @ /\ ~(f.fin /\ ~t.ackedFin),
                       !.wantReset = @ \/ f.reset # None,
                       !.wantMaxStreamData = TRUE]
        w == IF f.stop THEN ScheduleStopSending(u, connCredit) ELSE u
    IN  IF ~HasChunk(f) \/ ~HasSStream(t) THEN t
        ELSE UpdateState(w, connCredit)

Ack(i) ==
    LET p == pkt[i]
        e == p.from
    IN  /\ p # NoPkt /\ p.inflight /\ ~p.onWire
        /\ st' = [st EXCEPT ![e] = [s \in Stream |->
                    OnAcked(st[e][s], p.str[s], ConnCredit(e))]]
        /\ pkt' = [pkt EXCEPT ![i] = NoPkt]
        /\ UNCHANGED <<conn, error>>

\* REGEN of MAX_DATA
ConnOnLostForgets(c, p) == c

ConnOnLost(c, p) == [c EXCEPT !.wantMaxData = @ \/ p.maxData # None]

Lose(i) ==
    LET p == pkt[i]
        e == p.from
    IN  /\ p # NoPkt /\ p.inflight
        /\ st' = [st EXCEPT ![e] = [s \in Stream |->
                    OnLost(st[e][s], p.str[s], ConnCredit(e))]]
        /\ conn' = [conn EXCEPT ![e] = ConnOnLost(@, p)]
        /\ pkt' = [pkt EXCEPT ![i] = Keep([p EXCEPT !.inflight = FALSE])]
        /\ UNCHANGED error

-----------------------------------------------------------------------------
AppStep ==
    \E e \in End, s \in Stream :
        \/ \E n \in 1..MaxSize, c \in BOOLEAN : Write(e, s, n, c)
        \/ Conclude(e, s)
        \/ ConcludeByEmptyWrite(e, s)
        \/ Reset(e, s)
        \/ Free(e, s)
        \/ \E n \in 0..MaxSize, a \in BOOLEAN, b \in BOOLEAN : Read(e, s, n, a, b)
        \/ ReadReset(e, s)

Tx(e) ==
    \E i \in Slot, served \in SUBSET Stream, cut \in [Stream -> 0..MaxSize],
       fin \in SUBSET Stream : TxPacket(e, i, served, cut, fin)

Next ==
    \/ AppStep
    \/ \E e \in End : Tx(e)
    \/ \E i \in Slot : Deliver(i) \/ Drop(i) \/ Ack(i) \/ Lose(i)

Spec == Init /\ [][Next]_vars

-----------------------------------------------------------------------------
(* Fairness.  Both endpoints tick again and again, and a packet under way is *)
(* at some time acknowledged, taken as lost, or gone.  Any packet may be     *)
(* lost, but a network that is for ever given packets with something new, for*)
(* the receiver or in the acknowledgement that they call forth, delivers one,*)
(* in time for it to be acknowledged; and an acknowledgement with something  *)
(* new gets back.  Tx is strongly fair because a slot, unlike the network,   *)
(* can be full.                                                              *)

\* The packet tells the receiver of a byte, a FIN or credit it does not have.
HasNews(p) ==
    LET d == Peer(p.from) IN
    \/ p.maxData > conn[d].txCwm
    \/ \E s \in Stream :
        LET t == st[d][s]
            f == p.str[s]
        IN  \/ f.maxStreamData > t.txCwm
            \/ f.fin /\ ~t.rx.fin
            \/ \E b \in f.bytes : b >= t.rx.rwm /\ b \notin t.got

\* The acknowledgement of the packet tells its sender of a byte or a FIN.
HasAckNews(p) ==
    \E s \in Stream :
        LET t == st[p.from][s] IN
        /\ HasSStream(t)
        /\ (p.str[s].fin /\ ~t.ackedFin) \/ ~(p.str[s].bytes \subseteq t.acked)

Fairness ==
    /\ \A e \in End : SF_vars(Tx(e))
    /\ WF_vars(\E e \in End, s \in Stream, n \in 0..MaxSize, a \in BOOLEAN, b \in BOOLEAN :
                  Read(e, s, n, a, b))
    /\ \A i \in Slot : WF_vars(Ack(i) \/ Lose(i) \/ Drop(i))
    /\ SF_vars(\E i \in Slot : /\ pkt[i] # NoPkt
                               /\ HasNews(pkt[i]) \/ (pkt[i].inflight /\ HasAckNews(pkt[i]))
                               /\ Deliver(i))
    /\ SF_vars(\E i \in Slot : pkt[i] # NoPkt /\ HasAckNews(pkt[i]) /\ Ack(i))

FairSpec == Spec /\ Fairness
-----------------------------------------------------------------------------
(* Properties *)

RxType(bound) ==
    [swm : 0..bound, cwm : Nat, rwm : 0..bound, hwm : 0..bound, win : Nat,
     max : Nat, fin : BOOLEAN, err : Errors, changed : BOOLEAN]

\* Every field keeps its type; offsets never pass what the application writes.
TypeOK ==
    /\ st \in [End -> [Stream ->
         [sendState : SendStates, size : 0..MaxSize, fin : BOOLEAN,
          new : SUBSET (0..MaxSize), sentFin : BOOLEAN,
          acked : SUBSET (0..MaxSize), ackedFin : BOOLEAN,
          finalSize : 0..MaxSize, wantReset : BOOLEAN, peerStop : BOOLEAN,
          txSwm : 0..MaxSize, txCwm : Nat, recvState : RecvStates,
          got : SUBSET (0..MaxSize), stop : BOOLEAN, wantStop : BOOLEAN,
          ackedStop : BOOLEAN, wantMaxStreamData : BOOLEAN,
          rx : RxType(MaxSize), deleted : BOOLEAN, readyForGc : BOOLEAN,
          active : BOOLEAN]]]
    /\ error \in [End -> Errors]

\* The packets of e that its sender still counts on, and those that may yet
\* arrive as well.
UnderWay(e) == {i \in Slot : pkt[i] # NoPkt /\ pkt[i].from = e}
InFlight(e) == {i \in UnderWay(e) : pkt[i].inflight}

\* Two endpoints that run this code never accuse each other of overrunning a
\* limit or of changing a final size, whatever is lost, late or out of order:
\* neither in a stream's flow controller nor in the connection's.
NoProtocolError ==
    \A e \in End : error[e] = "NONE" /\ conn[e].rx.err = "NONE"

\* The connection's watermarks are exactly the sums of the streams', on both
\* sides: no credit is spent or retired twice, or at one level only.
ConnAccounting ==
    \A e \in End :
        /\ conn[e].txSwm = SumFunction([s \in Stream |-> st[e][s].txSwm])
        /\ conn[e].rx.swm = SumFunction([s \in Stream |-> st[e][s].rx.swm])
        /\ conn[e].rx.rwm = SumFunction([s \in Stream |-> st[e][s].rx.rwm])

\* While there is a send buffer, every byte written is in exactly one place:
\* waiting for transmission, acknowledged, or in one packet in flight.
BytesAccountedFor ==
    \A e \in End, s \in Stream :
        LET t    == st[e][s]
            with(b) == {i \in InFlight(e) : b \in pkt[i].str[s].bytes}
        IN  HasSStream(t) => \A b \in 0..(t.size - 1) :
                Cardinality(with(b)) + (IF b \in t.new THEN 1 ELSE 0)
                                     + (IF b \in t.acked THEN 1 ELSE 0) = 1

\* Once the receiver has a final size, by FIN or by RESET_STREAM, it is the
\* sender's, and both ends have charged the connection that much for the stream.
FinalSizeAgreed ==
    \A e \in End, s \in Stream :
        LET t == st[e][s]
            r == st[Peer(e)][s].rx
        IN  r.fin => /\ r.hwm = t.txSwm
                     /\ r.swm = t.txSwm
                     /\ t.sendState \in {"DATA_SENT", "DATA_RECVD",
                                         "RESET_SENT", "RESET_RECVD"}
                        => t.finalSize = t.txSwm

\* What is received but not yet read stays below the largest window.
BufferBounded ==
    \A e \in End :
        /\ conn[e].rx.cwm - conn[e].rx.rwm =< ConnMaxWnd
        /\ \A s \in Stream : st[e][s].rx.cwm - st[e][s].rx.rwm =< StreamMaxWnd

\* A sender that takes a stream as delivered (Data Recvd) is right: the peer has
\* every byte and the FIN, or has said that it does not want them.
DeliveredMeansReceived ==
    \A e \in End, s \in Stream :
        LET t == st[Peer(e)][s]
        IN  st[e][s].sendState = "DATA_RECVD" =>
                /\ t.rx.fin
                /\ t.recvState \in {"DATA_RECVD", "DATA_READ"} \/ t.stop

\* Credit the receiver has granted at connection level reaches the sender: it
\* knows it, or a MAX_DATA frame with it is due or in flight.
ConnCreditNotForgotten ==
    \A e \in End :
        \/ conn[Peer(e)].txCwm = conn[e].rx.cwm
        \/ conn[e].wantMaxData \/ conn[e].rx.changed
        \/ \E i \in InFlight(e) : pkt[i].maxData = conn[e].rx.cwm

\* The same for the credit of a stream whose final size is not known: MAX_STREAM_DATA
\* is due or under way.
StreamCreditNotForgotten ==
    \A e \in End, s \in Stream :
        LET t == st[e][s] IN
        t.recvState = "RECV" =>
            \/ st[Peer(e)][s].txCwm = t.rx.cwm
            \/ t.wantMaxStreamData \/ t.rx.changed
            \/ \E i \in UnderWay(e) : pkt[i].str[s].maxStreamData = t.rx.cwm

\* A stream that has something to send is on the active list, so that the
\* packetiser sees it.
NothingStranded ==
    \A e \in End, s \in Stream :
        ShouldBeActive(st[e][s], ConnCredit(e)) => st[e][s].active

\* The assertion of qsm_ready_for_gc(): the send part of a deleted stream has
\* been reset or has a final size.
DeletedIsFinished ==
    \A e \in End, s \in Stream : st[e][s].deleted => SendFinished(st[e][s])

\* A stream that is concluded is read to its end by the peer, and its sender
\* learns of it, however often packets are lost and credit runs out.
ConcludedIsRead ==
    \A e \in End, s \in Stream :
        st[e][s].fin ~> /\ st[Peer(e)][s].recvState = "DATA_READ"
                        /\ st[e][s].sendState = "DATA_RECVD"

=============================================================================
