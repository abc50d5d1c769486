--------------------------- MODULE TlsWriteProofs ---------------------------
(***************************************************************************)
(* What a step of a side that writes does to its stage: paths and how they *)
(* grow, each message of TLS 1.3 as it is written, and the stages of the   *)
(* client and of the server under the write state machine.                 *)
(***************************************************************************)
EXTENDS TlsStages, SequenceTheorems, TLAPS

-----------------------------------------------------------------------------
(* Paths. *)

LEMMA PosFields ==
    ASSUME NEW p \in Pos
    PROVE  /\ p = At(p.at, p.ku, p.d, p.k)
           /\ p.ku \in Nat /\ p.d \in Nat /\ p.k \in Nat
  BY DEF Pos, At

\* What a record does to a position.
Moved(a, b) ==
    \/ b = a
    \/ \E x \in Places : b = [a EXCEPT !.at = x]
    \/ b = [a EXCEPT !.d = @ + 1]
    \/ b = [a EXCEPT !.ku = @ + 1]
    \/ b = [a EXCEPT !.k = @ + 1]
    \/ \E x \in Places : b = [a EXCEPT !.at = x, !.k = @ + 1]

\* A record takes a position to one with at least its counts.
LEMMA ArrivalGrows ==
    ASSUME NEW r \in Role, NEW a \in Pos, NEW m, NEW b, Arrives(r, a, m, b)
    PROVE  b \in Pos /\ a.d <= b.d /\ a.k <= b.k
<1>1. a.ku \in Nat /\ a.d \in Nat /\ a.k \in Nat
  BY DEF Pos
<1>2. Moved(a, b)
  <2>1. CASE r = "server"
    <3>1. AfterHello \in Places /\ (IF opt.cert THEN "cv" ELSE "fin") \in Places
          /\ (IF opt.cert THEN "pcv" ELSE "pfin") \in Places
      BY DEF AfterHello, Places
    <3>2. {"early", "answer", "fin", "pfin", "ok"} \subseteq Places
      BY DEF Places
    <3> QED BY <2>1, <3>2, <3>1, Zenon DEF Arrives, ToServer, Moved
  <2>2. CASE r # "server"
    <3>1. (IF opt.hrr THEN "sh2" ELSE "ee") \in Places /\ (IF opt.hit THEN "fin" ELSE "cr") \in Places
      BY DEF Places
    <3>2. {"ee", "cert", "cv", "fin", "ok"} \subseteq Places
      BY DEF Places
    <3> QED BY <2>2, <3>2, <3>1, Zenon DEF Arrives, ToClient, Moved
  <2> QED BY <2>1, <2>2
<1>3. CASE b = a
  BY <1>1, <1>3
<1>4. ASSUME NEW x \in Places, b = [a EXCEPT !.at = x]
      PROVE  b \in Pos /\ a.d <= b.d /\ a.k <= b.k
  BY <1>1, <1>4 DEF Pos
<1>5. CASE b = [a EXCEPT !.d = @ + 1]
  BY <1>1, <1>5 DEF Pos
<1>6. CASE b = [a EXCEPT !.ku = @ + 1]
  BY <1>1, <1>6 DEF Pos
<1>7. CASE b = [a EXCEPT !.k = @ + 1]
  BY <1>1, <1>7 DEF Pos
<1>8. ASSUME NEW x \in Places, b = [a EXCEPT !.at = x, !.k = @ + 1]
      PROVE  b \in Pos /\ a.d <= b.d /\ a.k <= b.k
  <2>1. PICK e : e = [a EXCEPT !.at = x]
    OBVIOUS
  <2>2. e \in Pos /\ e.d = a.d /\ e.k = a.k
    BY <2>1 DEF Pos
  <2>3. b = [e EXCEPT !.k = @ + 1]
    BY <1>8, <2>1 DEF Pos
  <2> QED BY <1>1, <2>2, <2>3 DEF Pos
<1> QED BY <1>2, <1>3, <1>4, <1>5, <1>6, <1>7, <1>8 DEF Moved

\* What a path says of its ends.
LEMMA PathEnds ==
    ASSUME NEW r, NEW a, NEW q, NEW b, Path(r, a, q, b)
    PROVE  /\ a \in Pos /\ b \in Pos /\ a.d <= b.d /\ a.k <= b.k
           /\ q = <<>> => a = b
<1>1. PICK R : /\ q \in Seq(R)
               /\ \E p \in [1 .. (Len(q) + 1) -> Pos] :
                    /\ p[1] = a /\ p[Len(q) + 1] = b
                    /\ \A i \in 1 .. Len(q) : Arrives(r, p[i], q[i], p[i + 1])
                    /\ \A i, j \in 1 .. (Len(q) + 1) :
                          i <= j => p[i].d <= p[j].d /\ p[i].k <= p[j].k
  BY DEF Path
<1>2. PICK p \in [1 .. (Len(q) + 1) -> Pos] :
                    /\ p[1] = a /\ p[Len(q) + 1] = b
                    /\ \A i, j \in 1 .. (Len(q) + 1) :
                          i <= j => p[i].d <= p[j].d /\ p[i].k <= p[j].k
  BY <1>1
<1>3. Len(q) \in Nat
  BY <1>1
<1>4. 1 \in 1 .. (Len(q) + 1) /\ Len(q) + 1 \in 1 .. (Len(q) + 1) /\ 1 <= Len(q) + 1
  BY <1>3
<1>5. a \in Pos /\ b \in Pos /\ a.d <= b.d /\ a.k <= b.k
  BY <1>2, <1>4
<1>6. q = <<>> => a = b
  BY <1>2
<1> QED BY <1>5, <1>6

LEMMA PathEmpty ==
    ASSUME NEW r, NEW a \in Pos
    PROVE  Path(r, a, <<>>, a)
<1>1. <<>> \in Seq({}) /\ Len(<<>>) = 0
  OBVIOUS
<1>2. PICK p : p = [i \in 1 .. 1 |-> a]
  OBVIOUS
<1>3. p \in [1 .. (Len(<<>>) + 1) -> Pos] /\ p[1] = a /\ p[Len(<<>>) + 1] = a
  BY <1>1, <1>2
<1>4. a.d \in Nat /\ a.k \in Nat
  BY DEF Pos
<1>5. \A i, j \in 1 .. (Len(<<>>) + 1) : i <= j => p[i].d <= p[j].d /\ p[i].k <= p[j].k
  BY <1>1, <1>2, <1>4
<1>6. \A i \in 1 .. Len(<<>>) : Arrives(r, p[i], <<>>[i], p[i + 1])
  BY <1>1
<1> QED BY <1>1, <1>3, <1>5, <1>6 DEF Path

\* A record is written.
LEMMA PathPush ==
    ASSUME NEW r \in Role, NEW a, NEW q, NEW b, Path(r, a, q, b),
           NEW m, NEW e, Arrives(r, b, m, e)
    PROVE  Path(r, a, Append(q, m), e)
<1>1. PICK R : /\ q \in Seq(R)
               /\ \E p \in [1 .. (Len(q) + 1) -> Pos] :
                    /\ p[1] = a /\ p[Len(q) + 1] = b
                    /\ \A i \in 1 .. Len(q) : Arrives(r, p[i], q[i], p[i + 1])
                    /\ \A i, j \in 1 .. (Len(q) + 1) :
                          i <= j => p[i].d <= p[j].d /\ p[i].k <= p[j].k
  BY DEF Path
<1>2. PICK p \in [1 .. (Len(q) + 1) -> Pos] :
                    /\ p[1] = a /\ p[Len(q) + 1] = b
                    /\ \A i \in 1 .. Len(q) : Arrives(r, p[i], q[i], p[i + 1])
                    /\ \A i, j \in 1 .. (Len(q) + 1) :
                          i <= j => p[i].d <= p[j].d /\ p[i].k <= p[j].k
  BY <1>1
<1>3. PICK n : n = Len(q) /\ n \in Nat
  BY <1>1
<1>4. b \in Pos
  BY <1>2, <1>3
<1>5. e \in Pos /\ b.d <= e.d /\ b.k <= e.k
  BY <1>4, ArrivalGrows
<1>6. PICK u : u = Append(q, m)
  OBVIOUS
<1>7. /\ u \in Seq(R \cup {m}) /\ Len(u) = n + 1 /\ u[n + 1] = m
      /\ \A i \in 1 .. n : u[i] = q[i]
  BY <1>1, <1>3, <1>6
<1>8. PICK p2 : p2 = [i \in 1 .. (n + 2) |-> IF i = n + 2 THEN e ELSE p[i]]
  OBVIOUS
<1>9. /\ p2 \in [1 .. (n + 2) -> Pos] /\ p2[1] = a /\ p2[n + 2] = e
      /\ \A i \in 1 .. (n + 1) : p2[i] = p[i]
  BY <1>2, <1>3, <1>5, <1>8
<1>10. \A i \in 1 .. (n + 1) : Arrives(r, p2[i], u[i], p2[i + 1])
  <2> TAKE i \in 1 .. (n + 1)
  <2>1. CASE i = n + 1
    <3>1. p2[i] = b /\ u[i] = m /\ p2[i + 1] = e
      BY <1>2, <1>3, <1>7, <1>9, <2>1
    <3> QED BY <3>1
  <2>2. CASE i # n + 1
    <3>1. i \in 1 .. n /\ i + 1 \in 1 .. (n + 1)
      BY <1>3, <2>2
    <3>2. p2[i] = p[i] /\ u[i] = q[i] /\ p2[i + 1] = p[i + 1]
      BY <1>3, <1>7, <1>9, <3>1
    <3> QED BY <1>2, <1>3, <3>1, <3>2
  <2> QED BY <2>1, <2>2
<1>11. \A i, j \in 1 .. (n + 2) : i <= j => p2[i].d <= p2[j].d /\ p2[i].k <= p2[j].k
  <2> SUFFICES ASSUME NEW i \in 1 .. (n + 2), NEW j \in 1 .. (n + 2), i <= j
               PROVE  p2[i].d <= p2[j].d /\ p2[i].k <= p2[j].k
    OBVIOUS
  <2>1. CASE j = n + 2 /\ i = n + 2
    <3>1. e.d \in Nat /\ e.k \in Nat
      BY <1>5 DEF Pos
    <3> QED BY <2>1, <3>1, <1>9
  <2>2. CASE j = n + 2 /\ i # n + 2
    <3>1. i \in 1 .. (n + 1) /\ n + 1 \in 1 .. (n + 1) /\ i <= n + 1
      BY <1>3, <2>2
    <3>2. p[i].d <= b.d /\ p[i].k <= b.k
      BY <1>2, <1>3, <3>1
    <3>3. p[i] \in Pos
      BY <1>2, <1>3, <3>1
    <3>4. /\ p[i].d \in Nat /\ p[i].k \in Nat /\ b.d \in Nat /\ b.k \in Nat
          /\ e.d \in Nat /\ e.k \in Nat
      BY <3>3, <1>4, <1>5 DEF Pos
    <3>5. p[i].d <= e.d /\ p[i].k <= e.k
      BY <3>2, <3>4, <1>5
    <3> QED BY <3>5, <3>1, <2>2, <1>9
  <2>3. CASE j # n + 2
    <3>1. i \in 1 .. (n + 1) /\ j \in 1 .. (n + 1)
      BY <1>3, <2>3
    <3> QED BY <1>2, <1>3, <1>9, <3>1
  <2> QED BY <2>1, <2>2, <2>3
<1>12. Len(u) + 1 = n + 2
  BY <1>3, <1>7
<1>13. Path(r, a, u, e)
  BY <1>7, <1>9, <1>10, <1>11, <1>12 DEF Path
<1> QED BY <1>6, <1>13

\* A record is read.
LEMMA PathPop ==
    ASSUME NEW r \in Role, NEW a, NEW q, NEW b, Path(r, a, q, b), q # <<>>
    PROVE  \E e : Arrives(r, a, Head(q), e) /\ Path(r, e, Tail(q), b)
<1>1. PICK R : /\ q \in Seq(R)
               /\ \E p \in [1 .. (Len(q) + 1) -> Pos] :
                    /\ p[1] = a /\ p[Len(q) + 1] = b
                    /\ \A i \in 1 .. Len(q) : Arrives(r, p[i], q[i], p[i + 1])
                    /\ \A i, j \in 1 .. (Len(q) + 1) :
                          i <= j => p[i].d <= p[j].d /\ p[i].k <= p[j].k
  BY DEF Path
<1>2. PICK p \in [1 .. (Len(q) + 1) -> Pos] :
                    /\ p[1] = a /\ p[Len(q) + 1] = b
                    /\ \A i \in 1 .. Len(q) : Arrives(r, p[i], q[i], p[i + 1])
                    /\ \A i, j \in 1 .. (Len(q) + 1) :
                          i <= j => p[i].d <= p[j].d /\ p[i].k <= p[j].k
  BY <1>1
<1>3. PICK n : n = Len(q) /\ n \in Nat /\ n # 0
  BY <1>1
<1>4. PICK u : u = Tail(q)
  OBVIOUS
<1>5. /\ u \in Seq(R) /\ Len(u) = n - 1
      /\ \A i \in 1 .. (n - 1) : u[i] = q[i + 1]
  BY <1>1, <1>3, <1>4
<1>6. Head(q) = q[1]
  BY <1>1, <1>3
<1>7. Arrives(r, a, Head(q), p[2])
  <2>1. 1 \in 1 .. Len(q)
    BY <1>3
  <2>2. Arrives(r, p[1], q[1], p[1 + 1])
    BY <1>2, <2>1
  <2> QED BY <1>2, <1>6, <2>2
<1>8. PICK p2 : p2 = [i \in 1 .. n |-> p[i + 1]]
  OBVIOUS
<1>9. p2 \in [1 .. n -> Pos] /\ p2[1] = p[2] /\ p2[n] = b
  BY <1>2, <1>3, <1>8
<1>10. \A i \in 1 .. (n - 1) : Arrives(r, p2[i], u[i], p2[i + 1])
  <2> TAKE i \in 1 .. (n - 1)
  <2>1. i + 1 \in 1 .. n /\ i \in 1 .. n
    BY <1>3
  <2>2. p2[i] = p[i + 1] /\ u[i] = q[i + 1] /\ p2[i + 1] = p[(i + 1) + 1]
    BY <1>5, <1>8, <2>1
  <2>3. Arrives(r, p[i + 1], q[i + 1], p[(i + 1) + 1])
    BY <1>2, <1>3, <2>1
  <2> QED BY <2>2, <2>3
<1>11. \A i, j \in 1 .. n : i <= j => p2[i].d <= p2[j].d /\ p2[i].k <= p2[j].k
  <2> SUFFICES ASSUME NEW i \in 1 .. n, NEW j \in 1 .. n, i <= j
               PROVE  p2[i].d <= p2[j].d /\ p2[i].k <= p2[j].k
    OBVIOUS
  <2>1. i + 1 \in 1 .. (Len(q) + 1) /\ j + 1 \in 1 .. (Len(q) + 1) /\ i + 1 <= j + 1
    BY <1>3
  <2>2. p2[i] = p[i + 1] /\ p2[j] = p[j + 1]
    BY <1>8
  <2> QED BY <1>2, <2>1, <2>2
<1>12. Len(u) + 1 = n /\ Len(u) = n - 1
  BY <1>3, <1>5
<1>13. Path(r, p[2], u, b)
  BY <1>5, <1>9, <1>10, <1>11, <1>12 DEF Path
<1> QED BY <1>4, <1>7, <1>13
-----------------------------------------------------------------------------
(* Connections are records, and most steps change few of their fields. *)

LEMMA FieldsAre ==
    Fields =
    {"st", "flow", "inInit", "err", "v13", "finSent", "finRead", "cleanup",
     "hit", "hrr", "early", "ed", "certReq", "peerCert", "pha", "keyUpdate",
     "ticket", "sentTickets", "extraTickets",
     "rk", "wk", "tr", "hsTr", "sfTr", "phaTr",
     "handshakes", "ccs", "reneg", "newSession", "sched", "helloReq", "total"}
  BY DEF Fields, InitialConn

\* e is a connection that differs from c in no field but those of S.
Same(c, e, S) == DOMAIN e = Fields /\ \A f \in Fields \ S : e[f] = c[f]

\* write_state_machine() in state t: what is constructed, the connection when it is
\* written, and the record.
Built(c, r, t) == BeforeSend([c EXCEPT !.st = t], r, t)
Wrote(c, r, t) == AfterSend(Built(c, r, t), t)
Record(c, r, t) == Message([c EXCEPT !.st = t], Built(c, r, t), t)

LEMMA MsgOfAre ==
    /\ MsgOf["CW_CLNT_HELLO"] = "CH" /\ MsgOf["CW_CHANGE"] = "CCS"
    /\ MsgOf["CW_END_OF_EARLY_DATA"] = "EOED" /\ MsgOf["CW_CERT"] = "CERT"
    /\ MsgOf["CW_CERT_VRFY"] = "CV" /\ MsgOf["CW_FINISHED"] = "FIN"
    /\ MsgOf["CW_KEY_UPDATE"] = "KU"
    /\ MsgOf["SW_SRVR_HELLO"] = "SH" /\ MsgOf["SW_CHANGE"] = "CCS"
    /\ MsgOf["SW_ENCRYPTED_EXTENSIONS"] = "EE" /\ MsgOf["SW_CERT_REQ"] = "CR"
    /\ MsgOf["SW_CERT"] = "CERT" /\ MsgOf["SW_CERT_VRFY"] = "CV"
    /\ MsgOf["SW_SESSION_TICKET"] = "NST" /\ MsgOf["SW_FINISHED"] = "FIN"
    /\ MsgOf["SW_KEY_UPDATE"] = "KU"
    /\ {"CW_CLNT_HELLO", "CW_CHANGE", "CW_END_OF_EARLY_DATA", "CW_CERT", "CW_CERT_VRFY",
        "CW_FINISHED", "CW_KEY_UPDATE", "SW_SRVR_HELLO", "SW_CHANGE",
        "SW_ENCRYPTED_EXTENSIONS", "SW_CERT_REQ", "SW_CERT", "SW_CERT_VRFY",
        "SW_SESSION_TICKET", "SW_FINISHED", "SW_KEY_UPDATE"} \subseteq DOMAIN MsgOf
    /\ "OK" \notin DOMAIN MsgOf /\ "EARLY_DATA" \notin DOMAIN MsgOf
    /\ "PENDING_EARLY_DATA_END" \notin DOMAIN MsgOf
    /\ "READ" \notin DOMAIN MsgOf
  BY DEF MsgOf

\* The record of a state has its message, the writer's key, and the fields of its type.
LEMMA MessageIs ==
    ASSUME NEW c, NEW d, NEW t
    PROVE  LET m == Message(c, d, t) IN
           /\ m.mt = MsgOf[t] /\ m.key = d.wk
           /\ MsgOf[t] = "CH" => (m.early <=> c.ed = "connecting") /\ m.pha = opt.pha
           /\ MsgOf[t] = "SH" => (m.hrr <=> d.hrr = "pending") /\ m.hit = d.hit
           /\ MsgOf[t] = "EE" => (m.early <=> d.early = "accepted")
           /\ MsgOf[t] = "CERT" => m.full = (c.certReq # "empty")
           /\ MsgOf[t] = "FIN" => m.digest = d.tr
<1>1. PICK mt : mt = MsgOf[t]
  OBVIOUS
<1>2. PICK m : m = Message(c, d, t)
  OBVIOUS
<1>3. CASE mt = "CH"
  <2>1. m = [mt |-> mt, key |-> d.wk, early |-> c.ed = "connecting",
             pha |-> opt.pha, resume |-> ~c.newSession]
    BY <1>1, <1>2, <1>3 DEF Message
  <2>2. m.mt = "CH" /\ m.key = d.wk /\ m.early = (c.ed = "connecting") /\ m.pha = opt.pha
    BY <1>3, <2>1
  <2>3. m.early <=> c.ed = "connecting"
    BY <2>2, Zenon
  <2> QED BY <1>1, <1>2, <1>3, <2>2, <2>3
<1>4. CASE mt = "SH"
  <2>1. m = [mt |-> mt, key |-> d.wk, hrr |-> d.hrr = "pending", hit |-> d.hit,
             ticket |-> d.ticket]
    BY <1>1, <1>2, <1>4 DEF Message
  <2>2. m.mt = "SH" /\ m.key = d.wk /\ m.hrr = (d.hrr = "pending") /\ m.hit = d.hit
    BY <1>4, <2>1
  <2>3. m.hrr <=> d.hrr = "pending"
    BY <2>2, Zenon
  <2> QED BY <1>1, <1>2, <1>4, <2>2, <2>3
<1>5. CASE mt = "EE"
  <2>1. m = [mt |-> mt, key |-> d.wk, early |-> d.early = "accepted"]
    BY <1>1, <1>2, <1>5 DEF Message
  <2>2. m.mt = "EE" /\ m.key = d.wk /\ m.early = (d.early = "accepted")
    BY <1>5, <2>1
  <2>3. m.early <=> d.early = "accepted"
    BY <2>2, Zenon
  <2> QED BY <1>1, <1>2, <1>5, <2>2, <2>3
<1>6. CASE mt \notin {"CH", "SH", "EE"}
  BY <1>1, <1>2, <1>6 DEF Message
<1> QED BY <1>3, <1>4, <1>5, <1>6
-----------------------------------------------------------------------------
(* What writing one message does, state by state. *)
\* A ClientHello that early data follows.
LEMMA WroteEarlyHello ==
    ASSUME NEW c, DOMAIN c = Fields, ~c.v13, c.ed = "connecting" /\ "client" \notin opt.compat
    PROVE  LET e == Wrote(c, "client", "CW_CLNT_HELLO")
               m == Record(c, "client", "CW_CLNT_HELLO")
           IN /\ Same(c, e, {"st", "wk", "early", "pha", "handshakes", "tr"})
              /\ e.st = "CW_CLNT_HELLO" /\ e.tr = Append(c.tr, "CH")
              /\ e.early = (IF c.ed = "connecting" THEN "rejected" ELSE c.early)
              /\ e.pha = (IF opt.pha THEN "ext" ELSE c.pha)
              /\ e.wk = <<"early", Append(c.tr, "CH"), 0>>
              /\ m.mt = "CH" /\ m.key = (IF c.early = "rejected" THEN NoKey ELSE c.wk)
              /\ (m.early <=> c.ed = "connecting") /\ m.pha = opt.pha
<1> USE FieldsAre, MsgOfAre
<1>1. PICK b : b = [c EXCEPT !.st = "CW_CLNT_HELLO"]
  OBVIOUS
<1>2. Same(c, b, {"st"}) /\ b.st = "CW_CLNT_HELLO"
  BY <1>1 DEF Same
<1>3. PICK d : d = Built(c, "client", "CW_CLNT_HELLO")
  OBVIOUS
<1>4. PICK v1 : v1 = (IF b.early = "rejected" THEN NoKey ELSE b.wk)
  OBVIOUS
<1>5. PICK v2 : v2 = (IF b.ed = "connecting" THEN "rejected" ELSE b.early)
  OBVIOUS
<1>6. PICK v3 : v3 = (IF opt.pha THEN "ext" ELSE b.pha)
  OBVIOUS
<1>7. PICK v4 : v4 = (IF b.hrr = "pending" THEN b.handshakes ELSE b.handshakes + 1)
  OBVIOUS
<1>8. d = [b EXCEPT !.wk = v1, !.early = v2, !.pha = v3, !.handshakes = v4]
  BY <1>1, <1>2, <1>3, <1>4, <1>5, <1>6, <1>7 DEF Same, Built, BeforeSend, BeforeClientHello
<1>9. Same(c, d, {"st", "wk", "early", "pha", "handshakes"}) /\ d.st = "CW_CLNT_HELLO" /\ d.wk = v1 /\ d.early = v2 /\ d.pha = v3 /\ d.handshakes = v4
  BY <1>2, <1>8 DEF Same
<1>10. v1 = (IF c.early = "rejected" THEN NoKey ELSE c.wk)
  BY <1>2, <1>4 DEF Same
<1>11. v2 = (IF c.ed = "connecting" THEN "rejected" ELSE c.early)
  BY <1>2, <1>5 DEF Same
<1>12. v3 = (IF opt.pha THEN "ext" ELSE c.pha)
  BY <1>2, <1>6 DEF Same
<1>13. v4 = (IF c.hrr = "pending" THEN c.handshakes ELSE c.handshakes + 1)
  BY <1>2, <1>7 DEF Same
<1>14. PICK e : e = Wrote(c, "client", "CW_CLNT_HELLO")
  OBVIOUS
<1>15. PICK f : f = [d EXCEPT !.tr = Append(d.tr, "CH")]
  OBVIOUS
<1>16. Same(c, f, {"st", "wk", "early", "pha", "handshakes", "tr"}) /\ f.st = "CW_CLNT_HELLO" /\ f.tr = Append(c.tr, "CH") /\ f.wk = v1 /\ f.early = v2 /\ f.pha = v3 /\ f.handshakes = v4
  BY <1>9, <1>15 DEF Same
<1>17. PICK w1 : w1 = (<<"early", f.tr, 0>>)
  OBVIOUS
<1>18. ~d.v13
  BY <1>9 DEF Same
<1>19. e = AfterSend12(f, "CW_CLNT_HELLO")
  BY <1>3, <1>14, <1>15, <1>18 DEF Wrote, AfterSend, Hashed
<1>20. e = [f EXCEPT !.wk = w1]
  BY <1>16, <1>19, <1>17 DEF Same, AfterSend12, EarlyKey
<1>21. w1 = (<<"early", Append(c.tr, "CH"), 0>>)
  BY <1>16, <1>17 DEF Same
<1>22. Same(c, e, {"st", "wk", "early", "pha", "handshakes", "tr"}) /\ e.st = "CW_CLNT_HELLO" /\ e.early = v2 /\ e.pha = v3 /\ e.handshakes = v4 /\ e.tr = f.tr /\ e.wk = w1
  BY <1>16, <1>20 DEF Same
<1>23. PICK m : m = Record(c, "client", "CW_CLNT_HELLO")
  OBVIOUS
<1>24. m = Message(b, d, "CW_CLNT_HELLO")
  BY <1>1, <1>3, <1>23 DEF Record
<1>25. /\ m.mt = "CH" /\ m.key = (IF c.early = "rejected" THEN NoKey ELSE c.wk)
       /\ (m.early <=> c.ed = "connecting") /\ m.pha = opt.pha
  BY <1>2, <1>9, <1>10, <1>11, <1>12, <1>13, <1>24, MessageIs DEF Same
<1>26. /\ Same(c, e, {"st", "wk", "early", "pha", "handshakes", "tr"})
       /\ e.st = "CW_CLNT_HELLO" /\ e.tr = Append(c.tr, "CH")
       /\ e.early = (IF c.ed = "connecting" THEN "rejected" ELSE c.early)
       /\ e.pha = (IF opt.pha THEN "ext" ELSE c.pha)
       /\ e.wk = <<"early", Append(c.tr, "CH"), 0>>
  BY <1>25, <1>10, <1>11, <1>12, <1>13, <1>21, <1>9, <1>16, <1>22 DEF Same
<1> QED BY <1>14, <1>23, <1>26, <1>25

\* A ClientHello.
LEMMA WroteClientHello ==
    ASSUME NEW c, DOMAIN c = Fields, ~c.v13, ~(c.ed = "connecting" /\ "client" \notin opt.compat)
    PROVE  LET e == Wrote(c, "client", "CW_CLNT_HELLO")
               m == Record(c, "client", "CW_CLNT_HELLO")
           IN /\ Same(c, e, {"st", "wk", "early", "pha", "handshakes", "tr"})
              /\ e.st = "CW_CLNT_HELLO" /\ e.tr = Append(c.tr, "CH")
              /\ e.early = (IF c.ed = "connecting" THEN "rejected" ELSE c.early)
              /\ e.pha = (IF opt.pha THEN "ext" ELSE c.pha)
              /\ e.wk = (IF c.early = "rejected" THEN NoKey ELSE c.wk)
              /\ m.mt = "CH" /\ m.key = (IF c.early = "rejected" THEN NoKey ELSE c.wk)
              /\ (m.early <=> c.ed = "connecting") /\ m.pha = opt.pha
<1> USE FieldsAre, MsgOfAre
<1>1. PICK b : b = [c EXCEPT !.st = "CW_CLNT_HELLO"]
  OBVIOUS
<1>2. Same(c, b, {"st"}) /\ b.st = "CW_CLNT_HELLO"
  BY <1>1 DEF Same
<1>3. PICK d : d = Built(c, "client", "CW_CLNT_HELLO")
  OBVIOUS
<1>4. PICK v1 : v1 = (IF b.early = "rejected" THEN NoKey ELSE b.wk)
  OBVIOUS
<1>5. PICK v2 : v2 = (IF b.ed = "connecting" THEN "rejected" ELSE b.early)
  OBVIOUS
<1>6. PICK v3 : v3 = (IF opt.pha THEN "ext" ELSE b.pha)
  OBVIOUS
<1>7. PICK v4 : v4 = (IF b.hrr = "pending" THEN b.handshakes ELSE b.handshakes + 1)
  OBVIOUS
<1>8. d = [b EXCEPT !.wk = v1, !.early = v2, !.pha = v3, !.handshakes = v4]
  BY <1>1, <1>2, <1>3, <1>4, <1>5, <1>6, <1>7 DEF Same, Built, BeforeSend, BeforeClientHello
<1>9. Same(c, d, {"st", "wk", "early", "pha", "handshakes"}) /\ d.st = "CW_CLNT_HELLO" /\ d.wk = v1 /\ d.early = v2 /\ d.pha = v3 /\ d.handshakes = v4
  BY <1>2, <1>8 DEF Same
<1>10. v1 = (IF c.early = "rejected" THEN NoKey ELSE c.wk)
  BY <1>2, <1>4 DEF Same
<1>11. v2 = (IF c.ed = "connecting" THEN "rejected" ELSE c.early)
  BY <1>2, <1>5 DEF Same
<1>12. v3 = (IF opt.pha THEN "ext" ELSE c.pha)
  BY <1>2, <1>6 DEF Same
<1>13. v4 = (IF c.hrr = "pending" THEN c.handshakes ELSE c.handshakes + 1)
  BY <1>2, <1>7 DEF Same
<1>14. PICK e : e = Wrote(c, "client", "CW_CLNT_HELLO")
  OBVIOUS
<1>15. PICK f : f = [d EXCEPT !.tr = Append(d.tr, "CH")]
  OBVIOUS
<1>16. Same(c, f, {"st", "wk", "early", "pha", "handshakes", "tr"}) /\ f.st = "CW_CLNT_HELLO" /\ f.tr = Append(c.tr, "CH") /\ f.wk = v1 /\ f.early = v2 /\ f.pha = v3 /\ f.handshakes = v4
  BY <1>9, <1>15 DEF Same
<1>17. ~d.v13
  BY <1>9 DEF Same
<1>18. e = AfterSend12(f, "CW_CLNT_HELLO")
  BY <1>3, <1>14, <1>15, <1>17 DEF Wrote, AfterSend, Hashed
<1>19. e = f
  BY <1>16, <1>18 DEF Same, AfterSend12, EarlyKey
<1>20. Same(c, e, {"st", "wk", "early", "pha", "handshakes", "tr"}) /\ e.st = "CW_CLNT_HELLO" /\ e.wk = v1 /\ e.early = v2 /\ e.pha = v3 /\ e.handshakes = v4 /\ e.tr = f.tr
  BY <1>16, <1>19 DEF Same
<1>21. PICK m : m = Record(c, "client", "CW_CLNT_HELLO")
  OBVIOUS
<1>22. m = Message(b, d, "CW_CLNT_HELLO")
  BY <1>1, <1>3, <1>21 DEF Record
<1>23. /\ m.mt = "CH" /\ m.key = (IF c.early = "rejected" THEN NoKey ELSE c.wk)
       /\ (m.early <=> c.ed = "connecting") /\ m.pha = opt.pha
  BY <1>2, <1>9, <1>10, <1>11, <1>12, <1>13, <1>22, MessageIs DEF Same
<1>24. /\ Same(c, e, {"st", "wk", "early", "pha", "handshakes", "tr"})
       /\ e.st = "CW_CLNT_HELLO" /\ e.tr = Append(c.tr, "CH")
       /\ e.early = (IF c.ed = "connecting" THEN "rejected" ELSE c.early)
       /\ e.pha = (IF opt.pha THEN "ext" ELSE c.pha)
       /\ e.wk = (IF c.early = "rejected" THEN NoKey ELSE c.wk)
  BY <1>23, <1>10, <1>11, <1>12, <1>13, <1>9, <1>16, <1>20 DEF Same
<1> QED BY <1>14, <1>21, <1>24, <1>23

\* A ChangeCipherSpec before the second ClientHello.
LEMMA WroteRetryCcs ==
    ASSUME NEW c, DOMAIN c = Fields, ~c.v13, c.hrr = "pending"
    PROVE  LET e == Wrote(c, "client", "CW_CHANGE")
               m == Record(c, "client", "CW_CHANGE")
           IN /\ Same(c, e, {"st"})
              /\ e.st = "CW_CHANGE"
              /\ m.mt = "CCS"
<1> USE FieldsAre, MsgOfAre
<1>1. PICK b : b = [c EXCEPT !.st = "CW_CHANGE"]
  OBVIOUS
<1>2. Same(c, b, {"st"}) /\ b.st = "CW_CHANGE"
  BY <1>1 DEF Same
<1>3. PICK d : d = Built(c, "client", "CW_CHANGE")
  OBVIOUS
<1>4. d = b
  BY <1>1, <1>2, <1>3 DEF Same, Built, BeforeSend
<1>5. Same(c, d, {"st"}) /\ d.st = "CW_CHANGE"
  BY <1>2, <1>4 DEF Same
<1>6. PICK e : e = Wrote(c, "client", "CW_CHANGE")
  OBVIOUS
<1>7. ~d.v13
  BY <1>5 DEF Same
<1>8. e = AfterSend12(d, "CW_CHANGE")
  BY <1>3, <1>6, <1>7 DEF Wrote, AfterSend, Hashed
<1>9. e = d
  BY <1>5, <1>8 DEF Same, AfterSend12
<1>10. Same(c, e, {"st"}) /\ e.st = "CW_CHANGE"
  BY <1>5, <1>9 DEF Same
<1>11. PICK m : m = Record(c, "client", "CW_CHANGE")
  OBVIOUS
<1>12. m = Message(b, d, "CW_CHANGE")
  BY <1>1, <1>3, <1>11 DEF Record
<1>13. /\ m.mt = "CCS"
  BY <1>2, <1>5, <1>12, MessageIs DEF Same
<1>14. /\ Same(c, e, {"st"})
       /\ e.st = "CW_CHANGE"
  BY <1>13, <1>5, <1>5, <1>10 DEF Same
<1> QED BY <1>6, <1>11, <1>14, <1>13

\* A ChangeCipherSpec before early data.
LEMMA WroteEarlyCcs ==
    ASSUME NEW c, DOMAIN c = Fields, ~c.v13, c.hrr # "pending", c.ed = "connecting"
    PROVE  LET e == Wrote(c, "client", "CW_CHANGE")
               m == Record(c, "client", "CW_CHANGE")
           IN /\ Same(c, e, {"st", "wk"})
              /\ e.st = "CW_CHANGE" /\ e.wk = <<"early", c.tr, 0>>
              /\ m.mt = "CCS"
<1> USE FieldsAre, MsgOfAre
<1>1. PICK b : b = [c EXCEPT !.st = "CW_CHANGE"]
  OBVIOUS
<1>2. Same(c, b, {"st"}) /\ b.st = "CW_CHANGE"
  BY <1>1 DEF Same
<1>3. PICK d : d = Built(c, "client", "CW_CHANGE")
  OBVIOUS
<1>4. d = b
  BY <1>1, <1>2, <1>3 DEF Same, Built, BeforeSend
<1>5. Same(c, d, {"st"}) /\ d.st = "CW_CHANGE"
  BY <1>2, <1>4 DEF Same
<1>6. PICK e : e = Wrote(c, "client", "CW_CHANGE")
  OBVIOUS
<1>7. PICK w1 : w1 = (<<"early", d.tr, 0>>)
  OBVIOUS
<1>8. ~d.v13
  BY <1>5 DEF Same
<1>9. e = AfterSend12(d, "CW_CHANGE")
  BY <1>3, <1>6, <1>8 DEF Wrote, AfterSend, Hashed
<1>10. e = [d EXCEPT !.wk = w1]
  BY <1>5, <1>9, <1>7 DEF Same, AfterSend12, EarlyKey
<1>11. w1 = (<<"early", c.tr, 0>>)
  BY <1>5, <1>7 DEF Same
<1>12. Same(c, e, {"st", "wk"}) /\ e.st = "CW_CHANGE" /\ e.wk = w1
  BY <1>5, <1>10 DEF Same
<1>13. PICK m : m = Record(c, "client", "CW_CHANGE")
  OBVIOUS
<1>14. m = Message(b, d, "CW_CHANGE")
  BY <1>1, <1>3, <1>13 DEF Record
<1>15. /\ m.mt = "CCS"
  BY <1>2, <1>5, <1>14, MessageIs DEF Same
<1>16. /\ Same(c, e, {"st", "wk"})
       /\ e.st = "CW_CHANGE" /\ e.wk = <<"early", c.tr, 0>>
  BY <1>15, <1>11, <1>5, <1>5, <1>12 DEF Same
<1> QED BY <1>6, <1>13, <1>16, <1>15

\* A ChangeCipherSpec before the answer to the server.
LEMMA WroteClientCcs ==
    ASSUME NEW c, DOMAIN c = Fields, c.v13
    PROVE  LET e == Wrote(c, "client", "CW_CHANGE")
               m == Record(c, "client", "CW_CHANGE")
           IN /\ Same(c, e, {"st"})
              /\ e.st = "CW_CHANGE"
              /\ m.mt = "CCS"
<1> USE FieldsAre, MsgOfAre
<1>1. PICK b : b = [c EXCEPT !.st = "CW_CHANGE"]
  OBVIOUS
<1>2. Same(c, b, {"st"}) /\ b.st = "CW_CHANGE"
  BY <1>1 DEF Same
<1>3. PICK d : d = Built(c, "client", "CW_CHANGE")
  OBVIOUS
<1>4. d = b
  BY <1>1, <1>2, <1>3 DEF Same, Built, BeforeSend, BeforeSend13
<1>5. Same(c, d, {"st"}) /\ d.st = "CW_CHANGE"
  BY <1>2, <1>4 DEF Same
<1>6. PICK e : e = Wrote(c, "client", "CW_CHANGE")
  OBVIOUS
<1>7. d.v13
  BY <1>5 DEF Same
<1>8. e = AfterSend13(d, "CW_CHANGE")
  BY <1>3, <1>6, <1>7 DEF Wrote, AfterSend, Hashed
<1>9. e = d
  BY <1>5, <1>8 DEF Same, AfterSend13
<1>10. Same(c, e, {"st"}) /\ e.st = "CW_CHANGE"
  BY <1>5, <1>9 DEF Same
<1>11. PICK m : m = Record(c, "client", "CW_CHANGE")
  OBVIOUS
<1>12. m = Message(b, d, "CW_CHANGE")
  BY <1>1, <1>3, <1>11 DEF Record
<1>13. /\ m.mt = "CCS"
  BY <1>2, <1>5, <1>12, MessageIs DEF Same
<1>14. /\ Same(c, e, {"st"})
       /\ e.st = "CW_CHANGE"
  BY <1>13, <1>5, <1>5, <1>10 DEF Same
<1> QED BY <1>6, <1>11, <1>14, <1>13

\* The end of early data.
LEMMA WroteEndOfEarlyData ==
    ASSUME NEW c, DOMAIN c = Fields, c.v13
    PROVE  LET e == Wrote(c, "client", "CW_END_OF_EARLY_DATA")
               m == Record(c, "client", "CW_END_OF_EARLY_DATA")
           IN /\ Same(c, e, {"st", "tr"})
              /\ e.st = "CW_END_OF_EARLY_DATA" /\ e.tr = Append(c.tr, "EOED")
              /\ m.mt = "EOED" /\ m.key = c.wk
<1> USE FieldsAre, MsgOfAre
<1>1. PICK b : b = [c EXCEPT !.st = "CW_END_OF_EARLY_DATA"]
  OBVIOUS
<1>2. Same(c, b, {"st"}) /\ b.st = "CW_END_OF_EARLY_DATA"
  BY <1>1 DEF Same
<1>3. PICK d : d = Built(c, "client", "CW_END_OF_EARLY_DATA")
  OBVIOUS
<1>4. d = b
  BY <1>1, <1>2, <1>3 DEF Same, Built, BeforeSend, BeforeSend13
<1>5. Same(c, d, {"st"}) /\ d.st = "CW_END_OF_EARLY_DATA"
  BY <1>2, <1>4 DEF Same
<1>6. PICK e : e = Wrote(c, "client", "CW_END_OF_EARLY_DATA")
  OBVIOUS
<1>7. PICK f : f = [d EXCEPT !.tr = Append(d.tr, "EOED")]
  OBVIOUS
<1>8. Same(c, f, {"st", "tr"}) /\ f.st = "CW_END_OF_EARLY_DATA" /\ f.tr = Append(c.tr, "EOED")
  BY <1>5, <1>7 DEF Same
<1>9. d.v13
  BY <1>5 DEF Same
<1>10. e = AfterSend13(f, "CW_END_OF_EARLY_DATA")
  BY <1>3, <1>6, <1>7, <1>9 DEF Wrote, AfterSend, Hashed
<1>11. e = f
  BY <1>8, <1>10 DEF Same, AfterSend13
<1>12. Same(c, e, {"st", "tr"}) /\ e.st = "CW_END_OF_EARLY_DATA" /\ e.tr = f.tr
  BY <1>8, <1>11 DEF Same
<1>13. PICK m : m = Record(c, "client", "CW_END_OF_EARLY_DATA")
  OBVIOUS
<1>14. m = Message(b, d, "CW_END_OF_EARLY_DATA")
  BY <1>1, <1>3, <1>13 DEF Record
<1>15. /\ m.mt = "EOED" /\ m.key = c.wk
  BY <1>2, <1>5, <1>14, MessageIs DEF Same
<1>16. /\ Same(c, e, {"st", "tr"})
       /\ e.st = "CW_END_OF_EARLY_DATA" /\ e.tr = Append(c.tr, "EOED")
  BY <1>15, <1>5, <1>8, <1>12 DEF Same
<1> QED BY <1>6, <1>13, <1>16, <1>15

\* The client's Certificate, in the handshake and after it.
LEMMA WroteClientCert ==
    ASSUME NEW c, DOMAIN c = Fields, c.v13
    PROVE  LET e == Wrote(c, "client", "CW_CERT")
               m == Record(c, "client", "CW_CERT")
           IN /\ Same(c, e, {"st", "wk", "tr"})
              /\ e.st = "CW_CERT" /\ e.tr = Append(c.tr, "CERT")
              /\ e.wk = m.key
              /\ m.mt = "CERT" /\ m.full = (c.certReq # "empty")
              /\ m.key = (IF ~(c.finSent /\ c.finRead) /\ (c.ed # "none" \/ "client" \in opt.compat) THEN <<"handshake", c.hsTr, 0>> ELSE c.wk)
<1> USE FieldsAre, MsgOfAre
<1>1. PICK b : b = [c EXCEPT !.st = "CW_CERT"]
  OBVIOUS
<1>2. Same(c, b, {"st"}) /\ b.st = "CW_CERT"
  BY <1>1 DEF Same
<1>3. PICK d : d = Built(c, "client", "CW_CERT")
  OBVIOUS
<1>4. PICK v1 : v1 = (IF ~(b.finSent /\ b.finRead) /\ (b.ed # "none" \/ "client" \in opt.compat) THEN <<"handshake", b.hsTr, 0>> ELSE b.wk)
  OBVIOUS
<1>5. d = [b EXCEPT !.wk = v1]
  BY <1>1, <1>2, <1>3, <1>4 DEF Same, Built, BeforeSend, BeforeSend13, FirstHandshake, WriteKeysDeferred, HandshakeKey
<1>6. Same(c, d, {"st", "wk"}) /\ d.st = "CW_CERT" /\ d.wk = v1
  BY <1>2, <1>5 DEF Same
<1>7. v1 = (IF ~(c.finSent /\ c.finRead) /\ (c.ed # "none" \/ "client" \in opt.compat) THEN <<"handshake", c.hsTr, 0>> ELSE c.wk)
  BY <1>2, <1>4 DEF Same
<1>8. PICK e : e = Wrote(c, "client", "CW_CERT")
  OBVIOUS
<1>9. PICK f : f = [d EXCEPT !.tr = Append(d.tr, "CERT")]
  OBVIOUS
<1>10. Same(c, f, {"st", "wk", "tr"}) /\ f.st = "CW_CERT" /\ f.tr = Append(c.tr, "CERT") /\ f.wk = v1
  BY <1>6, <1>9 DEF Same
<1>11. d.v13
  BY <1>6 DEF Same
<1>12. e = AfterSend13(f, "CW_CERT")
  BY <1>3, <1>8, <1>9, <1>11 DEF Wrote, AfterSend, Hashed
<1>13. e = f
  BY <1>10, <1>12 DEF Same, AfterSend13
<1>14. Same(c, e, {"st", "wk", "tr"}) /\ e.st = "CW_CERT" /\ e.wk = v1 /\ e.tr = f.tr
  BY <1>10, <1>13 DEF Same
<1>15. PICK m : m = Record(c, "client", "CW_CERT")
  OBVIOUS
<1>16. m = Message(b, d, "CW_CERT")
  BY <1>1, <1>3, <1>15 DEF Record
<1>17. /\ m.mt = "CERT" /\ m.full = (c.certReq # "empty")
       /\ m.key = (IF ~(c.finSent /\ c.finRead) /\ (c.ed # "none" \/ "client" \in opt.compat) THEN <<"handshake", c.hsTr, 0>> ELSE c.wk)
  BY <1>2, <1>6, <1>7, <1>16, MessageIs DEF Same
<1>18. /\ Same(c, e, {"st", "wk", "tr"})
       /\ e.st = "CW_CERT" /\ e.tr = Append(c.tr, "CERT")
       /\ e.wk = m.key
  BY <1>17, <1>7, <1>6, <1>10, <1>14 DEF Same
<1> QED BY <1>8, <1>15, <1>18, <1>17

\* The client's CertificateVerify.
LEMMA WroteClientVerify ==
    ASSUME NEW c, DOMAIN c = Fields, c.v13
    PROVE  LET e == Wrote(c, "client", "CW_CERT_VRFY")
               m == Record(c, "client", "CW_CERT_VRFY")
           IN /\ Same(c, e, {"st", "tr"})
              /\ e.st = "CW_CERT_VRFY" /\ e.tr = Append(c.tr, "CV")
              /\ m.mt = "CV" /\ m.key = c.wk
<1> USE FieldsAre, MsgOfAre
<1>1. PICK b : b = [c EXCEPT !.st = "CW_CERT_VRFY"]
  OBVIOUS
<1>2. Same(c, b, {"st"}) /\ b.st = "CW_CERT_VRFY"
  BY <1>1 DEF Same
<1>3. PICK d : d = Built(c, "client", "CW_CERT_VRFY")
  OBVIOUS
<1>4. d = b
  BY <1>1, <1>2, <1>3 DEF Same, Built, BeforeSend, BeforeSend13
<1>5. Same(c, d, {"st"}) /\ d.st = "CW_CERT_VRFY"
  BY <1>2, <1>4 DEF Same
<1>6. PICK e : e = Wrote(c, "client", "CW_CERT_VRFY")
  OBVIOUS
<1>7. PICK f : f = [d EXCEPT !.tr = Append(d.tr, "CV")]
  OBVIOUS
<1>8. Same(c, f, {"st", "tr"}) /\ f.st = "CW_CERT_VRFY" /\ f.tr = Append(c.tr, "CV")
  BY <1>5, <1>7 DEF Same
<1>9. d.v13
  BY <1>5 DEF Same
<1>10. e = AfterSend13(f, "CW_CERT_VRFY")
  BY <1>3, <1>6, <1>7, <1>9 DEF Wrote, AfterSend, Hashed
<1>11. e = f
  BY <1>8, <1>10 DEF Same, AfterSend13
<1>12. Same(c, e, {"st", "tr"}) /\ e.st = "CW_CERT_VRFY" /\ e.tr = f.tr
  BY <1>8, <1>11 DEF Same
<1>13. PICK m : m = Record(c, "client", "CW_CERT_VRFY")
  OBVIOUS
<1>14. m = Message(b, d, "CW_CERT_VRFY")
  BY <1>1, <1>3, <1>13 DEF Record
<1>15. /\ m.mt = "CV" /\ m.key = c.wk
  BY <1>2, <1>5, <1>14, MessageIs DEF Same
<1>16. /\ Same(c, e, {"st", "tr"})
       /\ e.st = "CW_CERT_VRFY" /\ e.tr = Append(c.tr, "CV")
  BY <1>15, <1>5, <1>8, <1>12 DEF Same
<1> QED BY <1>6, <1>13, <1>16, <1>15

\* The client's Finished.
LEMMA WroteClientFinished ==
    ASSUME NEW c, DOMAIN c = Fields, c.v13
    PROVE  LET e == Wrote(c, "client", "CW_FINISHED")
               m == Record(c, "client", "CW_FINISHED")
           IN /\ Same(c, e, {"st", "wk", "finSent", "cleanup", "tr", "phaTr"})
              /\ e.st = "CW_FINISHED" /\ e.tr = Append(c.tr, "FIN") /\ e.finSent
              /\ e.phaTr = (IF c.phaTr = <<>> THEN Append(c.tr, "FIN") ELSE c.phaTr)
              /\ e.wk = (IF c.pha = "requested" THEN m.key ELSE <<"app", c.sfTr, 0>>)
              /\ m.mt = "FIN" /\ m.digest = c.tr
              /\ m.key = (IF c.certReq = "none" /\ (c.ed # "none" \/ "client" \in opt.compat) THEN <<"handshake", c.hsTr, 0>> ELSE c.wk)
<1> USE FieldsAre, MsgOfAre
<1>1. PICK b : b = [c EXCEPT !.st = "CW_FINISHED"]
  OBVIOUS
<1>2. Same(c, b, {"st"}) /\ b.st = "CW_FINISHED"
  BY <1>1 DEF Same
<1>3. PICK d : d = Built(c, "client", "CW_FINISHED")
  OBVIOUS
<1>4. PICK v1 : v1 = (IF b.certReq = "none" /\ (b.ed # "none" \/ "client" \in opt.compat) THEN <<"handshake", b.hsTr, 0>> ELSE b.wk)
  OBVIOUS
<1>5. PICK v3 : v3 = ((IF TRUE THEN b.cleanup \/ b.pha # "requested" ELSE FALSE))
  OBVIOUS
<1>6. d = [b EXCEPT !.wk = v1, !.finSent = TRUE, !.cleanup = v3]
  BY <1>1, <1>2, <1>3, <1>4, <1>5 DEF Same, Built, BeforeSend, BeforeSend13, WriteKeysDeferred, HandshakeKey
<1>7. Same(c, d, {"st", "wk", "finSent", "cleanup"}) /\ d.st = "CW_FINISHED" /\ d.wk = v1 /\ d.finSent = TRUE /\ d.cleanup = v3
  BY <1>2, <1>6 DEF Same
<1>8. v1 = (IF c.certReq = "none" /\ (c.ed # "none" \/ "client" \in opt.compat) THEN <<"handshake", c.hsTr, 0>> ELSE c.wk)
  BY <1>2, <1>4 DEF Same
<1>9. v3 = ((IF TRUE THEN c.cleanup \/ c.pha # "requested" ELSE FALSE))
  BY <1>2, <1>5 DEF Same
<1>10. PICK e : e = Wrote(c, "client", "CW_FINISHED")
  OBVIOUS
<1>11. PICK f : f = [d EXCEPT !.tr = Append(d.tr, "FIN")]
  OBVIOUS
<1>12. Same(c, f, {"st", "wk", "finSent", "cleanup", "tr"}) /\ f.st = "CW_FINISHED" /\ f.tr = Append(c.tr, "FIN") /\ f.wk = v1 /\ f.finSent = TRUE /\ f.cleanup = v3
  BY <1>7, <1>11 DEF Same
<1>13. PICK w1 : w1 = (IF f.phaTr = <<>> THEN f.tr ELSE f.phaTr)
  OBVIOUS
<1>14. PICK w2 : w2 = (IF f.pha = "requested" THEN f.wk ELSE <<"app", f.sfTr, 0>>)
  OBVIOUS
<1>15. d.v13
  BY <1>7 DEF Same
<1>16. e = AfterSend13(f, "CW_FINISHED")
  BY <1>3, <1>10, <1>11, <1>15 DEF Wrote, AfterSend, Hashed
<1>17. e = [f EXCEPT !.phaTr = w1, !.wk = w2]
  BY <1>12, <1>16, <1>13, <1>14 DEF Same, AfterSend13, SavedForPha, AppKey
<1>18. w1 = (IF c.phaTr = <<>> THEN Append(c.tr, "FIN") ELSE c.phaTr)
  BY <1>12, <1>13 DEF Same
<1>19. w2 = (IF c.pha = "requested" THEN v1 ELSE <<"app", c.sfTr, 0>>)
  BY <1>12, <1>14 DEF Same
<1>20. Same(c, e, {"st", "wk", "finSent", "cleanup", "tr", "phaTr"}) /\ e.st = "CW_FINISHED" /\ e.finSent = TRUE /\ e.cleanup = v3 /\ e.tr = f.tr /\ e.phaTr = w1 /\ e.wk = w2
  BY <1>12, <1>17 DEF Same
<1>21. PICK m : m = Record(c, "client", "CW_FINISHED")
  OBVIOUS
<1>22. m = Message(b, d, "CW_FINISHED")
  BY <1>1, <1>3, <1>21 DEF Record
<1>23. /\ m.mt = "FIN" /\ m.digest = c.tr
       /\ m.key = (IF c.certReq = "none" /\ (c.ed # "none" \/ "client" \in opt.compat) THEN <<"handshake", c.hsTr, 0>> ELSE c.wk)
  BY <1>2, <1>7, <1>8, <1>9, <1>22, MessageIs DEF Same
<1>24. /\ Same(c, e, {"st", "wk", "finSent", "cleanup", "tr", "phaTr"})
       /\ e.st = "CW_FINISHED" /\ e.tr = Append(c.tr, "FIN") /\ e.finSent
       /\ e.phaTr = (IF c.phaTr = <<>> THEN Append(c.tr, "FIN") ELSE c.phaTr)
       /\ e.wk = (IF c.pha = "requested" THEN m.key ELSE <<"app", c.sfTr, 0>>)
  BY <1>23, <1>8, <1>9, <1>18, <1>19, <1>7, <1>12, <1>20 DEF Same
<1> QED BY <1>10, <1>21, <1>24, <1>23

\* A KeyUpdate of the client.
LEMMA WroteClientKeyUpdate ==
    ASSUME NEW c, DOMAIN c = Fields, c.v13
    PROVE  LET e == Wrote(c, "client", "CW_KEY_UPDATE")
               m == Record(c, "client", "CW_KEY_UPDATE")
           IN /\ Same(c, e, {"st", "keyUpdate", "wk"})
              /\ e.st = "CW_KEY_UPDATE" /\ e.keyUpdate = "none" /\ e.wk = UpdatedKey(c.wk)
              /\ m.mt = "KU" /\ m.key = c.wk
<1> USE FieldsAre, MsgOfAre
<1>1. PICK b : b = [c EXCEPT !.st = "CW_KEY_UPDATE"]
  OBVIOUS
<1>2. Same(c, b, {"st"}) /\ b.st = "CW_KEY_UPDATE"
  BY <1>1 DEF Same
<1>3. PICK d : d = Built(c, "client", "CW_KEY_UPDATE")
  OBVIOUS
<1>4. d = [b EXCEPT !.keyUpdate = "none"]
  BY <1>1, <1>2, <1>3 DEF Same, Built, BeforeSend, BeforeSend13
<1>5. Same(c, d, {"st", "keyUpdate"}) /\ d.st = "CW_KEY_UPDATE" /\ d.keyUpdate = "none"
  BY <1>2, <1>4 DEF Same
<1>6. PICK e : e = Wrote(c, "client", "CW_KEY_UPDATE")
  OBVIOUS
<1>7. d.v13
  BY <1>5 DEF Same
<1>8. e = AfterSend13(d, "CW_KEY_UPDATE")
  BY <1>3, <1>6, <1>7 DEF Wrote, AfterSend, Hashed
<1>9. e = [d EXCEPT !.wk = UpdatedKey(d.wk)]
  BY <1>5, <1>8 DEF Same, AfterSend13
<1>10. Same(c, e, {"st", "keyUpdate", "wk"}) /\ e.st = "CW_KEY_UPDATE" /\ e.keyUpdate = "none" /\ e.wk = UpdatedKey(d.wk)
  BY <1>5, <1>9 DEF Same
<1>11. PICK m : m = Record(c, "client", "CW_KEY_UPDATE")
  OBVIOUS
<1>12. m = Message(b, d, "CW_KEY_UPDATE")
  BY <1>1, <1>3, <1>11 DEF Record
<1>13. /\ m.mt = "KU" /\ m.key = c.wk
  BY <1>2, <1>5, <1>12, MessageIs DEF Same
<1>14. /\ Same(c, e, {"st", "keyUpdate", "wk"})
       /\ e.st = "CW_KEY_UPDATE" /\ e.keyUpdate = "none" /\ e.wk = UpdatedKey(c.wk)
  BY <1>13, <1>5, <1>5, <1>10 DEF Same
<1> QED BY <1>6, <1>11, <1>14, <1>13

\* A KeyUpdate of the server.
LEMMA WroteServerKeyUpdate ==
    ASSUME NEW c, DOMAIN c = Fields, c.v13
    PROVE  LET e == Wrote(c, "server", "SW_KEY_UPDATE")
               m == Record(c, "server", "SW_KEY_UPDATE")
           IN /\ Same(c, e, {"st", "keyUpdate", "wk"})
              /\ e.st = "SW_KEY_UPDATE" /\ e.keyUpdate = "none" /\ e.wk = UpdatedKey(c.wk)
              /\ m.mt = "KU" /\ m.key = c.wk
<1> USE FieldsAre, MsgOfAre
<1>1. PICK b : b = [c EXCEPT !.st = "SW_KEY_UPDATE"]
  OBVIOUS
<1>2. Same(c, b, {"st"}) /\ b.st = "SW_KEY_UPDATE"
  BY <1>1 DEF Same
<1>3. PICK d : d = Built(c, "server", "SW_KEY_UPDATE")
  OBVIOUS
<1>4. d = [b EXCEPT !.keyUpdate = "none"]
  BY <1>1, <1>2, <1>3 DEF Same, Built, BeforeSend, BeforeSend13
<1>5. Same(c, d, {"st", "keyUpdate"}) /\ d.st = "SW_KEY_UPDATE" /\ d.keyUpdate = "none"
  BY <1>2, <1>4 DEF Same
<1>6. PICK e : e = Wrote(c, "server", "SW_KEY_UPDATE")
  OBVIOUS
<1>7. d.v13
  BY <1>5 DEF Same
<1>8. e = AfterSend13(d, "SW_KEY_UPDATE")
  BY <1>3, <1>6, <1>7 DEF Wrote, AfterSend, Hashed
<1>9. e = [d EXCEPT !.wk = UpdatedKey(d.wk)]
  BY <1>5, <1>8 DEF Same, AfterSend13
<1>10. Same(c, e, {"st", "keyUpdate", "wk"}) /\ e.st = "SW_KEY_UPDATE" /\ e.keyUpdate = "none" /\ e.wk = UpdatedKey(d.wk)
  BY <1>5, <1>9 DEF Same
<1>11. PICK m : m = Record(c, "server", "SW_KEY_UPDATE")
  OBVIOUS
<1>12. m = Message(b, d, "SW_KEY_UPDATE")
  BY <1>1, <1>3, <1>11 DEF Record
<1>13. /\ m.mt = "KU" /\ m.key = c.wk
  BY <1>2, <1>5, <1>12, MessageIs DEF Same
<1>14. /\ Same(c, e, {"st", "keyUpdate", "wk"})
       /\ e.st = "SW_KEY_UPDATE" /\ e.keyUpdate = "none" /\ e.wk = UpdatedKey(c.wk)
  BY <1>13, <1>5, <1>5, <1>10 DEF Same
<1> QED BY <1>6, <1>11, <1>14, <1>13

\* A HelloRetryRequest.
LEMMA WroteRetryRequest ==
    ASSUME NEW c, DOMAIN c = Fields, c.v13, c.hrr = "pending"
    PROVE  LET e == Wrote(c, "server", "SW_SRVR_HELLO")
               m == Record(c, "server", "SW_SRVR_HELLO")
           IN /\ Same(c, e, {"st", "hit", "tr"})
              /\ e.st = "SW_SRVR_HELLO" /\ ~e.hit /\ e.tr = Append(<<"HASH">>, "SH")
              /\ m.mt = "SH" /\ m.key = c.wk
              /\ m.hrr
<1> USE FieldsAre, MsgOfAre
<1>1. PICK b : b = [c EXCEPT !.st = "SW_SRVR_HELLO"]
  OBVIOUS
<1>2. Same(c, b, {"st"}) /\ b.st = "SW_SRVR_HELLO"
  BY <1>1 DEF Same
<1>3. PICK d : d = Built(c, "server", "SW_SRVR_HELLO")
  OBVIOUS
<1>4. d = [b EXCEPT !.hit = FALSE, !.tr = <<"HASH">>]
  BY <1>1, <1>2, <1>3 DEF Same, Built, BeforeSend, BeforeSend13, BeforeServerHello
<1>5. Same(c, d, {"st", "hit", "tr"}) /\ d.st = "SW_SRVR_HELLO" /\ d.hit = FALSE /\ d.tr = <<"HASH">>
  BY <1>2, <1>4 DEF Same
<1>6. PICK e : e = Wrote(c, "server", "SW_SRVR_HELLO")
  OBVIOUS
<1>7. PICK f : f = [d EXCEPT !.tr = Append(d.tr, "SH")]
  OBVIOUS
<1>8. Same(c, f, {"st", "hit", "tr"}) /\ f.st = "SW_SRVR_HELLO" /\ f.tr = Append(<<"HASH">>, "SH") /\ f.hit = FALSE
  BY <1>5, <1>7 DEF Same
<1>9. d.v13
  BY <1>5 DEF Same
<1>10. e = AfterSend13(f, "SW_SRVR_HELLO")
  BY <1>3, <1>6, <1>7, <1>9 DEF Wrote, AfterSend, Hashed
<1>11. e = f
  BY <1>8, <1>10 DEF Same, AfterSend13
<1>12. Same(c, e, {"st", "hit", "tr"}) /\ e.st = "SW_SRVR_HELLO" /\ e.hit = FALSE /\ e.tr = f.tr
  BY <1>8, <1>11 DEF Same
<1>13. PICK m : m = Record(c, "server", "SW_SRVR_HELLO")
  OBVIOUS
<1>14. m = Message(b, d, "SW_SRVR_HELLO")
  BY <1>1, <1>3, <1>13 DEF Record
<1>15. /\ m.mt = "SH" /\ m.key = c.wk
  BY <1>2, <1>5, <1>14, MessageIs DEF Same
<1>16. (m.hrr <=> d.hrr = "pending") /\ d.hrr = c.hrr
  BY <1>2, <1>5, <1>14, MessageIs DEF Same
<1>17. /\ m.hrr
  BY <1>16, Zenon
<1>18. /\ Same(c, e, {"st", "hit", "tr"})
       /\ e.st = "SW_SRVR_HELLO" /\ ~e.hit /\ e.tr = Append(<<"HASH">>, "SH")
  BY <1>15, <1>17, <1>5, <1>8, <1>12 DEF Same
<1> QED BY <1>6, <1>13, <1>18, <1>15, <1>17

\* A ServerHello that a ChangeCipherSpec follows.
LEMMA WroteServerHelloCompat ==
    ASSUME NEW c, DOMAIN c = Fields, c.v13, c.hrr # "pending", "server" \in opt.compat, c.hrr # "complete"
    PROVE  LET e == Wrote(c, "server", "SW_SRVR_HELLO")
               m == Record(c, "server", "SW_SRVR_HELLO")
           IN /\ Same(c, e, {"st", "tr"})
              /\ e.st = "SW_SRVR_HELLO" /\ e.tr = Append(c.tr, "SH")
              /\ m.mt = "SH" /\ m.key = c.wk /\ m.hit = c.hit
              /\ ~m.hrr
<1> USE FieldsAre, MsgOfAre
<1>1. PICK b : b = [c EXCEPT !.st = "SW_SRVR_HELLO"]
  OBVIOUS
<1>2. Same(c, b, {"st"}) /\ b.st = "SW_SRVR_HELLO"
  BY <1>1 DEF Same
<1>3. PICK d : d = Built(c, "server", "SW_SRVR_HELLO")
  OBVIOUS
<1>4. d = b
  BY <1>1, <1>2, <1>3 DEF Same, Built, BeforeSend, BeforeSend13, BeforeServerHello
<1>5. Same(c, d, {"st"}) /\ d.st = "SW_SRVR_HELLO"
  BY <1>2, <1>4 DEF Same
<1>6. PICK e : e = Wrote(c, "server", "SW_SRVR_HELLO")
  OBVIOUS
<1>7. PICK f : f = [d EXCEPT !.tr = Append(d.tr, "SH")]
  OBVIOUS
<1>8. Same(c, f, {"st", "tr"}) /\ f.st = "SW_SRVR_HELLO" /\ f.tr = Append(c.tr, "SH")
  BY <1>5, <1>7 DEF Same
<1>9. d.v13
  BY <1>5 DEF Same
<1>10. e = AfterSend13(f, "SW_SRVR_HELLO")
  BY <1>3, <1>6, <1>7, <1>9 DEF Wrote, AfterSend, Hashed
<1>11. e = f
  BY <1>8, <1>10 DEF Same, AfterSend13
<1>12. Same(c, e, {"st", "tr"}) /\ e.st = "SW_SRVR_HELLO" /\ e.tr = f.tr
  BY <1>8, <1>11 DEF Same
<1>13. PICK m : m = Record(c, "server", "SW_SRVR_HELLO")
  OBVIOUS
<1>14. m = Message(b, d, "SW_SRVR_HELLO")
  BY <1>1, <1>3, <1>13 DEF Record
<1>15. /\ m.mt = "SH" /\ m.key = c.wk /\ m.hit = c.hit
  BY <1>2, <1>5, <1>14, MessageIs DEF Same
<1>16. (m.hrr <=> d.hrr = "pending") /\ d.hrr = c.hrr
  BY <1>2, <1>5, <1>14, MessageIs DEF Same
<1>17. /\ ~m.hrr
  BY <1>16, Zenon
<1>18. /\ Same(c, e, {"st", "tr"})
       /\ e.st = "SW_SRVR_HELLO" /\ e.tr = Append(c.tr, "SH")
  BY <1>15, <1>17, <1>5, <1>8, <1>12 DEF Same
<1> QED BY <1>6, <1>13, <1>18, <1>15, <1>17

\* A ServerHello after which the keys change.
LEMMA WroteServerHello ==
    ASSUME NEW c, DOMAIN c = Fields, c.v13, c.hrr # "pending", ~("server" \in opt.compat /\ c.hrr # "complete")
    PROVE  LET e == Wrote(c, "server", "SW_SRVR_HELLO")
               m == Record(c, "server", "SW_SRVR_HELLO")
           IN /\ Same(c, e, {"st", "tr", "hsTr", "wk", "rk"})
              /\ e.st = "SW_SRVR_HELLO" /\ e.tr = Append(c.tr, "SH") /\ e.hsTr = Append(c.tr, "SH")
              /\ e.wk = <<"handshake", Append(c.tr, "SH"), 0>>
              /\ e.rk = (IF c.early = "accepted" THEN c.rk ELSE <<"handshake", Append(c.tr, "SH"), 0>>)
              /\ m.mt = "SH" /\ m.key = c.wk /\ m.hit = c.hit
              /\ ~m.hrr
<1> USE FieldsAre, MsgOfAre
<1>1. PICK b : b = [c EXCEPT !.st = "SW_SRVR_HELLO"]
  OBVIOUS
<1>2. Same(c, b, {"st"}) /\ b.st = "SW_SRVR_HELLO"
  BY <1>1 DEF Same
<1>3. PICK d : d = Built(c, "server", "SW_SRVR_HELLO")
  OBVIOUS
<1>4. d = b
  BY <1>1, <1>2, <1>3 DEF Same, Built, BeforeSend, BeforeSend13, BeforeServerHello
<1>5. Same(c, d, {"st"}) /\ d.st = "SW_SRVR_HELLO"
  BY <1>2, <1>4 DEF Same
<1>6. PICK e : e = Wrote(c, "server", "SW_SRVR_HELLO")
  OBVIOUS
<1>7. PICK f : f = [d EXCEPT !.tr = Append(d.tr, "SH")]
  OBVIOUS
<1>8. Same(c, f, {"st", "tr"}) /\ f.st = "SW_SRVR_HELLO" /\ f.tr = Append(c.tr, "SH")
  BY <1>5, <1>7 DEF Same
<1>9. PICK w2 : w2 = (<<"handshake", f.tr, 0>>)
  OBVIOUS
<1>10. PICK w3 : w3 = (IF f.early = "accepted" THEN f.rk ELSE <<"handshake", f.tr, 0>>)
  OBVIOUS
<1>11. d.v13
  BY <1>5 DEF Same
<1>12. e = AfterSend13(f, "SW_SRVR_HELLO")
  BY <1>3, <1>6, <1>7, <1>11 DEF Wrote, AfterSend, Hashed
<1>13. e = [f EXCEPT !.hsTr = f.tr, !.wk = w2, !.rk = w3]
  BY <1>8, <1>12, <1>9, <1>10 DEF Same, AfterSend13, ServerHandshakeKeys, HandshakeKey
<1>14. w2 = (<<"handshake", Append(c.tr, "SH"), 0>>)
  BY <1>8, <1>9 DEF Same
<1>15. w3 = (IF c.early = "accepted" THEN c.rk ELSE <<"handshake", Append(c.tr, "SH"), 0>>)
  BY <1>8, <1>10 DEF Same
<1>16. Same(c, e, {"st", "tr", "hsTr", "wk", "rk"}) /\ e.st = "SW_SRVR_HELLO" /\ e.tr = f.tr /\ e.hsTr = f.tr /\ e.wk = w2 /\ e.rk = w3
  BY <1>8, <1>13 DEF Same
<1>17. PICK m : m = Record(c, "server", "SW_SRVR_HELLO")
  OBVIOUS
<1>18. m = Message(b, d, "SW_SRVR_HELLO")
  BY <1>1, <1>3, <1>17 DEF Record
<1>19. /\ m.mt = "SH" /\ m.key = c.wk /\ m.hit = c.hit
  BY <1>2, <1>5, <1>18, MessageIs DEF Same
<1>20. (m.hrr <=> d.hrr = "pending") /\ d.hrr = c.hrr
  BY <1>2, <1>5, <1>18, MessageIs DEF Same
<1>21. /\ ~m.hrr
  BY <1>20, Zenon
<1>22. /\ Same(c, e, {"st", "tr", "hsTr", "wk", "rk"})
       /\ e.st = "SW_SRVR_HELLO" /\ e.tr = Append(c.tr, "SH") /\ e.hsTr = Append(c.tr, "SH")
       /\ e.wk = <<"handshake", Append(c.tr, "SH"), 0>>
       /\ e.rk = (IF c.early = "accepted" THEN c.rk ELSE <<"handshake", Append(c.tr, "SH"), 0>>)
  BY <1>19, <1>21, <1>14, <1>15, <1>5, <1>8, <1>16 DEF Same
<1> QED BY <1>6, <1>17, <1>22, <1>19, <1>21

\* A ChangeCipherSpec after a HelloRetryRequest.
LEMMA WroteServerRetryCcs ==
    ASSUME NEW c, DOMAIN c = Fields, c.v13, c.hrr = "pending"
    PROVE  LET e == Wrote(c, "server", "SW_CHANGE")
               m == Record(c, "server", "SW_CHANGE")
           IN /\ Same(c, e, {"st"})
              /\ e.st = "SW_CHANGE"
              /\ m.mt = "CCS"
<1> USE FieldsAre, MsgOfAre
<1>1. PICK b : b = [c EXCEPT !.st = "SW_CHANGE"]
  OBVIOUS
<1>2. Same(c, b, {"st"}) /\ b.st = "SW_CHANGE"
  BY <1>1 DEF Same
<1>3. PICK d : d = Built(c, "server", "SW_CHANGE")
  OBVIOUS
<1>4. d = b
  BY <1>1, <1>2, <1>3 DEF Same, Built, BeforeSend, BeforeSend13
<1>5. Same(c, d, {"st"}) /\ d.st = "SW_CHANGE"
  BY <1>2, <1>4 DEF Same
<1>6. PICK e : e = Wrote(c, "server", "SW_CHANGE")
  OBVIOUS
<1>7. d.v13
  BY <1>5 DEF Same
<1>8. e = AfterSend13(d, "SW_CHANGE")
  BY <1>3, <1>6, <1>7 DEF Wrote, AfterSend, Hashed
<1>9. e = d
  BY <1>5, <1>8 DEF Same, AfterSend13
<1>10. Same(c, e, {"st"}) /\ e.st = "SW_CHANGE"
  BY <1>5, <1>9 DEF Same
<1>11. PICK m : m = Record(c, "server", "SW_CHANGE")
  OBVIOUS
<1>12. m = Message(b, d, "SW_CHANGE")
  BY <1>1, <1>3, <1>11 DEF Record
<1>13. /\ m.mt = "CCS"
  BY <1>2, <1>5, <1>12, MessageIs DEF Same
<1>14. /\ Same(c, e, {"st"})
       /\ e.st = "SW_CHANGE"
  BY <1>13, <1>5, <1>5, <1>10 DEF Same
<1> QED BY <1>6, <1>11, <1>14, <1>13

\* A ChangeCipherSpec after the ServerHello.
LEMMA WroteServerCcs ==
    ASSUME NEW c, DOMAIN c = Fields, c.v13, c.hrr # "pending"
    PROVE  LET e == Wrote(c, "server", "SW_CHANGE")
               m == Record(c, "server", "SW_CHANGE")
           IN /\ Same(c, e, {"st", "hsTr", "wk", "rk"})
              /\ e.st = "SW_CHANGE" /\ e.hsTr = c.tr
              /\ e.wk = <<"handshake", c.tr, 0>>
              /\ e.rk = (IF c.early = "accepted" THEN c.rk ELSE <<"handshake", c.tr, 0>>)
              /\ m.mt = "CCS"
<1> USE FieldsAre, MsgOfAre
<1>1. PICK b : b = [c EXCEPT !.st = "SW_CHANGE"]
  OBVIOUS
<1>2. Same(c, b, {"st"}) /\ b.st = "SW_CHANGE"
  BY <1>1 DEF Same
<1>3. PICK d : d = Built(c, "server", "SW_CHANGE")
  OBVIOUS
<1>4. d = b
  BY <1>1, <1>2, <1>3 DEF Same, Built, BeforeSend, BeforeSend13
<1>5. Same(c, d, {"st"}) /\ d.st = "SW_CHANGE"
  BY <1>2, <1>4 DEF Same
<1>6. PICK e : e = Wrote(c, "server", "SW_CHANGE")
  OBVIOUS
<1>7. PICK w2 : w2 = (<<"handshake", d.tr, 0>>)
  OBVIOUS
<1>8. PICK w3 : w3 = (IF d.early = "accepted" THEN d.rk ELSE <<"handshake", d.tr, 0>>)
  OBVIOUS
<1>9. d.v13
  BY <1>5 DEF Same
<1>10. e = AfterSend13(d, "SW_CHANGE")
  BY <1>3, <1>6, <1>9 DEF Wrote, AfterSend, Hashed
<1>11. e = [d EXCEPT !.hsTr = d.tr, !.wk = w2, !.rk = w3]
  BY <1>5, <1>10, <1>7, <1>8 DEF Same, AfterSend13, ServerHandshakeKeys, HandshakeKey
<1>12. w2 = (<<"handshake", c.tr, 0>>)
  BY <1>5, <1>7 DEF Same
<1>13. w3 = (IF c.early = "accepted" THEN c.rk ELSE <<"handshake", c.tr, 0>>)
  BY <1>5, <1>8 DEF Same
<1>14. Same(c, e, {"st", "hsTr", "wk", "rk"}) /\ e.st = "SW_CHANGE" /\ e.hsTr = d.tr /\ e.wk = w2 /\ e.rk = w3
  BY <1>5, <1>11 DEF Same
<1>15. PICK m : m = Record(c, "server", "SW_CHANGE")
  OBVIOUS
<1>16. m = Message(b, d, "SW_CHANGE")
  BY <1>1, <1>3, <1>15 DEF Record
<1>17. /\ m.mt = "CCS"
  BY <1>2, <1>5, <1>16, MessageIs DEF Same
<1>18. /\ Same(c, e, {"st", "hsTr", "wk", "rk"})
       /\ e.st = "SW_CHANGE" /\ e.hsTr = c.tr
       /\ e.wk = <<"handshake", c.tr, 0>>
       /\ e.rk = (IF c.early = "accepted" THEN c.rk ELSE <<"handshake", c.tr, 0>>)
  BY <1>17, <1>12, <1>13, <1>5, <1>5, <1>14 DEF Same
<1> QED BY <1>6, <1>15, <1>18, <1>17

\* The EncryptedExtensions.
LEMMA WroteExtensions ==
    ASSUME NEW c, DOMAIN c = Fields, c.v13
    PROVE  LET e == Wrote(c, "server", "SW_ENCRYPTED_EXTENSIONS")
               m == Record(c, "server", "SW_ENCRYPTED_EXTENSIONS")
           IN /\ Same(c, e, {"st", "tr"})
              /\ e.st = "SW_ENCRYPTED_EXTENSIONS" /\ e.tr = Append(c.tr, "EE")
              /\ m.mt = "EE" /\ m.key = c.wk
              /\ (m.early <=> c.early = "accepted")
<1> USE FieldsAre, MsgOfAre
<1>1. PICK b : b = [c EXCEPT !.st = "SW_ENCRYPTED_EXTENSIONS"]
  OBVIOUS
<1>2. Same(c, b, {"st"}) /\ b.st = "SW_ENCRYPTED_EXTENSIONS"
  BY <1>1 DEF Same
<1>3. PICK d : d = Built(c, "server", "SW_ENCRYPTED_EXTENSIONS")
  OBVIOUS
<1>4. d = b
  BY <1>1, <1>2, <1>3 DEF Same, Built, BeforeSend, BeforeSend13
<1>5. Same(c, d, {"st"}) /\ d.st = "SW_ENCRYPTED_EXTENSIONS"
  BY <1>2, <1>4 DEF Same
<1>6. PICK e : e = Wrote(c, "server", "SW_ENCRYPTED_EXTENSIONS")
  OBVIOUS
<1>7. PICK f : f = [d EXCEPT !.tr = Append(d.tr, "EE")]
  OBVIOUS
<1>8. Same(c, f, {"st", "tr"}) /\ f.st = "SW_ENCRYPTED_EXTENSIONS" /\ f.tr = Append(c.tr, "EE")
  BY <1>5, <1>7 DEF Same
<1>9. d.v13
  BY <1>5 DEF Same
<1>10. e = AfterSend13(f, "SW_ENCRYPTED_EXTENSIONS")
  BY <1>3, <1>6, <1>7, <1>9 DEF Wrote, AfterSend, Hashed
<1>11. e = f
  BY <1>8, <1>10 DEF Same, AfterSend13
<1>12. Same(c, e, {"st", "tr"}) /\ e.st = "SW_ENCRYPTED_EXTENSIONS" /\ e.tr = f.tr
  BY <1>8, <1>11 DEF Same
<1>13. PICK m : m = Record(c, "server", "SW_ENCRYPTED_EXTENSIONS")
  OBVIOUS
<1>14. m = Message(b, d, "SW_ENCRYPTED_EXTENSIONS")
  BY <1>1, <1>3, <1>13 DEF Record
<1>15. /\ m.mt = "EE" /\ m.key = c.wk
       /\ (m.early <=> c.early = "accepted")
  BY <1>2, <1>5, <1>14, MessageIs DEF Same
<1>16. /\ Same(c, e, {"st", "tr"})
       /\ e.st = "SW_ENCRYPTED_EXTENSIONS" /\ e.tr = Append(c.tr, "EE")
  BY <1>15, <1>5, <1>8, <1>12 DEF Same
<1> QED BY <1>6, <1>13, <1>16, <1>15

\* A CertificateRequest, in the handshake and after it.
LEMMA WroteCertReq ==
    ASSUME NEW c, DOMAIN c = Fields, c.v13
    PROVE  LET e == Wrote(c, "server", "SW_CERT_REQ")
               m == Record(c, "server", "SW_CERT_REQ")
           IN /\ Same(c, e, {"st", "tr", "certReq"})
              /\ e.st = "SW_CERT_REQ" /\ e.certReq = "sent"
              /\ e.tr = Append(IF c.pha = "requestPending" THEN c.phaTr ELSE c.tr, "CR")
              /\ m.mt = "CR" /\ m.key = c.wk
<1> USE FieldsAre, MsgOfAre
<1>1. PICK b : b = [c EXCEPT !.st = "SW_CERT_REQ"]
  OBVIOUS
<1>2. Same(c, b, {"st"}) /\ b.st = "SW_CERT_REQ"
  BY <1>1 DEF Same
<1>3. PICK d : d = Built(c, "server", "SW_CERT_REQ")
  OBVIOUS
<1>4. PICK v1 : v1 = (IF b.pha = "requestPending" THEN b.phaTr ELSE b.tr)
  OBVIOUS
<1>5. d = [b EXCEPT !.tr = v1, !.certReq = "sent"]
  BY <1>1, <1>2, <1>3, <1>4 DEF Same, Built, BeforeSend, BeforeSend13
<1>6. Same(c, d, {"st", "tr", "certReq"}) /\ d.st = "SW_CERT_REQ" /\ d.tr = v1 /\ d.certReq = "sent"
  BY <1>2, <1>5 DEF Same
<1>7. v1 = (IF c.pha = "requestPending" THEN c.phaTr ELSE c.tr)
  BY <1>2, <1>4 DEF Same
<1>8. PICK e : e = Wrote(c, "server", "SW_CERT_REQ")
  OBVIOUS
<1>9. PICK f : f = [d EXCEPT !.tr = Append(d.tr, "CR")]
  OBVIOUS
<1>10. Same(c, f, {"st", "tr", "certReq"}) /\ f.st = "SW_CERT_REQ" /\ f.tr = Append(v1, "CR") /\ f.certReq = "sent"
  BY <1>6, <1>9 DEF Same
<1>11. d.v13
  BY <1>6 DEF Same
<1>12. e = AfterSend13(f, "SW_CERT_REQ")
  BY <1>3, <1>8, <1>9, <1>11 DEF Wrote, AfterSend, Hashed
<1>13. e = f
  BY <1>10, <1>12 DEF Same, AfterSend13
<1>14. Same(c, e, {"st", "tr", "certReq"}) /\ e.st = "SW_CERT_REQ" /\ e.certReq = "sent" /\ e.tr = f.tr
  BY <1>10, <1>13 DEF Same
<1>15. PICK m : m = Record(c, "server", "SW_CERT_REQ")
  OBVIOUS
<1>16. m = Message(b, d, "SW_CERT_REQ")
  BY <1>1, <1>3, <1>15 DEF Record
<1>17. /\ m.mt = "CR" /\ m.key = c.wk
  BY <1>2, <1>6, <1>7, <1>16, MessageIs DEF Same
<1>18. /\ Same(c, e, {"st", "tr", "certReq"})
       /\ e.st = "SW_CERT_REQ" /\ e.certReq = "sent"
       /\ e.tr = Append(IF c.pha = "requestPending" THEN c.phaTr ELSE c.tr, "CR")
  BY <1>17, <1>7, <1>6, <1>10, <1>14 DEF Same
<1> QED BY <1>8, <1>15, <1>18, <1>17

\* The server's Certificate.
LEMMA WroteServerCert ==
    ASSUME NEW c, DOMAIN c = Fields, c.v13
    PROVE  LET e == Wrote(c, "server", "SW_CERT")
               m == Record(c, "server", "SW_CERT")
           IN /\ Same(c, e, {"st", "tr"})
              /\ e.st = "SW_CERT" /\ e.tr = Append(c.tr, "CERT")
              /\ m.mt = "CERT" /\ m.key = c.wk
<1> USE FieldsAre, MsgOfAre
<1>1. PICK b : b = [c EXCEPT !.st = "SW_CERT"]
  OBVIOUS
<1>2. Same(c, b, {"st"}) /\ b.st = "SW_CERT"
  BY <1>1 DEF Same
<1>3. PICK d : d = Built(c, "server", "SW_CERT")
  OBVIOUS
<1>4. d = b
  BY <1>1, <1>2, <1>3 DEF Same, Built, BeforeSend, BeforeSend13
<1>5. Same(c, d, {"st"}) /\ d.st = "SW_CERT"
  BY <1>2, <1>4 DEF Same
<1>6. PICK e : e = Wrote(c, "server", "SW_CERT")
  OBVIOUS
<1>7. PICK f : f = [d EXCEPT !.tr = Append(d.tr, "CERT")]
  OBVIOUS
<1>8. Same(c, f, {"st", "tr"}) /\ f.st = "SW_CERT" /\ f.tr = Append(c.tr, "CERT")
  BY <1>5, <1>7 DEF Same
<1>9. d.v13
  BY <1>5 DEF Same
<1>10. e = AfterSend13(f, "SW_CERT")
  BY <1>3, <1>6, <1>7, <1>9 DEF Wrote, AfterSend, Hashed
<1>11. e = f
  BY <1>8, <1>10 DEF Same, AfterSend13
<1>12. Same(c, e, {"st", "tr"}) /\ e.st = "SW_CERT" /\ e.tr = f.tr
  BY <1>8, <1>11 DEF Same
<1>13. PICK m : m = Record(c, "server", "SW_CERT")
  OBVIOUS
<1>14. m = Message(b, d, "SW_CERT")
  BY <1>1, <1>3, <1>13 DEF Record
<1>15. /\ m.mt = "CERT" /\ m.key = c.wk
  BY <1>2, <1>5, <1>14, MessageIs DEF Same
<1>16. /\ Same(c, e, {"st", "tr"})
       /\ e.st = "SW_CERT" /\ e.tr = Append(c.tr, "CERT")
  BY <1>15, <1>5, <1>8, <1>12 DEF Same
<1> QED BY <1>6, <1>13, <1>16, <1>15

\* The server's CertificateVerify.
LEMMA WroteServerVerify ==
    ASSUME NEW c, DOMAIN c = Fields, c.v13
    PROVE  LET e == Wrote(c, "server", "SW_CERT_VRFY")
               m == Record(c, "server", "SW_CERT_VRFY")
           IN /\ Same(c, e, {"st", "tr"})
              /\ e.st = "SW_CERT_VRFY" /\ e.tr = Append(c.tr, "CV")
              /\ m.mt = "CV" /\ m.key = c.wk
<1> USE FieldsAre, MsgOfAre
<1>1. PICK b : b = [c EXCEPT !.st = "SW_CERT_VRFY"]
  OBVIOUS
<1>2. Same(c, b, {"st"}) /\ b.st = "SW_CERT_VRFY"
  BY <1>1 DEF Same
<1>3. PICK d : d = Built(c, "server", "SW_CERT_VRFY")
  OBVIOUS
<1>4. d = b
  BY <1>1, <1>2, <1>3 DEF Same, Built, BeforeSend, BeforeSend13
<1>5. Same(c, d, {"st"}) /\ d.st = "SW_CERT_VRFY"
  BY <1>2, <1>4 DEF Same
<1>6. PICK e : e = Wrote(c, "server", "SW_CERT_VRFY")
  OBVIOUS
<1>7. PICK f : f = [d EXCEPT !.tr = Append(d.tr, "CV")]
  OBVIOUS
<1>8. Same(c, f, {"st", "tr"}) /\ f.st = "SW_CERT_VRFY" /\ f.tr = Append(c.tr, "CV")
  BY <1>5, <1>7 DEF Same
<1>9. d.v13
  BY <1>5 DEF Same
<1>10. e = AfterSend13(f, "SW_CERT_VRFY")
  BY <1>3, <1>6, <1>7, <1>9 DEF Wrote, AfterSend, Hashed
<1>11. e = f
  BY <1>8, <1>10 DEF Same, AfterSend13
<1>12. Same(c, e, {"st", "tr"}) /\ e.st = "SW_CERT_VRFY" /\ e.tr = f.tr
  BY <1>8, <1>11 DEF Same
<1>13. PICK m : m = Record(c, "server", "SW_CERT_VRFY")
  OBVIOUS
<1>14. m = Message(b, d, "SW_CERT_VRFY")
  BY <1>1, <1>3, <1>13 DEF Record
<1>15. /\ m.mt = "CV" /\ m.key = c.wk
  BY <1>2, <1>5, <1>14, MessageIs DEF Same
<1>16. /\ Same(c, e, {"st", "tr"})
       /\ e.st = "SW_CERT_VRFY" /\ e.tr = Append(c.tr, "CV")
  BY <1>15, <1>5, <1>8, <1>12 DEF Same
<1> QED BY <1>6, <1>13, <1>16, <1>15

\* The server's Finished.
LEMMA WroteServerFinished ==
    ASSUME NEW c, DOMAIN c = Fields, c.v13
    PROVE  LET e == Wrote(c, "server", "SW_FINISHED")
               m == Record(c, "server", "SW_FINISHED")
           IN /\ Same(c, e, {"st", "finSent", "tr", "sfTr", "wk"})
              /\ e.st = "SW_FINISHED" /\ e.finSent /\ e.tr = Append(c.tr, "FIN") /\ e.sfTr = Append(c.tr, "FIN")
              /\ e.wk = <<"app", Append(c.tr, "FIN"), 0>>
              /\ m.mt = "FIN" /\ m.key = c.wk /\ m.digest = c.tr
<1> USE FieldsAre, MsgOfAre
<1>1. PICK b : b = [c EXCEPT !.st = "SW_FINISHED"]
  OBVIOUS
<1>2. Same(c, b, {"st"}) /\ b.st = "SW_FINISHED"
  BY <1>1 DEF Same
<1>3. PICK d : d = Built(c, "server", "SW_FINISHED")
  OBVIOUS
<1>4. d = [b EXCEPT !.finSent = TRUE]
  BY <1>1, <1>2, <1>3 DEF Same, Built, BeforeSend, BeforeSend13
<1>5. Same(c, d, {"st", "finSent"}) /\ d.st = "SW_FINISHED" /\ d.finSent = TRUE
  BY <1>2, <1>4 DEF Same
<1>6. PICK e : e = Wrote(c, "server", "SW_FINISHED")
  OBVIOUS
<1>7. PICK f : f = [d EXCEPT !.tr = Append(d.tr, "FIN")]
  OBVIOUS
<1>8. Same(c, f, {"st", "finSent", "tr"}) /\ f.st = "SW_FINISHED" /\ f.tr = Append(c.tr, "FIN") /\ f.finSent = TRUE
  BY <1>5, <1>7 DEF Same
<1>9. PICK w2 : w2 = (<<"app", f.tr, 0>>)
  OBVIOUS
<1>10. d.v13
  BY <1>5 DEF Same
<1>11. e = AfterSend13(f, "SW_FINISHED")
  BY <1>3, <1>6, <1>7, <1>10 DEF Wrote, AfterSend, Hashed
<1>12. e = [f EXCEPT !.sfTr = f.tr, !.wk = w2]
  BY <1>8, <1>11, <1>9 DEF Same, AfterSend13, AppKey
<1>13. w2 = (<<"app", Append(c.tr, "FIN"), 0>>)
  BY <1>8, <1>9 DEF Same
<1>14. Same(c, e, {"st", "finSent", "tr", "sfTr", "wk"}) /\ e.st = "SW_FINISHED" /\ e.finSent = TRUE /\ e.tr = f.tr /\ e.sfTr = f.tr /\ e.wk = w2
  BY <1>8, <1>12 DEF Same
<1>15. PICK m : m = Record(c, "server", "SW_FINISHED")
  OBVIOUS
<1>16. m = Message(b, d, "SW_FINISHED")
  BY <1>1, <1>3, <1>15 DEF Record
<1>17. /\ m.mt = "FIN" /\ m.key = c.wk /\ m.digest = c.tr
  BY <1>2, <1>5, <1>16, MessageIs DEF Same
<1>18. /\ Same(c, e, {"st", "finSent", "tr", "sfTr", "wk"})
       /\ e.st = "SW_FINISHED" /\ e.finSent /\ e.tr = Append(c.tr, "FIN") /\ e.sfTr = Append(c.tr, "FIN")
       /\ e.wk = <<"app", Append(c.tr, "FIN"), 0>>
  BY <1>17, <1>13, <1>5, <1>8, <1>14 DEF Same
<1> QED BY <1>6, <1>15, <1>18, <1>17

\* tls_finish_handshake() of a side that does not renegotiate.
LEMMA FinishedIs ==
    ASSUME NEW c, DOMAIN c = Fields, ~c.reneg, NEW r
    PROVE  LET e == Finished(c, r) IN
           /\ Same(c, e, {"reneg", "newSession", "cleanup", "ticket", "pha"}) /\ ~e.reneg
           /\ e.pha = (IF r = "client" /\ c.v13 /\ c.pha = "requested" THEN "ext" ELSE c.pha)
<1> USE FieldsAre
<1>1. PICK d : d = IF c.cleanup
             THEN [c EXCEPT !.reneg = FALSE, !.newSession = FALSE,
                            !.cleanup = FALSE, !.ticket = FALSE]
             ELSE c
  OBVIOUS
<1>2. Same(c, d, {"reneg", "newSession", "cleanup", "ticket"}) /\ ~d.reneg
  BY <1>1 DEF Same
<1>3. PICK p : p = IF r = "client" /\ c.v13 /\ d.pha = "requested" THEN "ext" ELSE d.pha
  OBVIOUS
<1>4. PICK e : e = Finished(c, r)
  OBVIOUS
<1>5. e = [d EXCEPT !.pha = p]
  BY <1>1, <1>3, <1>4 DEF Finished
<1>6. Same(c, e, {"reneg", "newSession", "cleanup", "ticket", "pha"}) /\ e.pha = p /\ ~e.reneg
  BY <1>2, <1>5 DEF Same
<1>7. p = (IF r = "client" /\ c.v13 /\ c.pha = "requested" THEN "ext" ELSE c.pha)
  BY <1>2, <1>3 DEF Same
<1> QED BY <1>4, <1>6, <1>7

\* The state machine stops in state t.
Stopped(c, r, t) ==
    [Finished([c EXCEPT !.st = t], r) EXCEPT !.flow = "FINISHED", !.inInit = FALSE]

LEMMA StoppedIs ==
    ASSUME NEW c, DOMAIN c = Fields, ~c.reneg, NEW r, NEW t
    PROVE  LET e == Stopped(c, r, t) IN
           /\ Same(c, e, {"st", "flow", "inInit", "reneg", "newSession", "cleanup", "ticket", "pha"})
           /\ e.st = t /\ e.flow = "FINISHED" /\ ~e.inInit /\ ~e.reneg
           /\ r = "client" /\ c.v13 /\ c.pha = "requested" => e.pha = "ext"
           /\ r = "server" \/ ~c.v13 \/ c.pha # "requested" => e.pha = c.pha
<1> USE FieldsAre
<1>1. PICK b : b = [c EXCEPT !.st = t]
  OBVIOUS
<1>2. Same(c, b, {"st"}) /\ b.st = t
  BY <1>1 DEF Same
<1>3. PICK d : d = Finished(b, r)
  OBVIOUS
<1>4. DOMAIN b = Fields /\ ~b.reneg /\ b.v13 = c.v13 /\ b.pha = c.pha
  BY <1>2 DEF Same
<1>5. /\ Same(b, d, {"reneg", "newSession", "cleanup", "ticket", "pha"}) /\ ~d.reneg
      /\ d.pha = (IF r = "client" /\ c.v13 /\ c.pha = "requested" THEN "ext" ELSE c.pha)
  BY <1>3, <1>4, FinishedIs
<1>6. PICK e : e = Stopped(c, r, t)
  OBVIOUS
<1>7. e = [d EXCEPT !.flow = "FINISHED", !.inInit = FALSE]
  BY <1>1, <1>3, <1>6 DEF Stopped
<1>8. /\ Same(c, e, {"st", "flow", "inInit", "reneg", "newSession", "cleanup", "ticket", "pha"})
      /\ e.st = t /\ e.flow = "FINISHED" /\ ~e.inInit /\ ~e.reneg /\ e.pha = d.pha
  BY <1>2, <1>5, <1>7 DEF Same
<1> QED BY <1>5, <1>6, <1>8

LEMMA StoppedClient ==
    ASSUME NEW c, DOMAIN c = Fields, ~c.reneg, NEW t
    PROVE  LET e == Stopped(c, "client", t) IN
           /\ Same(c, e, {"st", "flow", "inInit", "reneg", "newSession", "cleanup", "ticket", "pha"})
           /\ e.st = t /\ e.flow = "FINISHED" /\ ~e.inInit /\ ~e.reneg
           /\ c.v13 /\ c.pha = "requested" => e.pha = "ext"
           /\ ~c.v13 \/ c.pha # "requested" => e.pha = c.pha
  BY StoppedIs

LEMMA StoppedServer ==
    ASSUME NEW c, DOMAIN c = Fields, ~c.reneg, NEW t
    PROVE  LET e == Stopped(c, "server", t) IN
           /\ Same(c, e, {"st", "flow", "inInit", "reneg", "newSession", "cleanup", "ticket"})
           /\ e.st = t /\ e.flow = "FINISHED" /\ ~e.inInit /\ ~e.reneg
<1>1. PICK e : e = Stopped(c, "server", t)
  OBVIOUS
<1>2. /\ Same(c, e, {"st", "flow", "inInit", "reneg", "newSession", "cleanup", "ticket", "pha"})
      /\ e.st = t /\ e.flow = "FINISHED" /\ ~e.inInit /\ ~e.reneg /\ e.pha = c.pha
  BY <1>1, StoppedIs
<1> QED BY <1>1, <1>2, FieldsAre DEF Same

\* A NewSessionTicket.
LEMMA WroteTicket ==
    ASSUME NEW c, DOMAIN c = Fields, c.v13, ~c.reneg
    PROVE  LET e == Wrote(c, "server", "SW_SESSION_TICKET")
               m == Record(c, "server", "SW_SESSION_TICKET")
           IN /\ Same(c, e, {"st", "reneg", "newSession", "cleanup", "ticket", "sentTickets", "extraTickets"})
              /\ e.st = "SW_SESSION_TICKET" /\ ~e.reneg /\ e.sentTickets = c.sentTickets + 1
              /\ e.extraTickets = (IF c.extraTickets > 0 THEN c.extraTickets - 1 ELSE 0)
              /\ m.mt = "NST" /\ m.key = c.wk
<1> USE FieldsAre, MsgOfAre
<1>1. PICK b : b = [c EXCEPT !.st = "SW_SESSION_TICKET"]
  OBVIOUS
<1>2. Same(c, b, {"st"}) /\ b.st = "SW_SESSION_TICKET"
  BY <1>1 DEF Same
<1>3. PICK d0 : d0 = BeforeSend13(b, "server", "SW_SESSION_TICKET")
  OBVIOUS
<1>4. DOMAIN b = Fields /\ ~b.reneg /\ b.v13
  BY <1>2 DEF Same
<1>5. d0 = Finished(b, "server") \/ d0 = b
  BY <1>3 DEF BeforeSend13
<1>6. PICK g : g = Finished(b, "server")
  OBVIOUS
<1>7. /\ Same(b, g, {"reneg", "newSession", "cleanup", "ticket", "pha"}) /\ g.pha = b.pha /\ ~g.reneg
  BY <1>4, <1>6, FinishedIs
<1>8. Same(b, d0, {"reneg", "newSession", "cleanup", "ticket"}) /\ ~d0.reneg
  <2>1. CASE d0 = b
    BY <1>4, <2>1 DEF Same
  <2>2. CASE d0 = g
    BY <1>7, <2>2 DEF Same
  <2> QED BY <1>5, <1>6, <2>1, <2>2
<1>9. PICK x : x = (IF d0.extraTickets > 0 THEN d0.extraTickets - 1 ELSE 0)
  OBVIOUS
<1>10. PICK d : d = Built(c, "server", "SW_SESSION_TICKET")
  OBVIOUS
<1>11. d = TicketSent(d0)
  BY <1>1, <1>3, <1>4, <1>10 DEF Built, BeforeSend
<1>12. PICK y : y = d0.sentTickets + 1
  OBVIOUS
<1>13. /\ Same(c, d, {"st", "reneg", "newSession", "cleanup", "ticket", "sentTickets", "extraTickets"})
       /\ d.st = "SW_SESSION_TICKET" /\ ~d.reneg /\ d.sentTickets = c.sentTickets + 1 /\ d.extraTickets = x
       /\ x = (IF c.extraTickets > 0 THEN c.extraTickets - 1 ELSE 0)
  <2>1. d = [d0 EXCEPT !.sentTickets = y, !.extraTickets = x]
    BY <1>9, <1>11, <1>12 DEF TicketSent
  <2>2. Same(c, d0, {"st", "reneg", "newSession", "cleanup", "ticket"}) /\ d0.st = "SW_SESSION_TICKET"
    BY <1>2, <1>8 DEF Same
  <2>3. Same(d0, d, {"sentTickets", "extraTickets"}) /\ d.sentTickets = y /\ d.extraTickets = x
    BY <2>1, <2>2 DEF Same
  <2>4. /\ Same(c, d, {"st", "reneg", "newSession", "cleanup", "ticket", "sentTickets", "extraTickets"})
        /\ d.st = "SW_SESSION_TICKET" /\ ~d.reneg
    BY <1>8, <2>2, <2>3 DEF Same
  <2>5. d0.sentTickets = c.sentTickets /\ d0.extraTickets = c.extraTickets
    BY <2>2 DEF Same
  <2> QED BY <1>9, <1>12, <2>3, <2>4, <2>5
<1>14. PICK e : e = Wrote(c, "server", "SW_SESSION_TICKET")
  OBVIOUS
<1>15. d.v13 /\ d.wk = c.wk
  BY <1>13 DEF Same
<1>16. e = d
  BY <1>10, <1>14, <1>15 DEF Wrote, AfterSend, Hashed, AfterSend13
<1>17. PICK m : m = Record(c, "server", "SW_SESSION_TICKET")
  OBVIOUS
<1>18. m = Message(b, d, "SW_SESSION_TICKET")
  BY <1>1, <1>10, <1>17 DEF Record
<1>19. m.mt = "NST" /\ m.key = c.wk
  BY <1>15, <1>18, MessageIs
<1> QED BY <1>13, <1>14, <1>16, <1>17, <1>19

-----------------------------------------------------------------------------
(* The tables, looked up. *)

\* What a client writes before it knows the version.
LEMMA ClientTable12 ==
    ASSUME NEW c, ~c.v13, NEW ck
    PROVE  LET t == WriteTransition(c, "client", ck) IN
           /\ c.st = "BEFORE" => t = ("CW_CLNT_HELLO")
           /\ c.st = "CW_CLNT_HELLO" => t = (IF c.ed # "connecting" THEN "READ" ELSE IF "client" \in opt.compat THEN "CW_CHANGE" ELSE "EARLY_DATA")
           /\ c.st = "CR_SRVR_HELLO" => t = (IF "client" \in opt.compat /\ c.ed # "finishedWriting" THEN "CW_CHANGE" ELSE "CW_CLNT_HELLO")
           /\ c.st = "EARLY_DATA" => t = ("READ")
<1>1. PICK t : t = WriteTransition(c, "client", ck)
  OBVIOUS
<1>2. c.st = "BEFORE" => t = ("CW_CLNT_HELLO")
  BY <1>1 DEF WriteTransition, WriteTable, ClientWrite12
<1>3. c.st = "CW_CLNT_HELLO" => t = (IF c.ed # "connecting" THEN "READ" ELSE IF "client" \in opt.compat THEN "CW_CHANGE" ELSE "EARLY_DATA")
  BY <1>1 DEF WriteTransition, WriteTable, ClientWrite12
<1>4. c.st = "CR_SRVR_HELLO" => t = (IF "client" \in opt.compat /\ c.ed # "finishedWriting" THEN "CW_CHANGE" ELSE "CW_CLNT_HELLO")
  BY <1>1 DEF WriteTransition, WriteTable, ClientWrite12
<1>5. c.st = "EARLY_DATA" => t = ("READ")
  BY <1>1 DEF WriteTransition, WriteTable, ClientWrite12
<1> QED BY <1>1, <1>2, <1>3, <1>4, <1>5

LEMMA ClientTable12Ccs ==
    ASSUME NEW c, ~c.v13, NEW ck, c.st = "CW_CHANGE"
    PROVE  LET t == WriteTransition(c, "client", ck) IN
           /\ c.hrr = "pending" => t = "CW_CLNT_HELLO"
           /\ c.hrr # "pending" /\ c.ed = "connecting" => t = "EARLY_DATA"
  BY DEF WriteTransition, WriteTable, ClientWrite12

\* What a client of TLS 1.3 writes.
LEMMA ClientTable13 ==
    ASSUME NEW c, c.v13, NEW ck
    PROVE  LET t == WriteTransition(c, "client", ck) IN
           /\ c.st = "CR_CERT_REQ" => t = (IF c.pha = "requested" THEN "CW_CERT" ELSE "ERROR")
           /\ c.st = "CR_FINISHED" => t = (IF c.ed \in {"writeRetry", "finishedWriting"} THEN "PENDING_EARLY_DATA_END" ELSE IF "client" \in opt.compat /\ c.hrr = "none" THEN "CW_CHANGE" ELSE IF c.certReq = "none" THEN "CW_FINISHED" ELSE "CW_CERT")
           /\ c.st = "PENDING_EARLY_DATA_END" => t = (IF c.early = "accepted" THEN "CW_END_OF_EARLY_DATA" ELSE IF c.certReq = "none" THEN "CW_FINISHED" ELSE "CW_CERT")
           /\ c.st = "CW_END_OF_EARLY_DATA" => t = (IF c.certReq = "none" THEN "CW_FINISHED" ELSE "CW_CERT")
           /\ c.st = "CW_CHANGE" => t = (IF c.certReq = "none" THEN "CW_FINISHED" ELSE "CW_CERT")
           /\ c.st = "CW_CERT" => t = (IF c.certReq = "cert" THEN "CW_CERT_VRFY" ELSE "CW_FINISHED")
           /\ c.st = "CW_CERT_VRFY" => t = ("CW_FINISHED")
           /\ c.st = "CR_KEY_UPDATE" => t = ("OK")
           /\ c.st = "CW_KEY_UPDATE" => t = ("OK")
           /\ c.st = "CR_SESSION_TICKET" => t = ("OK")
           /\ c.st = "CW_FINISHED" => t = ("OK")
           /\ c.st = "OK" => t = (IF c.keyUpdate # "none" THEN "CW_KEY_UPDATE" ELSE "READ")
<1>1. PICK t : t = WriteTransition(c, "client", ck)
  OBVIOUS
<1>2. c.st = "CR_CERT_REQ" => t = (IF c.pha = "requested" THEN "CW_CERT" ELSE "ERROR")
  BY <1>1 DEF WriteTransition, WriteTable, ClientWrite13
<1>3. c.st = "CR_FINISHED" => t = (IF c.ed \in {"writeRetry", "finishedWriting"} THEN "PENDING_EARLY_DATA_END" ELSE IF "client" \in opt.compat /\ c.hrr = "none" THEN "CW_CHANGE" ELSE IF c.certReq = "none" THEN "CW_FINISHED" ELSE "CW_CERT")
  BY <1>1 DEF WriteTransition, WriteTable, ClientWrite13
<1>4. c.st = "PENDING_EARLY_DATA_END" => t = (IF c.early = "accepted" THEN "CW_END_OF_EARLY_DATA" ELSE IF c.certReq = "none" THEN "CW_FINISHED" ELSE "CW_CERT")
  BY <1>1 DEF WriteTransition, WriteTable, ClientWrite13
<1>5. c.st = "CW_END_OF_EARLY_DATA" => t = (IF c.certReq = "none" THEN "CW_FINISHED" ELSE "CW_CERT")
  BY <1>1 DEF WriteTransition, WriteTable, ClientWrite13
<1>6. c.st = "CW_CHANGE" => t = (IF c.certReq = "none" THEN "CW_FINISHED" ELSE "CW_CERT")
  BY <1>1 DEF WriteTransition, WriteTable, ClientWrite13
<1>7. c.st = "CW_CERT" => t = (IF c.certReq = "cert" THEN "CW_CERT_VRFY" ELSE "CW_FINISHED")
  BY <1>1 DEF WriteTransition, WriteTable, ClientWrite13
<1>8. c.st = "CW_CERT_VRFY" => t = ("CW_FINISHED")
  BY <1>1 DEF WriteTransition, WriteTable, ClientWrite13
<1>9. c.st = "CR_KEY_UPDATE" => t = ("OK")
  BY <1>1 DEF WriteTransition, WriteTable, ClientWrite13
<1>10. c.st = "CW_KEY_UPDATE" => t = ("OK")
  BY <1>1 DEF WriteTransition, WriteTable, ClientWrite13
<1>11. c.st = "CR_SESSION_TICKET" => t = ("OK")
  BY <1>1 DEF WriteTransition, WriteTable, ClientWrite13
<1>12. c.st = "CW_FINISHED" => t = ("OK")
  BY <1>1 DEF WriteTransition, WriteTable, ClientWrite13
<1>13. c.st = "OK" => t = (IF c.keyUpdate # "none" THEN "CW_KEY_UPDATE" ELSE "READ")
  BY <1>1 DEF WriteTransition, WriteTable, ClientWrite13
<1> QED BY <1>1, <1>2, <1>3, <1>4, <1>5, <1>6, <1>7, <1>8, <1>9, <1>10, <1>11, <1>12, <1>13

\* What a server of TLS 1.3 writes.
LEMMA ServerTable13 ==
    ASSUME NEW c, c.v13, NEW ck
    PROVE  LET t == WriteTransition(c, "server", ck) IN
           /\ c.st = "OK" => t = (IF c.keyUpdate # "none" THEN "SW_KEY_UPDATE" ELSE IF c.pha = "requestPending" THEN "SW_CERT_REQ" ELSE IF c.extraTickets > 0 THEN "SW_SESSION_TICKET" ELSE "READ")
           /\ c.st = "SR_CLNT_HELLO" => t = ("SW_SRVR_HELLO")
           /\ c.st = "SW_SRVR_HELLO" => t = (IF "server" \in opt.compat /\ c.hrr # "complete" THEN "SW_CHANGE" ELSE IF c.hrr = "pending" THEN "EARLY_DATA" ELSE "SW_ENCRYPTED_EXTENSIONS")
           /\ c.st = "SW_CHANGE" => t = (IF c.hrr = "pending" THEN "EARLY_DATA" ELSE "SW_ENCRYPTED_EXTENSIONS")
           /\ c.st = "SW_ENCRYPTED_EXTENSIONS" => t = (IF c.hit THEN "SW_FINISHED" ELSE IF opt.request THEN "SW_CERT_REQ" ELSE "SW_CERT")
           /\ c.st = "SW_CERT_REQ" => t = (IF c.pha = "requestPending" THEN "OK" ELSE "SW_CERT")
           /\ c.st = "SW_CERT" => t = ("SW_CERT_VRFY")
           /\ c.st = "SW_CERT_VRFY" => t = ("SW_FINISHED")
           /\ c.st = "SW_FINISHED" => t = ("EARLY_DATA")
           /\ c.st = "EARLY_DATA" => t = ("READ")
           /\ c.st = "SR_FINISHED" => t = (IF (c.pha = "requested" \/ c.ticket) /\ opt.tickets > c.sentTickets THEN "SW_SESSION_TICKET" ELSE "OK")
           /\ c.st = "SR_KEY_UPDATE" => t = ("OK")
           /\ c.st = "SW_KEY_UPDATE" => t = ("OK")
           /\ c.st = "SW_SESSION_TICKET" => t = (IF ~FirstHandshake(c) /\ c.extraTickets > 0 THEN "SW_SESSION_TICKET" ELSE IF c.hit \/ opt.tickets <= c.sentTickets THEN "OK" ELSE "SW_SESSION_TICKET")
<1>1. PICK t : t = WriteTransition(c, "server", ck)
  OBVIOUS
<1>2. c.st = "OK" => t = (IF c.keyUpdate # "none" THEN "SW_KEY_UPDATE" ELSE IF c.pha = "requestPending" THEN "SW_CERT_REQ" ELSE IF c.extraTickets > 0 THEN "SW_SESSION_TICKET" ELSE "READ")
  BY <1>1 DEF WriteTransition, WriteTable, ServerWrite13
<1>3. c.st = "SR_CLNT_HELLO" => t = ("SW_SRVR_HELLO")
  BY <1>1 DEF WriteTransition, WriteTable, ServerWrite13
<1>4. c.st = "SW_SRVR_HELLO" => t = (IF "server" \in opt.compat /\ c.hrr # "complete" THEN "SW_CHANGE" ELSE IF c.hrr = "pending" THEN "EARLY_DATA" ELSE "SW_ENCRYPTED_EXTENSIONS")
  BY <1>1 DEF WriteTransition, WriteTable, ServerWrite13
<1>5. c.st = "SW_CHANGE" => t = (IF c.hrr = "pending" THEN "EARLY_DATA" ELSE "SW_ENCRYPTED_EXTENSIONS")
  BY <1>1 DEF WriteTransition, WriteTable, ServerWrite13
<1>6. c.st = "SW_ENCRYPTED_EXTENSIONS" => t = (IF c.hit THEN "SW_FINISHED" ELSE IF opt.request THEN "SW_CERT_REQ" ELSE "SW_CERT")
  BY <1>1 DEF WriteTransition, WriteTable, ServerWrite13
<1>7. c.st = "SW_CERT_REQ" => t = (IF c.pha = "requestPending" THEN "OK" ELSE "SW_CERT")
  BY <1>1 DEF WriteTransition, WriteTable, ServerWrite13
<1>8. c.st = "SW_CERT" => t = ("SW_CERT_VRFY")
  BY <1>1 DEF WriteTransition, WriteTable, ServerWrite13
<1>9. c.st = "SW_CERT_VRFY" => t = ("SW_FINISHED")
  BY <1>1 DEF WriteTransition, WriteTable, ServerWrite13
<1>10. c.st = "SW_FINISHED" => t = ("EARLY_DATA")
  BY <1>1 DEF WriteTransition, WriteTable, ServerWrite13
<1>11. c.st = "EARLY_DATA" => t = ("READ")
  BY <1>1 DEF WriteTransition, WriteTable, ServerWrite13
<1>12. c.st = "SR_FINISHED" => t = (IF (c.pha = "requested" \/ c.ticket) /\ opt.tickets > c.sentTickets THEN "SW_SESSION_TICKET" ELSE "OK")
  BY <1>1 DEF WriteTransition, WriteTable, ServerWrite13
<1>13. c.st = "SR_KEY_UPDATE" => t = ("OK")
  BY <1>1 DEF WriteTransition, WriteTable, ServerWrite13
<1>14. c.st = "SW_KEY_UPDATE" => t = ("OK")
  BY <1>1 DEF WriteTransition, WriteTable, ServerWrite13
<1>15. c.st = "SW_SESSION_TICKET" => t = (IF ~FirstHandshake(c) /\ c.extraTickets > 0 THEN "SW_SESSION_TICKET" ELSE IF c.hit \/ opt.tickets <= c.sentTickets THEN "OK" ELSE "SW_SESSION_TICKET")
  BY <1>1 DEF WriteTransition, WriteTable, ServerWrite13
<1> QED BY <1>1, <1>2, <1>3, <1>4, <1>5, <1>6, <1>7, <1>8, <1>9, <1>10, <1>11, <1>12, <1>13, <1>14, <1>15

\* A server that waits for a ClientHello reads.
LEMMA ServerTable12 ==
    ASSUME NEW c, ~c.v13, NEW ck, c.st = "BEFORE"
    PROVE  WriteTransition(c, "server", ck) = "READ"
  BY DEF WriteTransition, WriteTable, ServerWrite12

-----------------------------------------------------------------------------
(* Keys and transcripts. *)

LEMMA KeyCounts ==
    /\ NoKey[3] = 0 /\ KE[3] = 0 /\ KH[3] = 0 /\ KA(0)[3] = 0 /\ IsAppKey(KA(0))
    /\ DeferredKey[3] = 0 /\ WaitingKey[3] = 0
<1>1. NoKey[3] = 0 /\ KE[3] = 0 /\ KH[3] = 0 /\ KA(0)[3] = 0
  BY DEF NoKey, KE, KH, KA
<1>2. IsAppKey(KA(0))
  BY DEF IsAppKey, KA
<1>3. DeferredKey \in {KE, KH, NoKey} /\ WaitingKey \in {KE, KH}
  BY DEF DeferredKey, WaitingKey
<1> QED BY <1>1, <1>2, <1>3

LEMMA KeyUpdates ==
    ASSUME NEW k, IsAppKey(k)
    PROVE  IsAppKey(UpdatedKey(k)) /\ UpdatedKey(k)[3] = k[3] + 1 /\ k = KA(k[3])
<1>1. PICK n \in Nat : n = k[3] /\ k = <<"app", SfTr, n>>
  BY DEF IsAppKey, KA
<1>2. UpdatedKey(k) = <<"app", SfTr, n + 1>>
  BY <1>1 DEF UpdatedKey
<1>3. n + 1 \in Nat
  OBVIOUS
<1> QED BY <1>1, <1>2, <1>3 DEF IsAppKey, KA

LEMMA RetryTrIs == RetryTr = Append(<<"HASH">>, "SH")
  BY DEF RetryTr

LEMMA TranscriptKept == PhaTr # <<>>
<1> DEFINE Names == {"HASH", "CH", "SH", "EE", "CR", "CERT", "CV", "FIN", "EOED"}
<1>1. HelloTr \in Seq(Names)
  <2>1. RetryTr \in Seq(Names)
    BY DEF RetryTr
  <2> QED BY <2>1 DEF HelloTr
<1>2. HsTr \in Seq(Names) /\ EeTr \in Seq(Names)
  BY <1>1 DEF HsTr, EeTr
<1>3. ServerCertTr \in Seq(Names)
  BY <1>2 DEF ReqTr, ServerCertTr
<1>4. SfTr \in Seq(Names)
  BY <1>2, <1>3 DEF ServerVerifyTr, ServerTr, SfTr
<1>5. AnswerTr \in Seq(Names)
  BY <1>4 DEF AnswerTr
<1>6. ClientTr \in Seq(Names)
  BY <1>5 DEF ClientCertTr, ClientVerifyTr, ClientTr
<1> QED BY <1>6 DEF PhaTr

-----------------------------------------------------------------------------
(* A step that writes, taken apart. *)

\* What Write() makes of connection c and of the records q on the way to the peer.
Writes(c, r, ck, e, q, q2) ==
    LET t == WriteTransition(c, r, ck)
        x == Leaving(c, r, ck)
    IN CASE t = "READ" -> e = [x EXCEPT !.flow = "READING"] /\ q2 = q
         [] t = "ERROR" -> e = Fail(x, "internal") /\ q2 = q
         [] OTHER -> IF t \notin DOMAIN MsgOf
                     THEN /\ e = IF Stops(x, r, t) THEN Stopped(x, r, t) ELSE [x EXCEPT !.st = t]
                          /\ q2 = q
                     ELSE e = Wrote(x, r, t) /\ q2 = Append(q, Record(x, r, t))

LEMMA WriteTakenApart ==
    ASSUME NEW r \in Role, Write(r),
           conn = [x \in Role |-> conn[x]], inbox = [x \in Role |-> inbox[x]]
    PROVE  \E ck, e, q2 :
              /\ conn' = [conn EXCEPT ![r] = e]
              /\ inbox' = [inbox EXCEPT ![Peer(r)] = q2]
              /\ Writes(conn[r], r, ck, e, inbox[Peer(r)], q2)
<1>1. PICK ck : LET t == WriteTransition(conn[r], r, ck)
                    c == Leaving(conn[r], r, ck)
                IN CASE t = "READ" -> /\ conn' = [conn EXCEPT ![r] = [c EXCEPT !.flow = "READING"]]
                                      /\ UNCHANGED inbox
                     [] t = "ERROR" -> /\ conn' = [conn EXCEPT ![r] = Fail(c, "internal")]
                                       /\ UNCHANGED inbox
                     [] OTHER -> WriteMessage(c, r, t)
  BY Zenon DEF Write
<1>2. PICK t : t = WriteTransition(conn[r], r, ck)
  OBVIOUS
<1>3. PICK c : c = Leaving(conn[r], r, ck)
  OBVIOUS
<1>4. inbox = [inbox EXCEPT ![Peer(r)] = inbox[Peer(r)]]
  OBVIOUS
<1>5. CASE t = "READ"
  <2>1. PICK e : e = [c EXCEPT !.flow = "READING"]
    OBVIOUS
  <2>2. conn' = [conn EXCEPT ![r] = e] /\ inbox' = inbox
    BY <1>1, <1>2, <1>3, <1>5, <2>1
  <2>3. Writes(conn[r], r, ck, e, inbox[Peer(r)], inbox[Peer(r)])
    BY <1>2, <1>3, <1>5, <2>1 DEF Writes
  <2> QED BY <1>4, <2>2, <2>3
<1>6. CASE t = "ERROR"
  <2>1. PICK e : e = Fail(c, "internal")
    OBVIOUS
  <2>2. conn' = [conn EXCEPT ![r] = e] /\ inbox' = inbox
    BY <1>1, <1>2, <1>3, <1>6, <2>1
  <2>3. Writes(conn[r], r, ck, e, inbox[Peer(r)], inbox[Peer(r)])
    BY <1>2, <1>3, <1>6, <2>1 DEF Writes
  <2> QED BY <1>4, <2>2, <2>3
<1>7. CASE t \notin {"READ", "ERROR"} /\ t \notin DOMAIN MsgOf
  <2>1. WriteMessage(c, r, t)
    BY <1>1, <1>2, <1>3, <1>7
  <2>2. PICK e : e = IF Stops(c, r, t) THEN Stopped(c, r, t) ELSE [c EXCEPT !.st = t]
    OBVIOUS
  <2>3. conn' = [conn EXCEPT ![r] = e] /\ inbox' = inbox
    BY <1>7, <2>1, <2>2 DEF WriteMessage, Stopped
  <2>4. Writes(conn[r], r, ck, e, inbox[Peer(r)], inbox[Peer(r)])
    BY <1>2, <1>3, <1>7, <2>2 DEF Writes
  <2> QED BY <1>4, <2>3, <2>4
<1>8. CASE t \notin {"READ", "ERROR"} /\ t \in DOMAIN MsgOf
  <2>1. WriteMessage(c, r, t)
    BY <1>1, <1>2, <1>3, <1>8
  <2>2. PICK e : e = Wrote(c, r, t)
    OBVIOUS
  <2>3. PICK q2 : q2 = Append(inbox[Peer(r)], Record(c, r, t))
    OBVIOUS
  <2>4. conn' = [conn EXCEPT ![r] = e] /\ inbox' = [inbox EXCEPT ![Peer(r)] = q2]
    BY <1>8, <2>1, <2>2, <2>3 DEF WriteMessage, Wrote, Built, Record, Sending
  <2>5. Writes(conn[r], r, ck, e, inbox[Peer(r)], q2)
    BY <1>2, <1>3, <1>8, <2>2, <2>3 DEF Writes
  <2> QED BY <2>4, <2>5
<1> QED BY <1>5, <1>6, <1>7, <1>8

\* The cases, by the state that comes next.
LEMMA WritesMessage ==
    ASSUME NEW c, NEW r, NEW ck, NEW e, NEW q, NEW q2, Writes(c, r, ck, e, q, q2),
           NEW t, t = WriteTransition(c, r, ck), NEW x, x = Leaving(c, r, ck),
           t \in DOMAIN MsgOf
    PROVE  e = Wrote(x, r, t) /\ q2 = Append(q, Record(x, r, t))
<1>1. t # "READ" /\ t # "ERROR"
  BY DEF MsgOf
<1> QED BY <1>1 DEF Writes

LEMMA WritesNone ==
    ASSUME NEW c, NEW r, NEW ck, NEW e, NEW q, NEW q2, Writes(c, r, ck, e, q, q2),
           NEW t, t = WriteTransition(c, r, ck), NEW x, x = Leaving(c, r, ck),
           t \in {"READ", "OK", "EARLY_DATA", "PENDING_EARLY_DATA_END"}
    PROVE  /\ q2 = q
           /\ t = "READ" => e = [x EXCEPT !.flow = "READING"]
           /\ t # "READ" /\ Stops(x, r, t) => e = Stopped(x, r, t)
           /\ t # "READ" /\ ~Stops(x, r, t) => e = [x EXCEPT !.st = t]
<1>1. t # "ERROR" /\ t \notin DOMAIN MsgOf
  BY DEF MsgOf
<1> QED BY <1>1 DEF Writes

\* Transitions that change nothing but the state.
LEMMA LeavesClient ==
    ASSUME NEW c, NEW ck, c.v13 \/ c.st # "CR_HELLO_REQ"
    PROVE  Leaving(c, "client", ck) = c
  BY DEF Leaving, LeavingClient12

LEMMA LeavesServer ==
    ASSUME NEW c, DOMAIN c = Fields, NEW ck,
           c.v13 \/ (~c.v13 /\ c.st = "BEFORE")
    PROVE  LET x == Leaving(c, "server", ck) IN
           /\ Same(c, x, {"pha"})
           /\ x.pha = (IF c.v13 /\ c.st = "SW_CERT_REQ" /\ c.pha = "requestPending" THEN "requested"
                       ELSE IF c.v13 /\ c.st = "SR_FINISHED" /\ c.pha = "requested" THEN "ext"
                       ELSE c.pha)
<1>1. CASE ~c.v13
  BY <1>1 DEF Leaving, LeavingServer12, Same
<1>2. CASE c.v13
  <2>1. PICK x : x = Leaving(c, "server", ck)
    OBVIOUS
  <2>2. x = LeavingServer13(c)
    BY <1>2, <2>1 DEF Leaving
  <2>3. PICK p : p = (IF c.st = "SW_CERT_REQ" /\ c.pha = "requestPending" THEN "requested"
                      ELSE IF c.st = "SR_FINISHED" /\ c.pha = "requested" THEN "ext"
                      ELSE c.pha)
    OBVIOUS
  <2>4. x = [c EXCEPT !.pha = p]
    BY <2>2, <2>3 DEF LeavingServer13
  <2>5. Same(c, x, {"pha"}) /\ x.pha = p
    BY <2>4, FieldsAre DEF Same
  <2> QED BY <1>2, <2>1, <2>3, <2>5
<1> QED BY <1>1, <1>2
-----------------------------------------------------------------------------
(* The client writes. *)

\* The client answers a request for post-handshake authentication.
LEMMA RoundAnswered ==
    ASSUME NEW u, NEW n, NEW j, NEW i, i = j + 1, NEW m, NEW y,
           y = (IF opt.cert THEN "pcv" ELSE "pfin"),
           m.mt = "CERT", opt.pha, m.key = KA(u), m.full = opt.cert
    PROVE  ToServer(At("ok", u, n, j), m, At(y, u, n, i))
<1>1. PICK a, b, c : a = At("ok", u, n, j) /\ b = [a EXCEPT !.at = y, !.k = i] /\ c = At(y, u, n, i)
  OBVIOUS
<1>2. DOMAIN a = {"at", "ku", "d", "k"} /\ DOMAIN c = {"at", "ku", "d", "k"}
  BY <1>1 DEF At
<1>3. DOMAIN b = {"at", "ku", "d", "k"}
  BY <1>1, <1>2
<1>4. b.at = c.at /\ b.k = c.k /\ b.ku = c.ku /\ b.d = c.d
  BY <1>1, <1>2 DEF At
<1>5. b = [f \in DOMAIN b |-> b[f]] /\ c = [f \in DOMAIN c |-> c[f]]
  BY <1>1 DEF At
<1>6. \A f \in DOMAIN b : b[f] = c[f]
  BY <1>3, <1>4
<1>7. b = c
  BY <1>2, <1>3, <1>5, <1>6
<1>8. a.at = "ok" /\ a.ku = u /\ a.k = j
  BY <1>1 DEF At
<1>9. ToServer(a, m, b)
  BY <1>1, <1>8 DEF ToServer
<1> QED BY <1>1, <1>7, <1>9

\* A step that leaves the records q alone and the position a, or adds one.
Told(r, a, q, q2, b) ==
    \/ q2 = q /\ b = a
    \/ \E m : q2 = Append(q, m) /\ Arrives(r, a, m, b)

LEMMA PathTold ==
    ASSUME NEW r \in Role, NEW x, NEW q, NEW a, Path(r, x, q, a), NEW q2, NEW b,
           Told(r, a, q, q2, b)
    PROVE  Path(r, x, q2, b)
  BY PathPush DEF Told

\* Fields no step of the state machine changes, but for the tickets.
LEMMA SoundKept ==
    ASSUME NEW c, NEW r, Sound(c, r), NEW e, NEW S, Same(c, e, S),
           S \cap {"err", "sched", "sentTickets", "extraTickets"} = {},
           e.keyUpdate \in {"none", "requested", "notRequested"}, ~e.reneg
    PROVE  Sound(e, r)
<1>1. /\ e.err = c.err /\ e.sched = c.sched
      /\ e.sentTickets = c.sentTickets /\ e.extraTickets = c.extraTickets
  BY FieldsAre DEF Same
<1> QED BY <1>1 DEF Sound, Same

\* What a step of the client's state machine leaves behind.  The client has n records
\* of data and k requests for a certificate behind it; p is what it is to read.
ClientWrote(c, e, ra, wa, n, k, q, q2, p) ==
    /\ Sound(e, "client") /\ ReadsOn(e, p) /\ e.rk[3] = c.rk[3]
    /\ \E wa2 :
         /\ ClientStage(e, ra, wa2, n)
         /\ Told("server", At(wa, c.wk[3], n, k - Answered(c)), q, q2,
                 At(wa2, e.wk[3], n, k - Answered(e)))

LEMMA ClientWroteMessage ==
    ASSUME NEW c, NEW e, NEW ra, NEW wa, NEW n, NEW k, NEW q, NEW q2, NEW p,
           Sound(c, "client"), NEW S, Same(c, e, S),
           S \cap {"err", "sched", "sentTickets", "extraTickets", "rk"} = {},
           e.keyUpdate \in {"none", "requested", "notRequested"},
           ~e.reneg, e.st \notin {"OK", "EARLY_DATA"},
           NEW m, q2 = Append(q, m), NEW wa2, ClientStage(e, ra, wa2, n),
           ToServer(At(wa, c.wk[3], n, k - Answered(c)), m, At(wa2, e.wk[3], n, k - Answered(e)))
    PROVE  ClientWrote(c, e, ra, wa, n, k, q, q2, p)
<1>1. Sound(e, "client")
  BY SoundKept
<1>2. ReadsOn(e, p)
  BY DEF ReadsOn
<1>3. e.rk = c.rk
  BY FieldsAre DEF Same
<1>4. Told("server", At(wa, c.wk[3], n, k - Answered(c)), q, q2,
           At(wa2, e.wk[3], n, k - Answered(e)))
  BY DEF Told, Arrives
<1> QED BY <1>1, <1>2, <1>3, <1>4 DEF ClientWrote

LEMMA ClientWroteNone ==
    ASSUME NEW c, NEW e, NEW ra, NEW wa, NEW n, NEW k, NEW q, NEW q2, NEW p,
           Sound(c, "client"), NEW S, Same(c, e, S),
           S \cap {"err", "sched", "sentTickets", "extraTickets", "rk", "wk", "keyUpdate"} = {},
           ~e.reneg, ReadsOn(e, p), q2 = q, ClientStage(e, ra, wa, n), Answered(e) = Answered(c)
    PROVE  ClientWrote(c, e, ra, wa, n, k, q, q2, p)
<1>1. e.rk = c.rk /\ e.wk = c.wk /\ e.keyUpdate = c.keyUpdate
  BY FieldsAre DEF Same
<1>2. Sound(e, "client")
  BY <1>1, SoundKept DEF Sound
<1>3. Told("server", At(wa, c.wk[3], n, k - Answered(c)), q, q2,
           At(wa, e.wk[3], n, k - Answered(e)))
  BY <1>1 DEF Told
<1> QED BY <1>1, <1>2, <1>3 DEF ClientWrote

LEMMA Names == Ext \in {"none", "ext"} /\ WroteEarly \in {"none", "finishedWriting"}
  BY DEF Ext, WroteEarly
\* The client up to the end of its early data.
LEMMA ClientFirstWrites ==
    ASSUME NEW c, NEW ra, NEW wa, NEW n \in Nat, NEW ck, NEW e, NEW q, NEW q2, NEW p, NEW k \in Nat,
           opt \in OptionRecord, Sound(c, "client"), ReadsOn(c, p), c.flow = "WRITING",
           Writes(c, "client", ck, e, q, q2),
           ClientFirst(c, ra, wa, n)
    PROVE  ClientWrote(c, e, ra, wa, n, k, q, q2, p)
<1> USE Names
<1>1. DOMAIN c = Fields /\ ~c.reneg /\ c.keyUpdate \in {"none", "requested", "notRequested"}
  BY DEF Sound
<1>2. PICK t : t = WriteTransition(c, "client", ck)
  OBVIOUS
<1>3. c = Leaving(c, "client", ck)
  BY LeavesClient DEF ClientFirst, ClientHelloing
<1>4. CASE c.st = "BEFORE" /\ Early /\ ~ClientCompat
  <2>1. t = "CW_CLNT_HELLO"
    BY <1>2, <1>4, ClientTable12, ClientTable12Ccs DEF ClientFirst, ClientHelloing
  <2>2. e = Wrote(c, "client", "CW_CLNT_HELLO") /\ q2 = Append(q, Record(c, "client", "CW_CLNT_HELLO"))
    BY <1>2, <1>3, <2>1, WritesMessage, MsgOfAre
  <2>3. PICK m : m = Record(c, "client", "CW_CLNT_HELLO")
    OBVIOUS
  <2>4. ~c.v13 /\ c.ed = "connecting" /\ "client" \notin opt.compat /\ c.early = "notSent" /\ c.wk = NoKey /\ c.pha = "none" /\ c.tr = <<>> /\ (c.ed = "connecting" <=> Early)
    BY <1>4 DEF ClientFirst, ClientHelloing, ClientCompat
  <2>5. /\ Same(c, e, {"st", "wk", "early", "pha", "handshakes", "tr"})
        /\ e.st = "CW_CLNT_HELLO" /\ e.tr = Append(c.tr, "CH")
        /\ e.early = (IF c.ed = "connecting" THEN "rejected" ELSE c.early)
        /\ e.pha = (IF opt.pha THEN "ext" ELSE c.pha)
        /\ e.wk = <<"early", Append(c.tr, "CH"), 0>>
        /\ m.mt = "CH" /\ m.key = (IF c.early = "rejected" THEN NoKey ELSE c.wk)
        /\ (m.early <=> c.ed = "connecting") /\ m.pha = opt.pha
    BY <1>1, <2>2, <2>3, <2>4, WroteEarlyHello
  <2>12. /\ e.flow = c.flow /\ e.inInit = c.inInit /\ e.v13 = c.v13 /\ e.finSent = c.finSent /\ e.finRead = c.finRead
        /\ e.hit = c.hit /\ e.hrr = c.hrr /\ e.ed = c.ed /\ e.certReq = c.certReq /\ e.peerCert = c.peerCert
        /\ e.keyUpdate = c.keyUpdate /\ e.rk = c.rk /\ e.hsTr = c.hsTr /\ e.sfTr = c.sfTr /\ e.phaTr = c.phaTr
        /\ e.reneg = c.reneg /\ e.sentTickets = c.sentTickets /\ e.extraTickets = c.extraTickets
    BY <2>5, FieldsAre DEF Same
  <2>6. ClientStage(e, ra, AfterHello, n)
    <3>1. ClientFirst(e, ra, AfterHello, n)
      BY <1>4, <2>4, <2>5, <2>12, KeyCounts DEF ClientFirst, ClientHelloing, FirstTr, KE, Ext, Offered
    <3> QED BY <3>1 DEF ClientStage
  <2>7. Answered(c) = 0 /\ Answered(e) = 0 /\ c.wk[3] = 0 /\ e.wk[3] = 0
    BY <1>4, <2>4, <2>5, <2>12, KeyCounts, FieldsAre DEF Same, Answered, ClientFirst, ClientHelloing
  <2>8. ToServer(At(wa, c.wk[3], n, k - Answered(c)), m, At(AfterHello, e.wk[3], n, k - Answered(e)))
    BY <1>4, <2>4, <2>5, <2>7, <2>12 DEF ToServer, At, ClientFirst, ClientHelloing
  <2>9. ~e.reneg /\ e.keyUpdate \in {"none", "requested", "notRequested"} /\ e.st \notin {"OK", "EARLY_DATA"}
    BY <1>1, <2>5, FieldsAre DEF Same
  <2> QED BY <2>2, <2>3, <2>5, <2>6, <2>8, <2>9, ClientWroteMessage
<1>5. CASE c.st = "BEFORE" /\ ~(Early /\ ~ClientCompat)
  <2>1. t = "CW_CLNT_HELLO"
    BY <1>2, <1>5, ClientTable12, ClientTable12Ccs DEF ClientFirst, ClientHelloing
  <2>2. e = Wrote(c, "client", "CW_CLNT_HELLO") /\ q2 = Append(q, Record(c, "client", "CW_CLNT_HELLO"))
    BY <1>2, <1>3, <2>1, WritesMessage, MsgOfAre
  <2>3. PICK m : m = Record(c, "client", "CW_CLNT_HELLO")
    OBVIOUS
  <2>4. /\ ~c.v13 /\ ~(c.ed = "connecting" /\ "client" \notin opt.compat) /\ c.early = "notSent"
        /\ c.wk = NoKey /\ c.pha = "none" /\ c.tr = <<>> /\ (c.ed = "connecting" <=> Early)
    BY <1>5 DEF ClientFirst, ClientHelloing, ClientCompat, Early
  <2>5. /\ Same(c, e, {"st", "wk", "early", "pha", "handshakes", "tr"})
        /\ e.st = "CW_CLNT_HELLO" /\ e.tr = Append(c.tr, "CH")
        /\ e.early = (IF c.ed = "connecting" THEN "rejected" ELSE c.early)
        /\ e.pha = (IF opt.pha THEN "ext" ELSE c.pha)
        /\ e.wk = (IF c.early = "rejected" THEN NoKey ELSE c.wk)
        /\ m.mt = "CH" /\ m.key = (IF c.early = "rejected" THEN NoKey ELSE c.wk)
        /\ (m.early <=> c.ed = "connecting") /\ m.pha = opt.pha
    BY <1>1, <2>2, <2>3, <2>4, WroteClientHello
  <2>12. /\ e.flow = c.flow /\ e.inInit = c.inInit /\ e.v13 = c.v13 /\ e.finSent = c.finSent /\ e.finRead = c.finRead
        /\ e.hit = c.hit /\ e.hrr = c.hrr /\ e.ed = c.ed /\ e.certReq = c.certReq /\ e.peerCert = c.peerCert
        /\ e.keyUpdate = c.keyUpdate /\ e.rk = c.rk /\ e.hsTr = c.hsTr /\ e.sfTr = c.sfTr /\ e.phaTr = c.phaTr
        /\ e.reneg = c.reneg /\ e.sentTickets = c.sentTickets /\ e.extraTickets = c.extraTickets
    BY <2>5, FieldsAre DEF Same
  <2>6. ClientStage(e, ra, AfterHello, n)
    <3>1. ClientFirst(e, ra, AfterHello, n)
      BY <1>5, <2>4, <2>5, <2>12, KeyCounts DEF ClientFirst, ClientHelloing, FirstTr, Ext, Offered
    <3> QED BY <3>1 DEF ClientStage
  <2>7. Answered(c) = 0 /\ Answered(e) = 0 /\ c.wk[3] = 0 /\ e.wk[3] = 0
    BY <1>5, <2>4, <2>5, <2>12, KeyCounts, FieldsAre DEF Same, Answered, ClientFirst, ClientHelloing
  <2>8. ToServer(At(wa, c.wk[3], n, k - Answered(c)), m, At(AfterHello, e.wk[3], n, k - Answered(e)))
    BY <1>5, <2>4, <2>5, <2>7, <2>12 DEF ToServer, At, ClientFirst, ClientHelloing
  <2>9. ~e.reneg /\ e.keyUpdate \in {"none", "requested", "notRequested"} /\ e.st \notin {"OK", "EARLY_DATA"}
    BY <1>1, <2>5, FieldsAre DEF Same
  <2> QED BY <2>2, <2>3, <2>5, <2>6, <2>8, <2>9, ClientWroteMessage
<1>6. CASE c.st = "CW_CLNT_HELLO" /\ ~Early
  <2>1. t = "READ"
    BY <1>2, <1>6, ClientTable12, ClientTable12Ccs DEF ClientFirst, ClientHelloing
  <2>2. e = [c EXCEPT !.flow = "READING"] /\ q2 = q
    BY <1>2, <1>3, <2>1, WritesNone
  <2>3. Same(c, e, {"flow"}) /\ e.flow = "READING" /\ ~e.reneg
    BY <1>1, <2>2, FieldsAre DEF Same
  <2>4. ClientStage(e, ra, wa, n)
    <3>1. ClientFirst(e, ra, wa, n)
      BY <1>6, <2>3, FieldsAre DEF Same, ClientFirst, ClientHelloing
    <3> QED BY <3>1 DEF ClientStage
  <2>5. Answered(e) = Answered(c)
    BY <2>3, FieldsAre DEF Same, Answered
  <2>6. ReadsOn(e, p)
    BY <1>6, <2>3, FieldsAre DEF Same, ReadsOn, ClientFirst, ClientHelloing
  <2> QED BY <2>2, <2>3, <2>4, <2>5, <2>6, ClientWroteNone
<1>7. CASE c.st = "CW_CLNT_HELLO" /\ Early /\ ClientCompat
  <2>1. t = "CW_CHANGE"
    BY <1>2, <1>7, ClientTable12, ClientTable12Ccs DEF ClientFirst, ClientHelloing, ClientCompat
  <2>2. e = Wrote(c, "client", "CW_CHANGE") /\ q2 = Append(q, Record(c, "client", "CW_CHANGE"))
    BY <1>2, <1>3, <2>1, WritesMessage, MsgOfAre
  <2>3. PICK m : m = Record(c, "client", "CW_CHANGE")
    OBVIOUS
  <2>4. ~c.v13 /\ c.hrr # "pending" /\ c.ed = "connecting" /\ c.tr = FirstTr /\ c.wk = NoKey /\ wa = AfterHello /\ c.pha = Ext
    BY <1>7 DEF ClientFirst, ClientHelloing
  <2>5. /\ Same(c, e, {"st", "wk"})
        /\ e.st = "CW_CHANGE" /\ e.wk = <<"early", c.tr, 0>>
        /\ m.mt = "CCS"
    BY <1>1, <2>2, <2>3, <2>4, WroteEarlyCcs
  <2>12. /\ e.flow = c.flow /\ e.inInit = c.inInit /\ e.v13 = c.v13 /\ e.finSent = c.finSent /\ e.finRead = c.finRead
        /\ e.hit = c.hit /\ e.hrr = c.hrr /\ e.early = c.early /\ e.ed = c.ed /\ e.certReq = c.certReq
        /\ e.peerCert = c.peerCert /\ e.pha = c.pha /\ e.keyUpdate = c.keyUpdate /\ e.rk = c.rk /\ e.tr = c.tr
        /\ e.hsTr = c.hsTr /\ e.sfTr = c.sfTr /\ e.phaTr = c.phaTr /\ e.reneg = c.reneg /\ e.sentTickets = c.sentTickets
        /\ e.extraTickets = c.extraTickets
    BY <2>5, FieldsAre DEF Same
  <2>6. ClientStage(e, ra, AfterHello, n)
    <3>1. ClientFirst(e, ra, AfterHello, n)
      BY <1>7, <2>4, <2>5, <2>12, KeyCounts DEF ClientFirst, ClientHelloing, KE
    <3> QED BY <3>1 DEF ClientStage
  <2>7. Answered(c) = 0 /\ Answered(e) = 0 /\ c.wk[3] = 0 /\ e.wk[3] = 0
    BY <1>7, <2>4, <2>5, <2>12, KeyCounts, FieldsAre DEF Same, Answered, ClientFirst, ClientHelloing
  <2>8. ToServer(At(wa, c.wk[3], n, k - Answered(c)), m, At(AfterHello, e.wk[3], n, k - Answered(e)))
    BY <1>7, <2>4, <2>5, <2>7, <2>12 DEF ToServer, At, ClientFirst, ClientHelloing, AfterHello
  <2>9. ~e.reneg /\ e.keyUpdate \in {"none", "requested", "notRequested"} /\ e.st \notin {"OK", "EARLY_DATA"}
    BY <1>1, <2>5, FieldsAre DEF Same
  <2> QED BY <2>2, <2>3, <2>5, <2>6, <2>8, <2>9, ClientWroteMessage
<1>8. CASE c.st = "CW_CLNT_HELLO" /\ Early /\ ~ClientCompat
  <2>1. t = "EARLY_DATA"
    BY <1>2, <1>8, ClientTable12, ClientTable12Ccs DEF ClientFirst, ClientHelloing, ClientCompat
  <2>2. e = Stopped(c, "client", "EARLY_DATA") /\ q2 = q
    BY <1>2, <1>3, <2>1, WritesNone DEF Stops
  <2>3. /\ Same(c, e, {"st", "flow", "inInit", "reneg", "newSession", "cleanup", "ticket", "pha"})
        /\ e.st = "EARLY_DATA" /\ e.flow = "FINISHED" /\ ~e.inInit /\ ~e.reneg
        /\ c.v13 /\ c.pha = "requested" => e.pha = "ext"
        /\ ~c.v13 \/ c.pha # "requested" => e.pha = c.pha
    BY <1>1, <2>2, StoppedClient
  <2>4. ClientStage(e, ra, wa, n)
    <3>1. ClientFirst(e, ra, wa, n)
      BY <1>8, <2>3, FieldsAre DEF Same, ClientFirst, ClientHelloing, OptionRecord
    <3> QED BY <3>1 DEF ClientStage
  <2>5. Answered(e) = Answered(c)
    BY <1>8, <2>3 DEF Answered, ClientFirst, ClientHelloing
  <2>6. ReadsOn(e, p)
    BY <1>8, <2>3, FieldsAre DEF Same, ReadsOn, ClientFirst, ClientHelloing
  <2> QED BY <2>2, <2>3, <2>4, <2>5, <2>6, ClientWroteNone
<1>9. CASE c.st = "CW_CHANGE"
  <2>1. t = "EARLY_DATA"
    BY <1>2, <1>9, ClientTable12, ClientTable12Ccs DEF ClientFirst, ClientHelloing
  <2>2. e = Stopped(c, "client", "EARLY_DATA") /\ q2 = q
    BY <1>2, <1>3, <2>1, WritesNone DEF Stops
  <2>3. /\ Same(c, e, {"st", "flow", "inInit", "reneg", "newSession", "cleanup", "ticket", "pha"})
        /\ e.st = "EARLY_DATA" /\ e.flow = "FINISHED" /\ ~e.inInit /\ ~e.reneg
        /\ c.v13 /\ c.pha = "requested" => e.pha = "ext"
        /\ ~c.v13 \/ c.pha # "requested" => e.pha = c.pha
    BY <1>1, <2>2, StoppedClient
  <2>4. ClientStage(e, ra, wa, n)
    <3>1. ClientFirst(e, ra, wa, n)
      BY <1>9, <2>3, FieldsAre DEF Same, ClientFirst, ClientHelloing, OptionRecord
    <3> QED BY <3>1 DEF ClientStage
  <2>5. Answered(e) = Answered(c)
    BY <1>9, <2>3 DEF Answered, ClientFirst, ClientHelloing
  <2>6. ReadsOn(e, p)
    BY <1>9, <2>3, FieldsAre DEF Same, ReadsOn, ClientFirst, ClientHelloing
  <2> QED BY <2>2, <2>3, <2>4, <2>5, <2>6, ClientWroteNone
<1>10. CASE c.st = "EARLY_DATA"
  <2>1. t = "READ"
    BY <1>2, <1>10, ClientTable12, ClientTable12Ccs DEF ClientFirst, ClientHelloing
  <2>2. e = [c EXCEPT !.flow = "READING"] /\ q2 = q
    BY <1>2, <1>3, <2>1, WritesNone
  <2>3. Same(c, e, {"flow"}) /\ e.flow = "READING" /\ ~e.reneg
    BY <1>1, <2>2, FieldsAre DEF Same
  <2>4. ClientStage(e, ra, wa, n)
    <3>1. ClientFirst(e, ra, wa, n)
      BY <1>10, <2>3, FieldsAre DEF Same, ClientFirst, ClientHelloing
    <3> QED BY <3>1 DEF ClientStage
  <2>5. Answered(e) = Answered(c)
    BY <2>3, FieldsAre DEF Same, Answered
  <2>6. ReadsOn(e, p)
    BY <1>10, <2>3, FieldsAre DEF Same, ReadsOn, ClientFirst, ClientHelloing
  <2> QED BY <2>2, <2>3, <2>4, <2>5, <2>6, ClientWroteNone
<1> QED BY <1>4, <1>5, <1>6, <1>7, <1>8, <1>9, <1>10 DEF ClientFirst, ClientHelloing

\* The client after a HelloRetryRequest.
LEMMA ClientRetryWrites ==
    ASSUME NEW c, NEW ra, NEW wa, NEW n \in Nat, NEW ck, NEW e, NEW q, NEW q2, NEW p, NEW k \in Nat,
           opt \in OptionRecord, Sound(c, "client"), ReadsOn(c, p), c.flow = "WRITING",
           Writes(c, "client", ck, e, q, q2),
           ClientRetry(c, ra, wa, n)
    PROVE  ClientWrote(c, e, ra, wa, n, k, q, q2, p)
<1> USE Names
<1>1. DOMAIN c = Fields /\ ~c.reneg /\ c.keyUpdate \in {"none", "requested", "notRequested"}
  BY DEF Sound
<1>2. PICK t : t = WriteTransition(c, "client", ck)
  OBVIOUS
<1>3. c = Leaving(c, "client", ck)
  BY LeavesClient DEF ClientRetry, ClientHelloing
<1>4. CASE c.st = "CR_SRVR_HELLO" /\ "client" \in opt.compat /\ c.ed # "finishedWriting"
  <2>1. t = "CW_CHANGE"
    BY <1>2, <1>4, ClientTable12, ClientTable12Ccs DEF ClientRetry, ClientHelloing
  <2>2. e = Wrote(c, "client", "CW_CHANGE") /\ q2 = Append(q, Record(c, "client", "CW_CHANGE"))
    BY <1>2, <1>3, <2>1, WritesMessage, MsgOfAre
  <2>3. PICK m : m = Record(c, "client", "CW_CHANGE")
    OBVIOUS
  <2>4. ~c.v13 /\ c.hrr = "pending" /\ c.pha = Ext /\ c.wk = NoKey /\ wa = "retry"
    BY <1>4 DEF ClientRetry, ClientHelloing
  <2>5. /\ Same(c, e, {"st"})
        /\ e.st = "CW_CHANGE"
        /\ m.mt = "CCS"
    BY <1>1, <2>2, <2>3, <2>4, WroteRetryCcs
  <2>12. /\ e.flow = c.flow /\ e.inInit = c.inInit /\ e.v13 = c.v13 /\ e.finSent = c.finSent /\ e.finRead = c.finRead
        /\ e.hit = c.hit /\ e.hrr = c.hrr /\ e.early = c.early /\ e.ed = c.ed /\ e.certReq = c.certReq
        /\ e.peerCert = c.peerCert /\ e.pha = c.pha /\ e.keyUpdate = c.keyUpdate /\ e.rk = c.rk /\ e.wk = c.wk
        /\ e.tr = c.tr /\ e.hsTr = c.hsTr /\ e.sfTr = c.sfTr /\ e.phaTr = c.phaTr /\ e.reneg = c.reneg
        /\ e.sentTickets = c.sentTickets /\ e.extraTickets = c.extraTickets
    BY <2>5, FieldsAre DEF Same
  <2>6. ClientStage(e, ra, "retry", n)
    <3>1. ClientRetry(e, ra, "retry", n)
      BY <1>4, <2>4, <2>5, <2>12, KeyCounts DEF ClientRetry, ClientHelloing
    <3> QED BY <3>1 DEF ClientStage
  <2>7. Answered(c) = 0 /\ Answered(e) = 0 /\ c.wk[3] = 0 /\ e.wk[3] = 0
    BY <1>4, <2>4, <2>5, <2>12, KeyCounts, FieldsAre DEF Same, Answered, ClientRetry, ClientHelloing
  <2>8. ToServer(At(wa, c.wk[3], n, k - Answered(c)), m, At("retry", e.wk[3], n, k - Answered(e)))
    BY <1>4, <2>4, <2>5, <2>7, <2>12 DEF ToServer, At, ClientRetry, ClientHelloing
  <2>9. ~e.reneg /\ e.keyUpdate \in {"none", "requested", "notRequested"} /\ e.st \notin {"OK", "EARLY_DATA"}
    BY <1>1, <2>5, FieldsAre DEF Same
  <2> QED BY <2>2, <2>3, <2>5, <2>6, <2>8, <2>9, ClientWroteMessage
<1>5. CASE c.st = "CR_SRVR_HELLO" /\ ~("client" \in opt.compat /\ c.ed # "finishedWriting")
  <2>1. t = "CW_CLNT_HELLO"
    BY <1>2, <1>5, ClientTable12, ClientTable12Ccs DEF ClientRetry, ClientHelloing
  <2>2. e = Wrote(c, "client", "CW_CLNT_HELLO") /\ q2 = Append(q, Record(c, "client", "CW_CLNT_HELLO"))
    BY <1>2, <1>3, <2>1, WritesMessage, MsgOfAre
  <2>3. PICK m : m = Record(c, "client", "CW_CLNT_HELLO")
    OBVIOUS
  <2>4. /\ ~c.v13 /\ ~(c.ed = "connecting" /\ "client" \notin opt.compat) /\ c.ed # "connecting"
        /\ c.wk = NoKey /\ c.pha = Ext /\ c.tr = RetryTr /\ wa = "retry" /\ n = opt.early
    BY <1>5 DEF ClientRetry, ClientHelloing
  <2>5. /\ Same(c, e, {"st", "wk", "early", "pha", "handshakes", "tr"})
        /\ e.st = "CW_CLNT_HELLO" /\ e.tr = Append(c.tr, "CH")
        /\ e.early = (IF c.ed = "connecting" THEN "rejected" ELSE c.early)
        /\ e.pha = (IF opt.pha THEN "ext" ELSE c.pha)
        /\ e.wk = (IF c.early = "rejected" THEN NoKey ELSE c.wk)
        /\ m.mt = "CH" /\ m.key = (IF c.early = "rejected" THEN NoKey ELSE c.wk)
        /\ (m.early <=> c.ed = "connecting") /\ m.pha = opt.pha
    BY <1>1, <2>2, <2>3, <2>4, WroteClientHello
  <2>12. /\ e.flow = c.flow /\ e.inInit = c.inInit /\ e.v13 = c.v13 /\ e.finSent = c.finSent /\ e.finRead = c.finRead
        /\ e.hit = c.hit /\ e.hrr = c.hrr /\ e.ed = c.ed /\ e.certReq = c.certReq /\ e.peerCert = c.peerCert
        /\ e.keyUpdate = c.keyUpdate /\ e.rk = c.rk /\ e.hsTr = c.hsTr /\ e.sfTr = c.sfTr /\ e.phaTr = c.phaTr
        /\ e.reneg = c.reneg /\ e.sentTickets = c.sentTickets /\ e.extraTickets = c.extraTickets
    BY <2>5, FieldsAre DEF Same
  <2>6. ClientStage(e, ra, "early", n)
    <3>1. ClientRetry(e, ra, "early", n)
      BY <1>5, <2>4, <2>5, <2>12, KeyCounts DEF ClientRetry, ClientHelloing, HelloTr, Ext
    <3> QED BY <3>1 DEF ClientStage
  <2>7. Answered(c) = 0 /\ Answered(e) = 0 /\ c.wk[3] = 0 /\ e.wk[3] = 0
    BY <1>5, <2>4, <2>5, <2>12, KeyCounts, FieldsAre DEF Same, Answered, ClientRetry, ClientHelloing
  <2>8. ToServer(At(wa, c.wk[3], n, k - Answered(c)), m, At("early", e.wk[3], n, k - Answered(e)))
    BY <1>5, <2>4, <2>5, <2>7, <2>12 DEF ToServer, At, ClientRetry, ClientHelloing
  <2>9. ~e.reneg /\ e.keyUpdate \in {"none", "requested", "notRequested"} /\ e.st \notin {"OK", "EARLY_DATA"}
    BY <1>1, <2>5, FieldsAre DEF Same
  <2> QED BY <2>2, <2>3, <2>5, <2>6, <2>8, <2>9, ClientWroteMessage
<1>6. CASE c.st = "CW_CHANGE"
  <2>1. t = "CW_CLNT_HELLO"
    BY <1>2, <1>6, ClientTable12, ClientTable12Ccs DEF ClientRetry, ClientHelloing
  <2>2. e = Wrote(c, "client", "CW_CLNT_HELLO") /\ q2 = Append(q, Record(c, "client", "CW_CLNT_HELLO"))
    BY <1>2, <1>3, <2>1, WritesMessage, MsgOfAre
  <2>3. PICK m : m = Record(c, "client", "CW_CLNT_HELLO")
    OBVIOUS
  <2>4. /\ ~c.v13 /\ ~(c.ed = "connecting" /\ "client" \notin opt.compat) /\ c.ed # "connecting"
        /\ c.wk = NoKey /\ c.pha = Ext /\ c.tr = RetryTr /\ wa = "retry" /\ n = opt.early
    BY <1>6 DEF ClientRetry, ClientHelloing
  <2>5. /\ Same(c, e, {"st", "wk", "early", "pha", "handshakes", "tr"})
        /\ e.st = "CW_CLNT_HELLO" /\ e.tr = Append(c.tr, "CH")
        /\ e.early = (IF c.ed = "connecting" THEN "rejected" ELSE c.early)
        /\ e.pha = (IF opt.pha THEN "ext" ELSE c.pha)
        /\ e.wk = (IF c.early = "rejected" THEN NoKey ELSE c.wk)
        /\ m.mt = "CH" /\ m.key = (IF c.early = "rejected" THEN NoKey ELSE c.wk)
        /\ (m.early <=> c.ed = "connecting") /\ m.pha = opt.pha
    BY <1>1, <2>2, <2>3, <2>4, WroteClientHello
  <2>12. /\ e.flow = c.flow /\ e.inInit = c.inInit /\ e.v13 = c.v13 /\ e.finSent = c.finSent /\ e.finRead = c.finRead
        /\ e.hit = c.hit /\ e.hrr = c.hrr /\ e.ed = c.ed /\ e.certReq = c.certReq /\ e.peerCert = c.peerCert
        /\ e.keyUpdate = c.keyUpdate /\ e.rk = c.rk /\ e.hsTr = c.hsTr /\ e.sfTr = c.sfTr /\ e.phaTr = c.phaTr
        /\ e.reneg = c.reneg /\ e.sentTickets = c.sentTickets /\ e.extraTickets = c.extraTickets
    BY <2>5, FieldsAre DEF Same
  <2>6. ClientStage(e, ra, "early", n)
    <3>1. ClientRetry(e, ra, "early", n)
      BY <1>6, <2>4, <2>5, <2>12, KeyCounts DEF ClientRetry, ClientHelloing, HelloTr, Ext
    <3> QED BY <3>1 DEF ClientStage
  <2>7. Answered(c) = 0 /\ Answered(e) = 0 /\ c.wk[3] = 0 /\ e.wk[3] = 0
    BY <1>6, <2>4, <2>5, <2>12, KeyCounts, FieldsAre DEF Same, Answered, ClientRetry, ClientHelloing
  <2>8. ToServer(At(wa, c.wk[3], n, k - Answered(c)), m, At("early", e.wk[3], n, k - Answered(e)))
    BY <1>6, <2>4, <2>5, <2>7, <2>12 DEF ToServer, At, ClientRetry, ClientHelloing
  <2>9. ~e.reneg /\ e.keyUpdate \in {"none", "requested", "notRequested"} /\ e.st \notin {"OK", "EARLY_DATA"}
    BY <1>1, <2>5, FieldsAre DEF Same
  <2> QED BY <2>2, <2>3, <2>5, <2>6, <2>8, <2>9, ClientWroteMessage
<1>7. CASE c.st = "CW_CLNT_HELLO"
  <2>1. t = "READ"
    BY <1>2, <1>7, ClientTable12, ClientTable12Ccs DEF ClientRetry, ClientHelloing
  <2>2. e = [c EXCEPT !.flow = "READING"] /\ q2 = q
    BY <1>2, <1>3, <2>1, WritesNone
  <2>3. Same(c, e, {"flow"}) /\ e.flow = "READING" /\ ~e.reneg
    BY <1>1, <2>2, FieldsAre DEF Same
  <2>4. ClientStage(e, ra, wa, n)
    <3>1. ClientRetry(e, ra, wa, n)
      BY <1>7, <2>3, FieldsAre DEF Same, ClientRetry, ClientHelloing
    <3> QED BY <3>1 DEF ClientStage
  <2>5. Answered(e) = Answered(c)
    BY <2>3, FieldsAre DEF Same, Answered
  <2>6. ReadsOn(e, p)
    BY <1>7, <2>3, FieldsAre DEF Same, ReadsOn, ClientRetry, ClientHelloing
  <2> QED BY <2>2, <2>3, <2>4, <2>5, <2>6, ClientWroteNone
<1> QED BY <1>4, <1>5, <1>6, <1>7 DEF ClientRetry, ClientHelloing

\* A client that has dealt with its early data and answers the server.
Answers(c, ra, wa, n, ck) ==
    /\ Client13(c, n) /\ c.finRead /\ c.early = Fate /\ c.sfTr = SfTr /\ c.rk = KA(0) /\ ra = "ok"
    /\ c.certReq = (IF Asks THEN OwnCert ELSE "none")
    /\ wa = Answering /\ c.tr = AnswerTr
    /\ c.ed = "none" /\ "client" \notin opt.compat => c.wk = KH
    /\ c.wk[3] = 0 /\ c.st \notin {"CR_CERT_REQ", "CR_HELLO_REQ"}
    /\ WriteTransition(c, "client", ck) = IF c.certReq = "none" THEN "CW_FINISHED" ELSE "CW_CERT"

\* The client begins its answer.
LEMMA ClientAnswerWrites ==
    ASSUME NEW c, NEW ra, NEW wa, NEW n \in Nat, NEW ck, NEW e, NEW q, NEW q2, NEW p, NEW k \in Nat,
           opt \in OptionRecord, Sound(c, "client"), ReadsOn(c, p), c.flow = "WRITING",
           Writes(c, "client", ck, e, q, q2),
           Answers(c, ra, wa, n, ck)
    PROVE  ClientWrote(c, e, ra, wa, n, k, q, q2, p)
<1> USE Names
<1>1. DOMAIN c = Fields /\ ~c.reneg /\ c.keyUpdate \in {"none", "requested", "notRequested"}
  BY DEF Sound
<1>2. PICK t : t = WriteTransition(c, "client", ck)
  OBVIOUS
<1>3. c = Leaving(c, "client", ck)
  BY LeavesClient DEF Answers, Client13
<1>4. CASE Asks
  <2>1. t = "CW_CERT"
    BY <1>2, <1>4, ClientTable13 DEF Answers, Client13, OwnCert
  <2>2. e = Wrote(c, "client", "CW_CERT") /\ q2 = Append(q, Record(c, "client", "CW_CERT"))
    BY <1>2, <1>3, <2>1, WritesMessage, MsgOfAre
  <2>3. PICK m : m = Record(c, "client", "CW_CERT")
    OBVIOUS
  <2>4. /\ c.v13 /\ ~c.finSent /\ c.hsTr = HsTr /\ (c.ed = "none" /\ "client" \notin opt.compat => c.wk = KH)
        /\ c.certReq = OwnCert /\ n = opt.early /\ c.pha = Ext /\ wa = Answering /\ c.tr = AnswerTr /\ c.wk[3] = 0
    BY <1>4 DEF Answers, Client13
  <2>5. /\ Same(c, e, {"st", "wk", "tr"})
        /\ e.st = "CW_CERT" /\ e.tr = Append(c.tr, "CERT")
        /\ e.wk = m.key
        /\ m.mt = "CERT" /\ m.full = (c.certReq # "empty")
        /\ m.key = (IF ~(c.finSent /\ c.finRead) /\ (c.ed # "none" \/ "client" \in opt.compat) THEN <<"handshake", c.hsTr, 0>> ELSE c.wk)
    BY <1>1, <2>2, <2>3, <2>4, WroteClientCert
  <2>10. m.key = KH /\ e.wk = KH
    BY <1>4, <2>4, <2>5 DEF KH
  <2>11. m.full = opt.cert
    <3>1. c.certReq # "empty" <=> opt.cert
      BY <2>4 DEF OwnCert
    <3>2. opt.cert \in BOOLEAN /\ m.full = (c.certReq # "empty")
      BY <2>5 DEF OptionRecord
    <3> QED BY <3>1, <3>2, Zenon
  <2>12. /\ e.flow = c.flow /\ e.inInit = c.inInit /\ e.v13 = c.v13 /\ e.finSent = c.finSent /\ e.finRead = c.finRead
        /\ e.hit = c.hit /\ e.hrr = c.hrr /\ e.early = c.early /\ e.ed = c.ed /\ e.certReq = c.certReq
        /\ e.peerCert = c.peerCert /\ e.pha = c.pha /\ e.keyUpdate = c.keyUpdate /\ e.rk = c.rk /\ e.hsTr = c.hsTr
        /\ e.sfTr = c.sfTr /\ e.phaTr = c.phaTr /\ e.reneg = c.reneg /\ e.sentTickets = c.sentTickets /\ e.extraTickets = c.extraTickets
    BY <2>5, FieldsAre DEF Same
  <2>6. ClientStage(e, ra, IF opt.cert THEN "cv" ELSE "fin", n)
    <3>1. ClientAnswers(e, ra, IF opt.cert THEN "cv" ELSE "fin", n)
      BY <1>4, <2>4, <2>5, <2>10, <2>11, <2>12, KeyCounts DEF Answers, Client13, ClientAnswers, ClientCertTr
    <3> QED BY <3>1 DEF ClientStage
  <2>7. Answered(c) = 0 /\ Answered(e) = 0 /\ c.wk[3] = 0 /\ e.wk[3] = 0
    BY <1>4, <2>4, <2>5, <2>10, <2>11, <2>12, KeyCounts, FieldsAre DEF Same, Answered, Answers, Client13
  <2>8. ToServer(At(wa, c.wk[3], n, k - Answered(c)), m, At(IF opt.cert THEN "cv" ELSE "fin", e.wk[3], n, k - Answered(e)))
    BY <1>4, <2>4, <2>5, <2>7, <2>10, <2>11, <2>12 DEF ToServer, At, Answers, Client13
  <2>9. ~e.reneg /\ e.keyUpdate \in {"none", "requested", "notRequested"} /\ e.st \notin {"OK", "EARLY_DATA"}
    BY <1>1, <2>5, FieldsAre DEF Same
  <2> QED BY <2>2, <2>3, <2>5, <2>6, <2>8, <2>9, ClientWroteMessage
<1>5. CASE ~Asks
  <2>1. t = "CW_FINISHED"
    BY <1>2, <1>5, ClientTable13 DEF Answers, Client13
  <2>2. e = Wrote(c, "client", "CW_FINISHED") /\ q2 = Append(q, Record(c, "client", "CW_FINISHED"))
    BY <1>2, <1>3, <2>1, WritesMessage, MsgOfAre
  <2>3. PICK m : m = Record(c, "client", "CW_FINISHED")
    OBVIOUS
  <2>4. /\ c.v13 /\ c.finRead /\ c.hsTr = HsTr /\ (c.ed = "none" /\ "client" \notin opt.compat => c.wk = KH)
        /\ c.certReq = "none" /\ n = opt.early /\ c.pha = Ext /\ wa = Answering /\ c.tr = AnswerTr /\ c.phaTr = <<>>
        /\ c.sfTr = SfTr /\ c.rk = KA(0) /\ c.hit = opt.hit /\ c.early = Fate /\ ra = "ok" /\ c.wk[3] = 0
    BY <1>5 DEF Answers, Client13
  <2>5. /\ Same(c, e, {"st", "wk", "finSent", "cleanup", "tr", "phaTr"})
        /\ e.st = "CW_FINISHED" /\ e.tr = Append(c.tr, "FIN") /\ e.finSent
        /\ e.phaTr = (IF c.phaTr = <<>> THEN Append(c.tr, "FIN") ELSE c.phaTr)
        /\ e.wk = (IF c.pha = "requested" THEN m.key ELSE <<"app", c.sfTr, 0>>)
        /\ m.mt = "FIN" /\ m.digest = c.tr
        /\ m.key = (IF c.certReq = "none" /\ (c.ed # "none" \/ "client" \in opt.compat) THEN <<"handshake", c.hsTr, 0>> ELSE c.wk)
    BY <1>1, <2>2, <2>3, <2>4, WroteClientFinished
  <2>10. m.key = KH /\ e.wk = KA(0) /\ e.phaTr = PhaTr /\ c.tr = ClientTr
    BY <1>5, <2>4, <2>5 DEF KH, KA, PhaTr, ClientTr
  <2>12. /\ e.flow = c.flow /\ e.inInit = c.inInit /\ e.v13 = c.v13 /\ e.finRead = c.finRead /\ e.hit = c.hit
        /\ e.hrr = c.hrr /\ e.early = c.early /\ e.ed = c.ed /\ e.certReq = c.certReq /\ e.peerCert = c.peerCert
        /\ e.pha = c.pha /\ e.keyUpdate = c.keyUpdate /\ e.rk = c.rk /\ e.hsTr = c.hsTr /\ e.sfTr = c.sfTr
        /\ e.reneg = c.reneg /\ e.sentTickets = c.sentTickets /\ e.extraTickets = c.extraTickets
    BY <2>5, FieldsAre DEF Same
  <2>6. ClientStage(e, ra, "ok", n)
    <3>1. ClientDone(e, ra, "ok")
      BY <1>5, <2>4, <2>5, <2>10, <2>12, KeyCounts DEF Answers, Client13, ClientDone
    <3> QED BY <3>1 DEF ClientStage
  <2>7. Answered(c) = 0 /\ Answered(e) = 0 /\ c.wk[3] = 0 /\ e.wk[3] = 0
    BY <1>5, <2>4, <2>5, <2>10, <2>12, KeyCounts, FieldsAre DEF Same, Answered, Answers, Client13
  <2>8. ToServer(At(wa, c.wk[3], n, k - Answered(c)), m, At("ok", e.wk[3], n, k - Answered(e)))
    BY <1>5, <2>4, <2>5, <2>7, <2>10, <2>12 DEF ToServer, At, Answers, Client13
  <2>9. ~e.reneg /\ e.keyUpdate \in {"none", "requested", "notRequested"} /\ e.st \notin {"OK", "EARLY_DATA"}
    BY <1>1, <2>5, FieldsAre DEF Same
  <2> QED BY <2>2, <2>3, <2>5, <2>6, <2>8, <2>9, ClientWroteMessage
<1> QED BY <1>4, <1>5 DEF Answers, Client13

\* The client up to its Finished.
LEMMA ClientAnswersWrites ==
    ASSUME NEW c, NEW ra, NEW wa, NEW n \in Nat, NEW ck, NEW e, NEW q, NEW q2, NEW p, NEW k \in Nat,
           opt \in OptionRecord, Sound(c, "client"), ReadsOn(c, p), c.flow = "WRITING",
           Writes(c, "client", ck, e, q, q2),
           ClientAnswers(c, ra, wa, n)
    PROVE  ClientWrote(c, e, ra, wa, n, k, q, q2, p)
<1> USE Names
<1>1. DOMAIN c = Fields /\ ~c.reneg /\ c.keyUpdate \in {"none", "requested", "notRequested"}
  BY DEF Sound
<1>2. PICK t : t = WriteTransition(c, "client", ck)
  OBVIOUS
<1>3. c = Leaving(c, "client", ck)
  BY LeavesClient DEF ClientAnswers, Client13
<1>4. CASE c.st = "CR_FINISHED" /\ Early
  <2>1. t = "PENDING_EARLY_DATA_END"
    BY <1>2, <1>4, ClientTable13 DEF ClientAnswers, Client13, WroteEarly
  <2>2. ~Stops(c, "client", t)
    BY <1>4, <2>1 DEF Stops, ClientAnswers, Client13, WroteEarly
  <2>3. e = [c EXCEPT !.st = "PENDING_EARLY_DATA_END"] /\ q2 = q
    BY <1>2, <1>3, <2>1, <2>2, WritesNone
  <2>4. Same(c, e, {"st"}) /\ e.st = "PENDING_EARLY_DATA_END" /\ ~e.reneg
    BY <1>1, <2>3, FieldsAre DEF Same
  <2>5. ClientStage(e, ra, wa, n)
    <3>1. ClientAnswers(e, ra, wa, n)
      BY <1>4, <2>4, FieldsAre DEF Same, ClientAnswers, Client13
    <3> QED BY <3>1 DEF ClientStage
  <2>6. Answered(e) = Answered(c)
    BY <1>4, <2>4, FieldsAre DEF Answered, Same, ClientAnswers, Client13
  <2>7. ReadsOn(e, p)
    BY <2>4 DEF ReadsOn
  <2> QED BY <2>3, <2>4, <2>5, <2>6, <2>7, ClientWroteNone
<1>5. CASE c.st = "CR_FINISHED" /\ ~Early /\ ClientCompat /\ ~opt.hrr
  <2>1. t = "CW_CHANGE"
    BY <1>2, <1>5, ClientTable13 DEF ClientAnswers, Client13, WroteEarly, ClientCompat
  <2>2. e = Wrote(c, "client", "CW_CHANGE") /\ q2 = Append(q, Record(c, "client", "CW_CHANGE"))
    BY <1>2, <1>3, <2>1, WritesMessage, MsgOfAre
  <2>3. PICK m : m = Record(c, "client", "CW_CHANGE")
    OBVIOUS
  <2>4. c.v13 /\ c.pha = Ext /\ c.wk = DeferredKey /\ wa = "early"
    BY <1>5 DEF ClientAnswers, Client13
  <2>5. /\ Same(c, e, {"st"})
        /\ e.st = "CW_CHANGE"
        /\ m.mt = "CCS"
    BY <1>1, <2>2, <2>3, <2>4, WroteClientCcs
  <2>12. /\ e.flow = c.flow /\ e.inInit = c.inInit /\ e.v13 = c.v13 /\ e.finSent = c.finSent /\ e.finRead = c.finRead
        /\ e.hit = c.hit /\ e.hrr = c.hrr /\ e.early = c.early /\ e.ed = c.ed /\ e.certReq = c.certReq
        /\ e.peerCert = c.peerCert /\ e.pha = c.pha /\ e.keyUpdate = c.keyUpdate /\ e.rk = c.rk /\ e.wk = c.wk
        /\ e.tr = c.tr /\ e.hsTr = c.hsTr /\ e.sfTr = c.sfTr /\ e.phaTr = c.phaTr /\ e.reneg = c.reneg
        /\ e.sentTickets = c.sentTickets /\ e.extraTickets = c.extraTickets
    BY <2>5, FieldsAre DEF Same
  <2>6. ClientStage(e, ra, "early", n)
    <3>1. ClientAnswers(e, ra, "early", n)
      BY <1>5, <2>4, <2>5, <2>12, KeyCounts DEF ClientAnswers, Client13
    <3> QED BY <3>1 DEF ClientStage
  <2>7. Answered(c) = 0 /\ Answered(e) = 0 /\ c.wk[3] = 0 /\ e.wk[3] = 0
    BY <1>5, <2>4, <2>5, <2>12, KeyCounts, FieldsAre DEF Same, Answered, ClientAnswers, Client13
  <2>8. ToServer(At(wa, c.wk[3], n, k - Answered(c)), m, At("early", e.wk[3], n, k - Answered(e)))
    BY <1>5, <2>4, <2>5, <2>7, <2>12 DEF ToServer, At, ClientAnswers, Client13
  <2>9. ~e.reneg /\ e.keyUpdate \in {"none", "requested", "notRequested"} /\ e.st \notin {"OK", "EARLY_DATA"}
    BY <1>1, <2>5, FieldsAre DEF Same
  <2> QED BY <2>2, <2>3, <2>5, <2>6, <2>8, <2>9, ClientWroteMessage
<1>6. CASE c.st = "CR_FINISHED" /\ ~Early /\ ~(ClientCompat /\ ~opt.hrr)
  <2>1. Answers(c, ra, wa, n, ck)
    BY <1>1, <1>2, <1>6, ClientTable13, KeyCounts DEF ClientAnswers, Client13, Answers, WroteEarly, DeferredKey, AnswerTr, Answering, Accepted, ClientCompat
  <2> QED BY <2>1, ClientAnswerWrites
<1>7. CASE c.st = "PENDING_EARLY_DATA_END" /\ Accepted
  <2>1. t = "CW_END_OF_EARLY_DATA"
    BY <1>2, <1>7, ClientTable13 DEF ClientAnswers, Client13, Fate
  <2>2. e = Wrote(c, "client", "CW_END_OF_EARLY_DATA") /\ q2 = Append(q, Record(c, "client", "CW_END_OF_EARLY_DATA"))
    BY <1>2, <1>3, <2>1, WritesMessage, MsgOfAre
  <2>3. PICK m : m = Record(c, "client", "CW_END_OF_EARLY_DATA")
    OBVIOUS
  <2>4. c.v13 /\ c.pha = Ext /\ c.wk = KE /\ wa = "early" /\ c.tr = SfTr /\ n = opt.early
    BY <1>7 DEF ClientAnswers, Client13, DeferredKey, Accepted
  <2>5. /\ Same(c, e, {"st", "tr"})
        /\ e.st = "CW_END_OF_EARLY_DATA" /\ e.tr = Append(c.tr, "EOED")
        /\ m.mt = "EOED" /\ m.key = c.wk
    BY <1>1, <2>2, <2>3, <2>4, WroteEndOfEarlyData
  <2>12. /\ e.flow = c.flow /\ e.inInit = c.inInit /\ e.v13 = c.v13 /\ e.finSent = c.finSent /\ e.finRead = c.finRead
        /\ e.hit = c.hit /\ e.hrr = c.hrr /\ e.early = c.early /\ e.ed = c.ed /\ e.certReq = c.certReq
        /\ e.peerCert = c.peerCert /\ e.pha = c.pha /\ e.keyUpdate = c.keyUpdate /\ e.rk = c.rk /\ e.wk = c.wk
        /\ e.hsTr = c.hsTr /\ e.sfTr = c.sfTr /\ e.phaTr = c.phaTr /\ e.reneg = c.reneg /\ e.sentTickets = c.sentTickets
        /\ e.extraTickets = c.extraTickets
    BY <2>5, FieldsAre DEF Same
  <2>6. ClientStage(e, ra, "answer", n)
    <3>1. ClientAnswers(e, ra, "answer", n)
      BY <1>7, <2>4, <2>5, <2>12, KeyCounts DEF ClientAnswers, Client13, AnswerTr
    <3> QED BY <3>1 DEF ClientStage
  <2>7. Answered(c) = 0 /\ Answered(e) = 0 /\ c.wk[3] = 0 /\ e.wk[3] = 0
    BY <1>7, <2>4, <2>5, <2>12, KeyCounts, FieldsAre DEF Same, Answered, ClientAnswers, Client13
  <2>8. ToServer(At(wa, c.wk[3], n, k - Answered(c)), m, At("answer", e.wk[3], n, k - Answered(e)))
    BY <1>7, <2>4, <2>5, <2>7, <2>12 DEF ToServer, At, ClientAnswers, Client13
  <2>9. ~e.reneg /\ e.keyUpdate \in {"none", "requested", "notRequested"} /\ e.st \notin {"OK", "EARLY_DATA"}
    BY <1>1, <2>5, FieldsAre DEF Same
  <2> QED BY <2>2, <2>3, <2>5, <2>6, <2>8, <2>9, ClientWroteMessage
<1>8. CASE c.st = "PENDING_EARLY_DATA_END" /\ ~Accepted
  <2>1. Answers(c, ra, wa, n, ck)
    BY <1>1, <1>2, <1>8, ClientTable13, KeyCounts DEF ClientAnswers, Client13, Answers, WroteEarly, Fate, Offered, AnswerTr, Answering
  <2> QED BY <2>1, ClientAnswerWrites
<1>9. CASE c.st = "CW_CHANGE"
  <2>1. Answers(c, ra, wa, n, ck)
    BY <1>1, <1>2, <1>9, ClientTable13, KeyCounts DEF ClientAnswers, Client13, Answers, WroteEarly, DeferredKey, AnswerTr, Answering, Accepted, ClientCompat
  <2> QED BY <2>1, ClientAnswerWrites
<1>10. CASE c.st = "CW_END_OF_EARLY_DATA"
  <2>1. Answers(c, ra, wa, n, ck)
    BY <1>1, <1>2, <1>10, ClientTable13, KeyCounts DEF ClientAnswers, Client13, Answers, WroteEarly, Accepted, AnswerTr, Answering
  <2> QED BY <2>1, ClientAnswerWrites
<1>11. CASE c.st = "CW_CERT" /\ opt.cert
  <2>1. t = "CW_CERT_VRFY"
    BY <1>2, <1>11, ClientTable13 DEF ClientAnswers, Client13, OwnCert
  <2>2. e = Wrote(c, "client", "CW_CERT_VRFY") /\ q2 = Append(q, Record(c, "client", "CW_CERT_VRFY"))
    BY <1>2, <1>3, <2>1, WritesMessage, MsgOfAre
  <2>3. PICK m : m = Record(c, "client", "CW_CERT_VRFY")
    OBVIOUS
  <2>4. c.v13 /\ c.pha = Ext /\ c.wk = KH /\ wa = "cv" /\ c.tr = ClientCertTr /\ n = opt.early /\ Asks
    BY <1>11 DEF ClientAnswers, Client13
  <2>5. /\ Same(c, e, {"st", "tr"})
        /\ e.st = "CW_CERT_VRFY" /\ e.tr = Append(c.tr, "CV")
        /\ m.mt = "CV" /\ m.key = c.wk
    BY <1>1, <2>2, <2>3, <2>4, WroteClientVerify
  <2>12. /\ e.flow = c.flow /\ e.inInit = c.inInit /\ e.v13 = c.v13 /\ e.finSent = c.finSent /\ e.finRead = c.finRead
        /\ e.hit = c.hit /\ e.hrr = c.hrr /\ e.early = c.early /\ e.ed = c.ed /\ e.certReq = c.certReq
        /\ e.peerCert = c.peerCert /\ e.pha = c.pha /\ e.keyUpdate = c.keyUpdate /\ e.rk = c.rk /\ e.wk = c.wk
        /\ e.hsTr = c.hsTr /\ e.sfTr = c.sfTr /\ e.phaTr = c.phaTr /\ e.reneg = c.reneg /\ e.sentTickets = c.sentTickets
        /\ e.extraTickets = c.extraTickets
    BY <2>5, FieldsAre DEF Same
  <2>6. ClientStage(e, ra, "fin", n)
    <3>1. ClientAnswers(e, ra, "fin", n)
      BY <1>11, <2>4, <2>5, <2>12, KeyCounts DEF ClientAnswers, Client13, ClientVerifyTr
    <3> QED BY <3>1 DEF ClientStage
  <2>7. Answered(c) = 0 /\ Answered(e) = 0 /\ c.wk[3] = 0 /\ e.wk[3] = 0
    BY <1>11, <2>4, <2>5, <2>12, KeyCounts, FieldsAre DEF Same, Answered, ClientAnswers, Client13
  <2>8. ToServer(At(wa, c.wk[3], n, k - Answered(c)), m, At("fin", e.wk[3], n, k - Answered(e)))
    BY <1>11, <2>4, <2>5, <2>7, <2>12 DEF ToServer, At, ClientAnswers, Client13
  <2>9. ~e.reneg /\ e.keyUpdate \in {"none", "requested", "notRequested"} /\ e.st \notin {"OK", "EARLY_DATA"}
    BY <1>1, <2>5, FieldsAre DEF Same
  <2> QED BY <2>2, <2>3, <2>5, <2>6, <2>8, <2>9, ClientWroteMessage
<1>12. CASE c.st = "CW_CERT" /\ ~opt.cert
  <2>1. t = "CW_FINISHED"
    BY <1>2, <1>12, ClientTable13 DEF ClientAnswers, Client13, OwnCert
  <2>2. e = Wrote(c, "client", "CW_FINISHED") /\ q2 = Append(q, Record(c, "client", "CW_FINISHED"))
    BY <1>2, <1>3, <2>1, WritesMessage, MsgOfAre
  <2>3. PICK m : m = Record(c, "client", "CW_FINISHED")
    OBVIOUS
  <2>4. /\ c.v13 /\ c.finRead /\ c.wk = KH /\ Asks /\ n = opt.early
        /\ c.certReq = OwnCert /\ c.pha = Ext /\ wa = "fin" /\ c.tr = ClientTr /\ c.phaTr = <<>>
        /\ c.sfTr = SfTr /\ c.rk = KA(0) /\ c.hit = opt.hit /\ c.early = Fate /\ ra = "ok"
    BY <1>12 DEF ClientAnswers, Client13, ClientTr, ClientVerifyTr
  <2>5. /\ Same(c, e, {"st", "wk", "finSent", "cleanup", "tr", "phaTr"})
        /\ e.st = "CW_FINISHED" /\ e.tr = Append(c.tr, "FIN") /\ e.finSent
        /\ e.phaTr = (IF c.phaTr = <<>> THEN Append(c.tr, "FIN") ELSE c.phaTr)
        /\ e.wk = (IF c.pha = "requested" THEN m.key ELSE <<"app", c.sfTr, 0>>)
        /\ m.mt = "FIN" /\ m.digest = c.tr
        /\ m.key = (IF c.certReq = "none" /\ (c.ed # "none" \/ "client" \in opt.compat) THEN <<"handshake", c.hsTr, 0>> ELSE c.wk)
    BY <1>1, <2>2, <2>3, <2>4, WroteClientFinished
  <2>10. m.key = KH /\ e.wk = KA(0) /\ e.phaTr = PhaTr
    BY <1>12, <2>4, <2>5 DEF OwnCert, KH, KA, PhaTr
  <2>12. /\ e.flow = c.flow /\ e.inInit = c.inInit /\ e.v13 = c.v13 /\ e.finRead = c.finRead /\ e.hit = c.hit
        /\ e.hrr = c.hrr /\ e.early = c.early /\ e.ed = c.ed /\ e.certReq = c.certReq /\ e.peerCert = c.peerCert
        /\ e.pha = c.pha /\ e.keyUpdate = c.keyUpdate /\ e.rk = c.rk /\ e.hsTr = c.hsTr /\ e.sfTr = c.sfTr
        /\ e.reneg = c.reneg /\ e.sentTickets = c.sentTickets /\ e.extraTickets = c.extraTickets
    BY <2>5, FieldsAre DEF Same
  <2>6. ClientStage(e, ra, "ok", n)
    <3>1. ClientDone(e, ra, "ok")
      BY <1>12, <2>4, <2>5, <2>10, <2>12, KeyCounts DEF ClientAnswers, Client13, ClientDone
    <3> QED BY <3>1 DEF ClientStage
  <2>7. Answered(c) = 0 /\ Answered(e) = 0 /\ c.wk[3] = 0 /\ e.wk[3] = 0
    BY <1>12, <2>4, <2>5, <2>10, <2>12, KeyCounts, FieldsAre DEF Same, Answered, ClientAnswers, Client13
  <2>8. ToServer(At(wa, c.wk[3], n, k - Answered(c)), m, At("ok", e.wk[3], n, k - Answered(e)))
    BY <1>12, <2>4, <2>5, <2>7, <2>10, <2>12 DEF ToServer, At, ClientAnswers, Client13
  <2>9. ~e.reneg /\ e.keyUpdate \in {"none", "requested", "notRequested"} /\ e.st \notin {"OK", "EARLY_DATA"}
    BY <1>1, <2>5, FieldsAre DEF Same
  <2> QED BY <2>2, <2>3, <2>5, <2>6, <2>8, <2>9, ClientWroteMessage
<1>13. CASE c.st = "CW_CERT_VRFY"
  <2>1. t = "CW_FINISHED"
    BY <1>2, <1>13, ClientTable13 DEF ClientAnswers, Client13
  <2>2. e = Wrote(c, "client", "CW_FINISHED") /\ q2 = Append(q, Record(c, "client", "CW_FINISHED"))
    BY <1>2, <1>3, <2>1, WritesMessage, MsgOfAre
  <2>3. PICK m : m = Record(c, "client", "CW_FINISHED")
    OBVIOUS
  <2>4. /\ c.v13 /\ c.finRead /\ c.wk = KH /\ Asks /\ n = opt.early
        /\ c.certReq = OwnCert /\ c.pha = Ext /\ wa = "fin" /\ c.tr = ClientTr /\ c.phaTr = <<>>
        /\ c.sfTr = SfTr /\ c.rk = KA(0) /\ c.hit = opt.hit /\ c.early = Fate /\ ra = "ok"
    BY <1>13 DEF ClientAnswers, Client13, ClientTr, ClientVerifyTr
  <2>5. /\ Same(c, e, {"st", "wk", "finSent", "cleanup", "tr", "phaTr"})
        /\ e.st = "CW_FINISHED" /\ e.tr = Append(c.tr, "FIN") /\ e.finSent
        /\ e.phaTr = (IF c.phaTr = <<>> THEN Append(c.tr, "FIN") ELSE c.phaTr)
        /\ e.wk = (IF c.pha = "requested" THEN m.key ELSE <<"app", c.sfTr, 0>>)
        /\ m.mt = "FIN" /\ m.digest = c.tr
        /\ m.key = (IF c.certReq = "none" /\ (c.ed # "none" \/ "client" \in opt.compat) THEN <<"handshake", c.hsTr, 0>> ELSE c.wk)
    BY <1>1, <2>2, <2>3, <2>4, WroteClientFinished
  <2>10. m.key = KH /\ e.wk = KA(0) /\ e.phaTr = PhaTr
    BY <1>13, <2>4, <2>5 DEF OwnCert, KH, KA, PhaTr
  <2>12. /\ e.flow = c.flow /\ e.inInit = c.inInit /\ e.v13 = c.v13 /\ e.finRead = c.finRead /\ e.hit = c.hit
        /\ e.hrr = c.hrr /\ e.early = c.early /\ e.ed = c.ed /\ e.certReq = c.certReq /\ e.peerCert = c.peerCert
        /\ e.pha = c.pha /\ e.keyUpdate = c.keyUpdate /\ e.rk = c.rk /\ e.hsTr = c.hsTr /\ e.sfTr = c.sfTr
        /\ e.reneg = c.reneg /\ e.sentTickets = c.sentTickets /\ e.extraTickets = c.extraTickets
    BY <2>5, FieldsAre DEF Same
  <2>6. ClientStage(e, ra, "ok", n)
    <3>1. ClientDone(e, ra, "ok")
      BY <1>13, <2>4, <2>5, <2>10, <2>12, KeyCounts DEF ClientAnswers, Client13, ClientDone
    <3> QED BY <3>1 DEF ClientStage
  <2>7. Answered(c) = 0 /\ Answered(e) = 0 /\ c.wk[3] = 0 /\ e.wk[3] = 0
    BY <1>13, <2>4, <2>5, <2>10, <2>12, KeyCounts, FieldsAre DEF Same, Answered, ClientAnswers, Client13
  <2>8. ToServer(At(wa, c.wk[3], n, k - Answered(c)), m, At("ok", e.wk[3], n, k - Answered(e)))
    BY <1>13, <2>4, <2>5, <2>7, <2>10, <2>12 DEF ToServer, At, ClientAnswers, Client13
  <2>9. ~e.reneg /\ e.keyUpdate \in {"none", "requested", "notRequested"} /\ e.st \notin {"OK", "EARLY_DATA"}
    BY <1>1, <2>5, FieldsAre DEF Same
  <2> QED BY <2>2, <2>3, <2>5, <2>6, <2>8, <2>9, ClientWroteMessage
<1> QED BY <1>4, <1>5, <1>6, <1>7, <1>8, <1>9, <1>10, <1>11, <1>12, <1>13 DEF ClientAnswers, Client13

\* The client after its Finished.
LEMMA ClientDoneWrites ==
    ASSUME NEW c, NEW ra, NEW wa, NEW n \in Nat, NEW ck, NEW e, NEW q, NEW q2, NEW p, NEW k \in Nat,
           opt \in OptionRecord, Sound(c, "client"), ReadsOn(c, p), c.flow = "WRITING",
           Writes(c, "client", ck, e, q, q2),
           ClientDone(c, ra, wa)
    PROVE  ClientWrote(c, e, ra, wa, n, k, q, q2, p)
<1> USE Names
<1>1. DOMAIN c = Fields /\ ~c.reneg /\ c.keyUpdate \in {"none", "requested", "notRequested"}
  BY DEF Sound
<1>2. PICK t : t = WriteTransition(c, "client", ck)
  OBVIOUS
<1>3. c = Leaving(c, "client", ck)
  BY LeavesClient DEF ClientDone
<1>4. CASE c.st = "OK" /\ c.keyUpdate # "none"
  <2>1. t = "CW_KEY_UPDATE"
    BY <1>2, <1>4, ClientTable13 DEF ClientDone
  <2>2. e = Wrote(c, "client", "CW_KEY_UPDATE") /\ q2 = Append(q, Record(c, "client", "CW_KEY_UPDATE"))
    BY <1>2, <1>3, <2>1, WritesMessage, MsgOfAre
  <2>3. PICK m : m = Record(c, "client", "CW_KEY_UPDATE")
    OBVIOUS
  <2>4. c.v13 /\ IsAppKey(c.wk) /\ wa = "ok" /\ c.pha = Ext
    BY <1>4 DEF ClientDone
  <2>5. /\ Same(c, e, {"st", "keyUpdate", "wk"})
        /\ e.st = "CW_KEY_UPDATE" /\ e.keyUpdate = "none" /\ e.wk = UpdatedKey(c.wk)
        /\ m.mt = "KU" /\ m.key = c.wk
    BY <1>1, <2>2, <2>3, <2>4, WroteClientKeyUpdate
  <2>10. IsAppKey(e.wk) /\ c.wk = KA(c.wk[3]) /\ e.wk[3] = c.wk[3] + 1
    BY <1>4, <2>4, <2>5, KeyUpdates DEF Wrote
  <2>12. /\ e.flow = c.flow /\ e.inInit = c.inInit /\ e.v13 = c.v13 /\ e.finSent = c.finSent /\ e.finRead = c.finRead
        /\ e.hit = c.hit /\ e.hrr = c.hrr /\ e.early = c.early /\ e.ed = c.ed /\ e.certReq = c.certReq
        /\ e.peerCert = c.peerCert /\ e.pha = c.pha /\ e.rk = c.rk /\ e.tr = c.tr /\ e.hsTr = c.hsTr
        /\ e.sfTr = c.sfTr /\ e.phaTr = c.phaTr /\ e.reneg = c.reneg /\ e.sentTickets = c.sentTickets /\ e.extraTickets = c.extraTickets
    BY <2>5, FieldsAre DEF Same
  <2>6. ClientStage(e, ra, "ok", n)
    <3>1. ClientDone(e, ra, "ok")
      BY <1>4, <2>4, <2>5, <2>10, <2>12, KeyCounts DEF ClientDone
    <3> QED BY <3>1 DEF ClientStage
  <2>7. Answered(c) = 0 /\ Answered(e) = 0
    BY <1>4, <2>4, <2>5, <2>10, <2>12, KeyCounts, FieldsAre DEF Same, Answered, ClientDone
  <2>8. ToServer(At(wa, c.wk[3], n, k - Answered(c)), m, At("ok", e.wk[3], n, k - Answered(e)))
    BY <1>4, <2>4, <2>5, <2>7, <2>10, <2>12 DEF ToServer, At, ClientDone
  <2>9. ~e.reneg /\ e.keyUpdate \in {"none", "requested", "notRequested"} /\ e.st \notin {"OK", "EARLY_DATA"}
    BY <1>1, <2>5, FieldsAre DEF Same
  <2> QED BY <2>2, <2>3, <2>5, <2>6, <2>8, <2>9, ClientWroteMessage
<1>5. CASE c.st = "OK" /\ c.keyUpdate = "none"
  <2>1. t = "READ"
    BY <1>2, <1>5, ClientTable13 DEF ClientDone
  <2>2. e = [c EXCEPT !.flow = "READING"] /\ q2 = q
    BY <1>2, <1>3, <2>1, WritesNone
  <2>3. Same(c, e, {"flow"}) /\ e.flow = "READING" /\ ~e.reneg
    BY <1>1, <2>2, FieldsAre DEF Same
  <2>4. ClientStage(e, ra, wa, n)
    <3>1. ClientDone(e, ra, wa)
      BY <1>5, <2>3, FieldsAre DEF Same, ClientDone
    <3> QED BY <3>1 DEF ClientStage
  <2>5. Answered(e) = Answered(c)
    BY <2>3, FieldsAre DEF Same, Answered
  <2>6. ReadsOn(e, p)
    BY <1>5, <2>3, FieldsAre DEF Same, ReadsOn, ClientDone, Reason, Sound
  <2> QED BY <2>2, <2>3, <2>4, <2>5, <2>6, ClientWroteNone
<1>6. CASE c.st \in {"CW_FINISHED", "CW_KEY_UPDATE", "CR_KEY_UPDATE", "CR_SESSION_TICKET"}
  <2>1. t = "OK"
    BY <1>2, <1>6, ClientTable13 DEF ClientDone
  <2>2. e = Stopped(c, "client", "OK") /\ q2 = q
    BY <1>2, <1>3, <2>1, WritesNone DEF Stops
  <2>3. /\ Same(c, e, {"st", "flow", "inInit", "reneg", "newSession", "cleanup", "ticket", "pha"})
        /\ e.st = "OK" /\ e.flow = "FINISHED" /\ ~e.inInit /\ ~e.reneg
        /\ c.v13 /\ c.pha = "requested" => e.pha = "ext"
        /\ ~c.v13 \/ c.pha # "requested" => e.pha = c.pha
    BY <1>1, <2>2, StoppedClient
  <2>4. ClientStage(e, ra, wa, n)
    <3>1. ClientDone(e, ra, wa)
      BY <1>6, <2>3, FieldsAre DEF Same, ClientDone, Ext
    <3> QED BY <3>1 DEF ClientStage
  <2>5. Answered(e) = Answered(c)
    BY <1>6, <2>3 DEF Answered, ClientDone
  <2>6. ReadsOn(e, p)
    BY <1>6, <2>3, FieldsAre DEF Same, ReadsOn, ClientDone
  <2> QED BY <2>2, <2>3, <2>4, <2>5, <2>6, ClientWroteNone
<1>7. CASE c.st = "CR_CERT_REQ"
  <2>1. t = "CW_CERT"
    BY <1>2, <1>7, ClientTable13 DEF ClientDone
  <2>2. e = Wrote(c, "client", "CW_CERT") /\ q2 = Append(q, Record(c, "client", "CW_CERT"))
    BY <1>2, <1>3, <2>1, WritesMessage, MsgOfAre
  <2>3. PICK m : m = Record(c, "client", "CW_CERT")
    OBVIOUS
  <2>4. /\ c.v13 /\ c.finSent /\ c.finRead /\ IsAppKey(c.wk) /\ c.certReq = OwnCert /\ opt.pha
        /\ wa = "ok" /\ c.pha = "requested" /\ c.tr = PhaReqTr
    BY <1>7 DEF ClientDone
  <2>5. /\ Same(c, e, {"st", "wk", "tr"})
        /\ e.st = "CW_CERT" /\ e.tr = Append(c.tr, "CERT")
        /\ e.wk = m.key
        /\ m.mt = "CERT" /\ m.full = (c.certReq # "empty")
        /\ m.key = (IF ~(c.finSent /\ c.finRead) /\ (c.ed # "none" \/ "client" \in opt.compat) THEN <<"handshake", c.hsTr, 0>> ELSE c.wk)
    BY <1>1, <2>2, <2>3, <2>4, WroteClientCert
  <2>10. m.key = c.wk /\ e.wk = c.wk /\ c.wk = KA(c.wk[3])
    BY <1>7, <2>4, <2>5 DEF IsAppKey
  <2>11. m.full = opt.cert
    <3>1. c.certReq # "empty" <=> opt.cert
      BY <2>4 DEF OwnCert
    <3>2. opt.cert \in BOOLEAN /\ m.full = (c.certReq # "empty")
      BY <2>5 DEF OptionRecord
    <3> QED BY <3>1, <3>2, Zenon
  <2>12. /\ e.flow = c.flow /\ e.inInit = c.inInit /\ e.v13 = c.v13 /\ e.finSent = c.finSent /\ e.finRead = c.finRead
        /\ e.hit = c.hit /\ e.hrr = c.hrr /\ e.early = c.early /\ e.ed = c.ed /\ e.certReq = c.certReq
        /\ e.peerCert = c.peerCert /\ e.pha = c.pha /\ e.keyUpdate = c.keyUpdate /\ e.rk = c.rk /\ e.hsTr = c.hsTr
        /\ e.sfTr = c.sfTr /\ e.phaTr = c.phaTr /\ e.reneg = c.reneg /\ e.sentTickets = c.sentTickets /\ e.extraTickets = c.extraTickets
    BY <2>5, FieldsAre DEF Same
  <2>6. ClientStage(e, ra, IF opt.cert THEN "pcv" ELSE "pfin", n)
    <3>1. ClientDone(e, ra, IF opt.cert THEN "pcv" ELSE "pfin")
      BY <1>7, <2>4, <2>5, <2>10, <2>11, <2>12, KeyCounts DEF ClientDone, PhaCertTr
    <3> QED BY <3>1 DEF ClientStage
  <2>7. k - Answered(e) = (k - Answered(c)) + 1
    BY <1>7, <2>4, <2>5, <2>10, <2>11, <2>12, KeyCounts, FieldsAre DEF Same, Answered, ClientDone
  <2>8. ToServer(At(wa, c.wk[3], n, k - Answered(c)), m, At(IF opt.cert THEN "pcv" ELSE "pfin", e.wk[3], n, k - Answered(e)))
    <3>1. PICK y, j, i, u : /\ y = (IF opt.cert THEN "pcv" ELSE "pfin") /\ j = k - Answered(c)
                            /\ i = k - Answered(e) /\ u = c.wk[3]
      OBVIOUS
    <3>2. ToServer(At("ok", u, n, j), m, At(y, u, n, i))
      BY <2>4, <2>5, <2>7, <2>10, <2>11, <3>1, RoundAnswered
    <3> QED BY <2>4, <2>10, <3>1, <3>2
  <2>9. ~e.reneg /\ e.keyUpdate \in {"none", "requested", "notRequested"} /\ e.st \notin {"OK", "EARLY_DATA"}
    BY <1>1, <2>5, FieldsAre DEF Same
  <2> QED BY <2>2, <2>3, <2>5, <2>6, <2>8, <2>9, ClientWroteMessage
<1>8. CASE c.st = "CW_CERT" /\ opt.cert
  <2>1. t = "CW_CERT_VRFY"
    BY <1>2, <1>8, ClientTable13 DEF ClientDone, OwnCert
  <2>2. e = Wrote(c, "client", "CW_CERT_VRFY") /\ q2 = Append(q, Record(c, "client", "CW_CERT_VRFY"))
    BY <1>2, <1>3, <2>1, WritesMessage, MsgOfAre
  <2>3. PICK m : m = Record(c, "client", "CW_CERT_VRFY")
    OBVIOUS
  <2>4. c.v13 /\ IsAppKey(c.wk) /\ c.wk = KA(c.wk[3]) /\ wa = "pcv" /\ c.tr = PhaCertTr
    BY <1>8 DEF ClientDone, IsAppKey
  <2>5. /\ Same(c, e, {"st", "tr"})
        /\ e.st = "CW_CERT_VRFY" /\ e.tr = Append(c.tr, "CV")
        /\ m.mt = "CV" /\ m.key = c.wk
    BY <1>1, <2>2, <2>3, <2>4, WroteClientVerify
  <2>12. /\ e.flow = c.flow /\ e.inInit = c.inInit /\ e.v13 = c.v13 /\ e.finSent = c.finSent /\ e.finRead = c.finRead
        /\ e.hit = c.hit /\ e.hrr = c.hrr /\ e.early = c.early /\ e.ed = c.ed /\ e.certReq = c.certReq
        /\ e.peerCert = c.peerCert /\ e.pha = c.pha /\ e.keyUpdate = c.keyUpdate /\ e.rk = c.rk /\ e.wk = c.wk
        /\ e.hsTr = c.hsTr /\ e.sfTr = c.sfTr /\ e.phaTr = c.phaTr /\ e.reneg = c.reneg /\ e.sentTickets = c.sentTickets
        /\ e.extraTickets = c.extraTickets
    BY <2>5, FieldsAre DEF Same
  <2>6. ClientStage(e, ra, "pfin", n)
    <3>1. ClientDone(e, ra, "pfin")
      BY <1>8, <2>4, <2>5, <2>12, KeyCounts DEF ClientDone, PhaAnswerTr
    <3> QED BY <3>1 DEF ClientStage
  <2>7. Answered(c) = 0 /\ Answered(e) = 0
    BY <1>8, <2>4, <2>5, <2>12, KeyCounts, FieldsAre DEF Same, Answered, ClientDone
  <2>8. ToServer(At(wa, c.wk[3], n, k - Answered(c)), m, At("pfin", e.wk[3], n, k - Answered(e)))
    BY <1>8, <2>4, <2>5, <2>7, <2>12 DEF ToServer, At, ClientDone
  <2>9. ~e.reneg /\ e.keyUpdate \in {"none", "requested", "notRequested"} /\ e.st \notin {"OK", "EARLY_DATA"}
    BY <1>1, <2>5, FieldsAre DEF Same
  <2> QED BY <2>2, <2>3, <2>5, <2>6, <2>8, <2>9, ClientWroteMessage
<1>9. CASE c.st = "CW_CERT" /\ ~opt.cert
  <2>1. t = "CW_FINISHED"
    BY <1>2, <1>9, ClientTable13 DEF ClientDone, OwnCert
  <2>2. e = Wrote(c, "client", "CW_FINISHED") /\ q2 = Append(q, Record(c, "client", "CW_FINISHED"))
    BY <1>2, <1>3, <2>1, WritesMessage, MsgOfAre
  <2>3. PICK m : m = Record(c, "client", "CW_FINISHED")
    OBVIOUS
  <2>4. /\ c.v13 /\ c.finSent /\ c.finRead /\ IsAppKey(c.rk) /\ IsAppKey(c.wk) /\ opt.pha
        /\ c.certReq = OwnCert /\ c.pha = "requested" /\ wa = "pfin" /\ c.tr = PhaAnswerTr /\ c.phaTr = PhaTr
        /\ c.hit = opt.hit /\ c.early = Fate /\ ra = "ok"
    BY <1>9 DEF ClientDone, PhaAnswerTr
  <2>5. /\ Same(c, e, {"st", "wk", "finSent", "cleanup", "tr", "phaTr"})
        /\ e.st = "CW_FINISHED" /\ e.tr = Append(c.tr, "FIN") /\ e.finSent
        /\ e.phaTr = (IF c.phaTr = <<>> THEN Append(c.tr, "FIN") ELSE c.phaTr)
        /\ e.wk = (IF c.pha = "requested" THEN m.key ELSE <<"app", c.sfTr, 0>>)
        /\ m.mt = "FIN" /\ m.digest = c.tr
        /\ m.key = (IF c.certReq = "none" /\ (c.ed # "none" \/ "client" \in opt.compat) THEN <<"handshake", c.hsTr, 0>> ELSE c.wk)
    BY <1>1, <2>2, <2>3, <2>4, WroteClientFinished
  <2>10. m.key = c.wk /\ e.wk = c.wk /\ e.phaTr = PhaTr /\ c.wk = KA(c.wk[3])
    BY <1>9, <2>4, <2>5, TranscriptKept DEF OwnCert, IsAppKey
  <2>12. /\ e.flow = c.flow /\ e.inInit = c.inInit /\ e.v13 = c.v13 /\ e.finRead = c.finRead /\ e.hit = c.hit
        /\ e.hrr = c.hrr /\ e.early = c.early /\ e.ed = c.ed /\ e.certReq = c.certReq /\ e.peerCert = c.peerCert
        /\ e.pha = c.pha /\ e.keyUpdate = c.keyUpdate /\ e.rk = c.rk /\ e.hsTr = c.hsTr /\ e.sfTr = c.sfTr
        /\ e.reneg = c.reneg /\ e.sentTickets = c.sentTickets /\ e.extraTickets = c.extraTickets
    BY <2>5, FieldsAre DEF Same
  <2>6. ClientStage(e, ra, "ok", n)
    <3>1. ClientDone(e, ra, "ok")
      BY <1>9, <2>4, <2>5, <2>10, <2>12, KeyCounts DEF ClientDone
    <3> QED BY <3>1 DEF ClientStage
  <2>7. Answered(c) = 0 /\ Answered(e) = 0
    BY <1>9, <2>4, <2>5, <2>10, <2>12, KeyCounts, FieldsAre DEF Same, Answered, ClientDone
  <2>8. ToServer(At(wa, c.wk[3], n, k - Answered(c)), m, At("ok", e.wk[3], n, k - Answered(e)))
    BY <1>9, <2>4, <2>5, <2>7, <2>10, <2>12 DEF ToServer, At, ClientDone
  <2>9. ~e.reneg /\ e.keyUpdate \in {"none", "requested", "notRequested"} /\ e.st \notin {"OK", "EARLY_DATA"}
    BY <1>1, <2>5, FieldsAre DEF Same
  <2> QED BY <2>2, <2>3, <2>5, <2>6, <2>8, <2>9, ClientWroteMessage
<1>10. CASE c.st = "CW_CERT_VRFY"
  <2>1. t = "CW_FINISHED"
    BY <1>2, <1>10, ClientTable13 DEF ClientDone
  <2>2. e = Wrote(c, "client", "CW_FINISHED") /\ q2 = Append(q, Record(c, "client", "CW_FINISHED"))
    BY <1>2, <1>3, <2>1, WritesMessage, MsgOfAre
  <2>3. PICK m : m = Record(c, "client", "CW_FINISHED")
    OBVIOUS
  <2>4. /\ c.v13 /\ c.finSent /\ c.finRead /\ IsAppKey(c.rk) /\ IsAppKey(c.wk) /\ opt.pha
        /\ c.certReq = OwnCert /\ c.pha = "requested" /\ wa = "pfin" /\ c.tr = PhaAnswerTr /\ c.phaTr = PhaTr
        /\ c.hit = opt.hit /\ c.early = Fate /\ ra = "ok"
    BY <1>10 DEF ClientDone, PhaAnswerTr
  <2>5. /\ Same(c, e, {"st", "wk", "finSent", "cleanup", "tr", "phaTr"})
        /\ e.st = "CW_FINISHED" /\ e.tr = Append(c.tr, "FIN") /\ e.finSent
        /\ e.phaTr = (IF c.phaTr = <<>> THEN Append(c.tr, "FIN") ELSE c.phaTr)
        /\ e.wk = (IF c.pha = "requested" THEN m.key ELSE <<"app", c.sfTr, 0>>)
        /\ m.mt = "FIN" /\ m.digest = c.tr
        /\ m.key = (IF c.certReq = "none" /\ (c.ed # "none" \/ "client" \in opt.compat) THEN <<"handshake", c.hsTr, 0>> ELSE c.wk)
    BY <1>1, <2>2, <2>3, <2>4, WroteClientFinished
  <2>10. m.key = c.wk /\ e.wk = c.wk /\ e.phaTr = PhaTr /\ c.wk = KA(c.wk[3])
    BY <1>10, <2>4, <2>5, TranscriptKept DEF OwnCert, IsAppKey
  <2>12. /\ e.flow = c.flow /\ e.inInit = c.inInit /\ e.v13 = c.v13 /\ e.finRead = c.finRead /\ e.hit = c.hit
        /\ e.hrr = c.hrr /\ e.early = c.early /\ e.ed = c.ed /\ e.certReq = c.certReq /\ e.peerCert = c.peerCert
        /\ e.pha = c.pha /\ e.keyUpdate = c.keyUpdate /\ e.rk = c.rk /\ e.hsTr = c.hsTr /\ e.sfTr = c.sfTr
        /\ e.reneg = c.reneg /\ e.sentTickets = c.sentTickets /\ e.extraTickets = c.extraTickets
    BY <2>5, FieldsAre DEF Same
  <2>6. ClientStage(e, ra, "ok", n)
    <3>1. ClientDone(e, ra, "ok")
      BY <1>10, <2>4, <2>5, <2>10, <2>12, KeyCounts DEF ClientDone
    <3> QED BY <3>1 DEF ClientStage
  <2>7. Answered(c) = 0 /\ Answered(e) = 0
    BY <1>10, <2>4, <2>5, <2>10, <2>12, KeyCounts, FieldsAre DEF Same, Answered, ClientDone
  <2>8. ToServer(At(wa, c.wk[3], n, k - Answered(c)), m, At("ok", e.wk[3], n, k - Answered(e)))
    BY <1>10, <2>4, <2>5, <2>7, <2>10, <2>12 DEF ToServer, At, ClientDone
  <2>9. ~e.reneg /\ e.keyUpdate \in {"none", "requested", "notRequested"} /\ e.st \notin {"OK", "EARLY_DATA"}
    BY <1>1, <2>5, FieldsAre DEF Same
  <2> QED BY <2>2, <2>3, <2>5, <2>6, <2>8, <2>9, ClientWroteMessage
<1> QED BY <1>4, <1>5, <1>6, <1>7, <1>8, <1>9, <1>10 DEF ClientDone

\* Any step that writes.
LEMMA ClientWrites ==
    ASSUME NEW c, NEW ra, NEW wa, NEW n \in Nat, NEW ck, NEW e, NEW q, NEW q2, NEW p, NEW k \in Nat,
           opt \in OptionRecord, Sound(c, "client"), ReadsOn(c, p), c.flow = "WRITING",
           Writes(c, "client", ck, e, q, q2),
           ClientStage(c, ra, wa, n)
    PROVE  ClientWrote(c, e, ra, wa, n, k, q, q2, p)
<1>1. CASE ClientFirst(c, ra, wa, n)
  BY <1>1, ClientFirstWrites
<1>2. CASE ClientRetry(c, ra, wa, n)
  BY <1>2, ClientRetryWrites
<1>3. CASE ClientReads(c, ra, wa, n)
  BY <1>3 DEF ClientReads
<1>4. CASE ClientAnswers(c, ra, wa, n)
  BY <1>4, ClientAnswersWrites
<1>5. CASE ClientDone(c, ra, wa)
  BY <1>5, ClientDoneWrites
<1> QED BY <1>1, <1>2, <1>3, <1>4, <1>5 DEF ClientStage

-----------------------------------------------------------------------------
(* The server writes. *)

\* What a step of the server's state machine leaves behind.  The server has n records
\* of data and k requests for a certificate behind it; p is what it is to read.
ServerWrote(s, e, ra, wa, n, k, q, q2, p) ==
    /\ Sound(e, "server") /\ ReadsOn(e, p) /\ e.rk[3] = s.rk[3]
    /\ \E wa2 : \E k2 \in Nat :
         /\ ServerStage(e, ra, wa2)
         /\ k2 - Asked(e) = k - Asked(s)
         /\ Told("client", At(wa, s.wk[3], n, k), q, q2, At(wa2, e.wk[3], n, k2))

LEMMA ServerWroteMessage ==
    ASSUME NEW s, NEW e, NEW ra, NEW wa, NEW n, NEW k, NEW q, NEW q2, NEW p,
           Sound(e, "server"), e.rk[3] = s.rk[3], e.st \notin {"OK", "EARLY_DATA"},
           NEW m, q2 = Append(q, m), NEW wa2, NEW k2 \in Nat,
           ServerStage(e, ra, wa2), k2 - Asked(e) = k - Asked(s),
           ToClient(At(wa, s.wk[3], n, k), m, At(wa2, e.wk[3], n, k2))
    PROVE  ServerWrote(s, e, ra, wa, n, k, q, q2, p)
<1>1. ReadsOn(e, p)
  BY DEF ReadsOn
<1>2. Told("client", At(wa, s.wk[3], n, k), q, q2, At(wa2, e.wk[3], n, k2))
  BY DEF Told, Arrives
<1> QED BY <1>1, <1>2 DEF ServerWrote

LEMMA ServerWroteNone ==
    ASSUME NEW s, NEW e, NEW ra, NEW wa, NEW n, NEW k \in Nat, NEW q, NEW q2, NEW p,
           Sound(e, "server"), e.rk = s.rk, e.wk = s.wk, ReadsOn(e, p), q2 = q,
           ServerStage(e, ra, wa), Asked(e) = Asked(s)
    PROVE  ServerWrote(s, e, ra, wa, n, k, q, q2, p)
<1>1. Told("client", At(wa, s.wk[3], n, k), q, q2, At(wa, e.wk[3], n, k))
  BY DEF Told
<1> QED BY <1>1 DEF ServerWrote

\* A ticket is one of those the server was told to send.
LEMMA SoundTicket ==
    ASSUME NEW x, Sound(x, "server"), NEW e, opt \in OptionRecord, calls \in Nat,
           Same(x, e, {"st", "reneg", "newSession", "cleanup", "ticket", "sentTickets", "extraTickets"}),
           ~e.reneg, e.sentTickets = x.sentTickets + 1,
           e.extraTickets = (IF x.extraTickets > 0 THEN x.extraTickets - 1 ELSE 0),
           x.extraTickets > 0 \/ opt.tickets > x.sentTickets
    PROVE  Sound(e, "server")
<1>1. e.err = x.err /\ e.sched = x.sched /\ e.keyUpdate = x.keyUpdate /\ DOMAIN e = Fields
  BY FieldsAre DEF Same
<1>2. PICK y \in Nat, z \in Nat, t \in Nat : y = x.sentTickets /\ z = x.extraTickets /\ t = opt.tickets
  BY DEF Sound, OptionRecord
<1>3. z <= calls /\ y + z <= t + calls
  BY <1>2 DEF Sound
<1>4. /\ e.sentTickets \in Nat /\ e.extraTickets \in Nat /\ e.extraTickets <= calls
      /\ e.sentTickets + e.extraTickets <= t + calls
  <2>1. CASE z > 0
    <3>1. e.sentTickets = y + 1 /\ e.extraTickets = z - 1
      BY <1>2, <2>1
    <3> QED BY <1>2, <1>3, <2>1, <3>1
  <2>2. CASE ~(z > 0)
    <3>1. e.sentTickets = y + 1 /\ e.extraTickets = 0 /\ t > y
      BY <1>2, <2>2
    <3> QED BY <1>2, <1>3, <2>2, <3>1
  <2> QED BY <2>1, <2>2
<1> QED BY <1>1, <1>2, <1>4 DEF Sound

\* The server until it has answered the first ClientHello.
LEMMA ServerFirstWrites ==
    ASSUME NEW c, NEW ra, NEW wa, NEW n \in Nat, NEW ck, NEW e, NEW q, NEW q2, NEW p, NEW k \in Nat,
           opt \in OptionRecord, calls \in Nat, Sound(c, "server"), ReadsOn(c, p), c.flow = "WRITING",
           Writes(c, "server", ck, e, q, q2),
           ServerFirst(c, ra, wa)
    PROVE  ServerWrote(c, e, ra, wa, n, k, q, q2, p)
<1> USE Names
<1>1. DOMAIN c = Fields /\ ~c.reneg /\ c.keyUpdate \in {"none", "requested", "notRequested"}
  BY DEF Sound
<1>2. PICK t, x : t = WriteTransition(c, "server", ck) /\ x = Leaving(c, "server", ck)
  OBVIOUS
<1>3. c.v13 \/ (~c.v13 /\ c.st = "BEFORE")
  BY DEF ServerFirst
<1>4. /\ Same(c, x, {"pha"})
      /\ x.pha = (IF c.v13 /\ c.st = "SW_CERT_REQ" /\ c.pha = "requestPending" THEN "requested"
                   ELSE IF c.v13 /\ c.st = "SR_FINISHED" /\ c.pha = "requested" THEN "ext"
                   ELSE c.pha)
  BY <1>1, <1>2, <1>3, LeavesServer
<1>5. /\ x.flow = c.flow /\ x.inInit = c.inInit /\ x.v13 = c.v13 /\ x.finSent = c.finSent /\ x.finRead = c.finRead
      /\ x.hit = c.hit /\ x.hrr = c.hrr /\ x.early = c.early /\ x.ed = c.ed /\ x.certReq = c.certReq
      /\ x.peerCert = c.peerCert /\ x.keyUpdate = c.keyUpdate /\ x.rk = c.rk /\ x.wk = c.wk /\ x.tr = c.tr
      /\ x.hsTr = c.hsTr /\ x.sfTr = c.sfTr /\ x.phaTr = c.phaTr /\ x.reneg = c.reneg /\ x.st = c.st
      /\ x.sentTickets = c.sentTickets /\ x.extraTickets = c.extraTickets
  BY <1>4, FieldsAre DEF Same
<1>6. DOMAIN x = Fields /\ ~x.reneg /\ Sound(x, "server")
  <2>1. DOMAIN x = Fields /\ ~x.reneg /\ x.keyUpdate \in {"none", "requested", "notRequested"}
    BY <1>1, <1>4, <1>5 DEF Same
  <2> QED BY <1>4, <2>1, SoundKept
<1>7. CASE c.st = "BEFORE"
  <2>1. t = "READ" /\ x.pha = c.pha
    BY <1>2, <1>4, <1>7, ServerTable12, ServerTable13 DEF ServerFirst
  <2>2. e = [x EXCEPT !.flow = "READING"] /\ q2 = q
    BY <1>2, <2>1, WritesNone
  <2>3. Same(x, e, {"flow"}) /\ e.flow = "READING" /\ ~e.reneg
    BY <1>6, <2>2, FieldsAre DEF Same
  <2>4. /\ e.inInit = x.inInit /\ e.v13 = x.v13 /\ e.finSent = x.finSent /\ e.finRead = x.finRead /\ e.hit = x.hit
        /\ e.hrr = x.hrr /\ e.early = x.early /\ e.ed = x.ed /\ e.certReq = x.certReq /\ e.peerCert = x.peerCert
        /\ e.pha = x.pha /\ e.keyUpdate = x.keyUpdate /\ e.rk = x.rk /\ e.wk = x.wk /\ e.tr = x.tr
        /\ e.hsTr = x.hsTr /\ e.sfTr = x.sfTr /\ e.phaTr = x.phaTr /\ e.reneg = x.reneg /\ e.st = x.st
        /\ e.sentTickets = x.sentTickets /\ e.extraTickets = x.extraTickets
    BY <2>3, FieldsAre DEF Same
  <2>5. ServerStage(e, ra, wa)
    <3>1. ServerFirst(e, ra, wa)
      BY <1>5, <1>7, <2>1, <2>3, <2>4 DEF ServerFirst
    <3> QED BY <3>1 DEF ServerStage
  <2>6. Asked(e) = Asked(c)
    BY <1>5, <1>7, <2>1, <2>3, <2>4 DEF Asked, ServerFirst
  <2>7. ReadsOn(e, p)
    BY <1>5, <1>7, <2>1, <2>3, <2>4 DEF ReadsOn, ServerFirst
  <2>8. Sound(e, "server")
    <3>1. ~e.reneg /\ e.keyUpdate \in {"none", "requested", "notRequested"}
      BY <1>1, <1>5, <2>3, <2>4
    <3> QED BY <1>6, <2>3, <3>1, SoundKept
  <2>9. e.rk = c.rk /\ e.wk = c.wk
    BY <1>5, <2>4
  <2> QED BY <2>2, <2>5, <2>6, <2>7, <2>8, <2>9, ServerWroteNone
<1>8. CASE c.st = "SR_CLNT_HELLO" /\ opt.hrr
  <2>1. t = "SW_SRVR_HELLO" /\ x.pha = c.pha
    BY <1>2, <1>4, <1>8, ServerTable12, ServerTable13 DEF ServerFirst
  <2>2. e = Wrote(x, "server", "SW_SRVR_HELLO") /\ q2 = Append(q, Record(x, "server", "SW_SRVR_HELLO"))
    BY <1>2, <2>1, WritesMessage, MsgOfAre
  <2>3. PICK m : m = Record(x, "server", "SW_SRVR_HELLO")
    OBVIOUS
  <2>4. x.v13 /\ x.hrr = "pending" /\ x.pha = Ext /\ x.wk = NoKey /\ wa = "sh"
    BY <1>5, <1>8, <2>1 DEF ServerFirst
  <2>5. /\ Same(x, e, {"st", "hit", "tr"})
        /\ e.st = "SW_SRVR_HELLO" /\ ~e.hit /\ e.tr = Append(<<"HASH">>, "SH")
        /\ m.mt = "SH" /\ m.key = x.wk
        /\ m.hrr
    BY <1>6, <2>2, <2>3, <2>4, WroteRetryRequest
  <2>10. e.tr = RetryTr
    BY <1>8, <2>4, <2>5, RetryTrIs DEF Same
  <2>12. /\ e.flow = x.flow /\ e.inInit = x.inInit /\ e.v13 = x.v13 /\ e.finSent = x.finSent /\ e.finRead = x.finRead
        /\ e.hrr = x.hrr /\ e.early = x.early /\ e.ed = x.ed /\ e.certReq = x.certReq /\ e.peerCert = x.peerCert
        /\ e.pha = x.pha /\ e.keyUpdate = x.keyUpdate /\ e.rk = x.rk /\ e.wk = x.wk /\ e.hsTr = x.hsTr
        /\ e.sfTr = x.sfTr /\ e.phaTr = x.phaTr /\ e.reneg = x.reneg /\ e.sentTickets = x.sentTickets /\ e.extraTickets = x.extraTickets
    BY <2>5, FieldsAre DEF Same
  <2>6. ServerStage(e, ra, "sh2")
    <3>1. /\ e.v13 /\ e.early = Fate /\ e.pha = Ext /\ e.hrr = (IF opt.hrr THEN "pending" ELSE "none")
          /\ e.rk = (IF Accepted THEN KE ELSE NoKey) /\ e.ed = ServerStarts /\ e.flow = "WRITING" /\ ra = AfterHello
      BY <1>5, <1>8, <2>1, <2>12 DEF ServerFirst
    <3>2. ~e.finSent /\ ~e.finRead /\ e.certReq = "none" /\ e.phaTr = <<>> /\ e.wk = NoKey
      BY <1>5, <2>4, <2>12 DEF ServerFirst
    <3>3. ServerFirst(e, ra, "sh2")
      BY <1>8, <2>5, <2>10, <3>1, <3>2 DEF ServerFirst
    <3> QED BY <3>3 DEF ServerStage
  <2>7. Asked(c) = 0 /\ Asked(e) = 0 /\ c.wk[3] = 0 /\ e.wk[3] = 0 /\ k - Asked(e) = k - Asked(c) /\ e.rk[3] = c.rk[3]
    BY <1>5, <1>8, <2>1, <2>4, <2>5, <2>10, <2>12, KeyCounts DEF Asked, ServerFirst
  <2>8. ToClient(At(wa, c.wk[3], n, k), m, At("sh2", e.wk[3], n, k))
    BY <1>5, <1>8, <2>4, <2>5, <2>7, <2>10, <2>12 DEF ToClient, At, ServerFirst
  <2>9. Sound(e, "server") /\ e.st \notin {"OK", "EARLY_DATA"}
    <3>1. ~e.reneg /\ e.keyUpdate \in {"none", "requested", "notRequested"}
      BY <1>1, <1>5, <2>5, <2>12
    <3> QED BY <1>6, <2>5, <3>1, SoundKept
  <2> QED BY <2>2, <2>3, <2>6, <2>7, <2>8, <2>9, ServerWroteMessage
<1>9. CASE c.st = "SR_CLNT_HELLO" /\ ~opt.hrr /\ ServerCompat
  <2>1. t = "SW_SRVR_HELLO" /\ x.pha = c.pha
    BY <1>2, <1>4, <1>9, ServerTable12, ServerTable13 DEF ServerFirst
  <2>2. e = Wrote(x, "server", "SW_SRVR_HELLO") /\ q2 = Append(q, Record(x, "server", "SW_SRVR_HELLO"))
    BY <1>2, <2>1, WritesMessage, MsgOfAre
  <2>3. PICK m : m = Record(x, "server", "SW_SRVR_HELLO")
    OBVIOUS
  <2>4. /\ x.v13 /\ x.hrr # "pending" /\ "server" \in opt.compat /\ x.hrr # "complete"
        /\ x.pha = Ext /\ x.wk = NoKey /\ wa = "sh" /\ x.tr = FirstTr /\ x.hit = opt.hit
    BY <1>5, <1>9, <2>1 DEF ServerFirst, ServerCompat
  <2>5. /\ Same(x, e, {"st", "tr"})
        /\ e.st = "SW_SRVR_HELLO" /\ e.tr = Append(x.tr, "SH")
        /\ m.mt = "SH" /\ m.key = x.wk /\ m.hit = x.hit
        /\ ~m.hrr
    BY <1>6, <2>2, <2>3, <2>4, WroteServerHelloCompat
  <2>10. e.tr = HsTr
    BY <1>9, <2>4, <2>5 DEF HsTr, HelloTr, FirstTr
  <2>12. /\ e.flow = x.flow /\ e.inInit = x.inInit /\ e.v13 = x.v13 /\ e.finSent = x.finSent /\ e.finRead = x.finRead
        /\ e.hit = x.hit /\ e.hrr = x.hrr /\ e.early = x.early /\ e.ed = x.ed /\ e.certReq = x.certReq
        /\ e.peerCert = x.peerCert /\ e.pha = x.pha /\ e.keyUpdate = x.keyUpdate /\ e.rk = x.rk /\ e.wk = x.wk
        /\ e.hsTr = x.hsTr /\ e.sfTr = x.sfTr /\ e.phaTr = x.phaTr /\ e.reneg = x.reneg /\ e.sentTickets = x.sentTickets
        /\ e.extraTickets = x.extraTickets
    BY <2>5, FieldsAre DEF Same
  <2>6. ServerStage(e, ra, "ee")
    <3>1. ServerFirst(e, ra, "ee")
      BY <1>5, <1>9, <2>1, <2>4, <2>5, <2>10, <2>12, KeyCounts DEF ServerFirst
    <3> QED BY <3>1 DEF ServerStage
  <2>7. Asked(c) = 0 /\ Asked(e) = 0 /\ c.wk[3] = 0 /\ e.wk[3] = 0 /\ k - Asked(e) = k - Asked(c) /\ e.rk[3] = c.rk[3]
    BY <1>5, <1>9, <2>1, <2>4, <2>5, <2>10, <2>12, KeyCounts DEF Asked, ServerFirst
  <2>8. ToClient(At(wa, c.wk[3], n, k), m, At("ee", e.wk[3], n, k))
    BY <1>5, <1>9, <2>4, <2>5, <2>7, <2>10, <2>12 DEF ToClient, At, ServerFirst
  <2>9. Sound(e, "server") /\ e.st \notin {"OK", "EARLY_DATA"}
    <3>1. ~e.reneg /\ e.keyUpdate \in {"none", "requested", "notRequested"}
      BY <1>1, <1>5, <2>5, <2>12
    <3> QED BY <1>6, <2>5, <3>1, SoundKept
  <2> QED BY <2>2, <2>3, <2>6, <2>7, <2>8, <2>9, ServerWroteMessage
<1>10. CASE c.st = "SR_CLNT_HELLO" /\ ~opt.hrr /\ ~ServerCompat
  <2>1. t = "SW_SRVR_HELLO" /\ x.pha = c.pha
    BY <1>2, <1>4, <1>10, ServerTable12, ServerTable13 DEF ServerFirst
  <2>2. e = Wrote(x, "server", "SW_SRVR_HELLO") /\ q2 = Append(q, Record(x, "server", "SW_SRVR_HELLO"))
    BY <1>2, <2>1, WritesMessage, MsgOfAre
  <2>3. PICK m : m = Record(x, "server", "SW_SRVR_HELLO")
    OBVIOUS
  <2>4. /\ x.v13 /\ x.hrr # "pending" /\ ~("server" \in opt.compat /\ x.hrr # "complete") /\ x.early = Fate
        /\ x.pha = Ext /\ x.wk = NoKey /\ wa = "sh" /\ x.tr = FirstTr /\ x.hit = opt.hit /\ x.rk = (IF Accepted THEN KE ELSE NoKey)
    BY <1>5, <1>10, <2>1 DEF ServerFirst, ServerCompat
  <2>5. /\ Same(x, e, {"st", "tr", "hsTr", "wk", "rk"})
        /\ e.st = "SW_SRVR_HELLO" /\ e.tr = Append(x.tr, "SH") /\ e.hsTr = Append(x.tr, "SH")
        /\ e.wk = <<"handshake", Append(x.tr, "SH"), 0>>
        /\ e.rk = (IF x.early = "accepted" THEN x.rk ELSE <<"handshake", Append(x.tr, "SH"), 0>>)
        /\ m.mt = "SH" /\ m.key = x.wk /\ m.hit = x.hit
        /\ ~m.hrr
    BY <1>6, <2>2, <2>3, <2>4, WroteServerHello
  <2>10. e.tr = HsTr /\ e.hsTr = HsTr /\ e.wk = KH /\ e.rk = WaitingKey /\ c.rk[3] = 0
    BY <1>10, <2>4, <2>5, <1>5, KeyCounts DEF HsTr, HelloTr, FirstTr, KH, WaitingKey, Fate, Offered
  <2>12. /\ e.flow = x.flow /\ e.inInit = x.inInit /\ e.v13 = x.v13 /\ e.finSent = x.finSent /\ e.finRead = x.finRead
        /\ e.hit = x.hit /\ e.hrr = x.hrr /\ e.early = x.early /\ e.ed = x.ed /\ e.certReq = x.certReq
        /\ e.peerCert = x.peerCert /\ e.pha = x.pha /\ e.keyUpdate = x.keyUpdate /\ e.sfTr = x.sfTr /\ e.phaTr = x.phaTr
        /\ e.reneg = x.reneg /\ e.sentTickets = x.sentTickets /\ e.extraTickets = x.extraTickets
    BY <2>5, FieldsAre DEF Same
  <2>6. ServerStage(e, ra, "ee")
    <3>1. ServerWrites(e, ra, "ee")
      BY <1>5, <1>10, <2>1, <2>4, <2>5, <2>10, <2>12, KeyCounts DEF ServerFirst, ServerWrites, Server13, ServerAnswers, AfterHello
    <3> QED BY <3>1 DEF ServerStage
  <2>7. Asked(c) = 0 /\ Asked(e) = 0 /\ c.wk[3] = 0 /\ e.wk[3] = 0 /\ k - Asked(e) = k - Asked(c) /\ e.rk[3] = c.rk[3]
    BY <1>5, <1>10, <2>1, <2>4, <2>5, <2>10, <2>12, KeyCounts DEF Asked, ServerFirst
  <2>8. ToClient(At(wa, c.wk[3], n, k), m, At("ee", e.wk[3], n, k))
    BY <1>5, <1>10, <2>4, <2>5, <2>7, <2>10, <2>12 DEF ToClient, At, ServerFirst
  <2>9. Sound(e, "server") /\ e.st \notin {"OK", "EARLY_DATA"}
    <3>1. ~e.reneg /\ e.keyUpdate \in {"none", "requested", "notRequested"}
      BY <1>1, <1>5, <2>5, <2>12
    <3> QED BY <1>6, <2>5, <3>1, SoundKept
  <2> QED BY <2>2, <2>3, <2>6, <2>7, <2>8, <2>9, ServerWroteMessage
<1>11. CASE c.st = "SW_SRVR_HELLO" /\ ~opt.hrr
  <2>1. t = "SW_CHANGE" /\ x.pha = c.pha
    BY <1>2, <1>4, <1>11, ServerTable12, ServerTable13 DEF ServerFirst, ServerCompat
  <2>2. e = Wrote(x, "server", "SW_CHANGE") /\ q2 = Append(q, Record(x, "server", "SW_CHANGE"))
    BY <1>2, <2>1, WritesMessage, MsgOfAre
  <2>3. PICK m : m = Record(x, "server", "SW_CHANGE")
    OBVIOUS
  <2>4. /\ x.v13 /\ x.hrr # "pending" /\ x.early = Fate
        /\ x.pha = Ext /\ x.wk = NoKey /\ wa = "ee" /\ x.tr = HsTr /\ x.hit = opt.hit /\ x.rk = (IF Accepted THEN KE ELSE NoKey)
    BY <1>5, <1>11, <2>1 DEF ServerFirst
  <2>5. /\ Same(x, e, {"st", "hsTr", "wk", "rk"})
        /\ e.st = "SW_CHANGE" /\ e.hsTr = x.tr
        /\ e.wk = <<"handshake", x.tr, 0>>
        /\ e.rk = (IF x.early = "accepted" THEN x.rk ELSE <<"handshake", x.tr, 0>>)
        /\ m.mt = "CCS"
    BY <1>6, <2>2, <2>3, <2>4, WroteServerCcs
  <2>10. e.hsTr = HsTr /\ e.wk = KH /\ e.rk = WaitingKey /\ c.rk[3] = 0
    BY <1>11, <2>4, <2>5, <1>5, KeyCounts DEF KH, WaitingKey, Fate, Offered
  <2>12. /\ e.flow = x.flow /\ e.inInit = x.inInit /\ e.v13 = x.v13 /\ e.finSent = x.finSent /\ e.finRead = x.finRead
        /\ e.hit = x.hit /\ e.hrr = x.hrr /\ e.early = x.early /\ e.ed = x.ed /\ e.certReq = x.certReq
        /\ e.peerCert = x.peerCert /\ e.pha = x.pha /\ e.keyUpdate = x.keyUpdate /\ e.tr = x.tr /\ e.sfTr = x.sfTr
        /\ e.phaTr = x.phaTr /\ e.reneg = x.reneg /\ e.sentTickets = x.sentTickets /\ e.extraTickets = x.extraTickets
    BY <2>5, FieldsAre DEF Same
  <2>6. ServerStage(e, ra, "ee")
    <3>1. ServerWrites(e, ra, "ee")
      BY <1>5, <1>11, <2>1, <2>4, <2>5, <2>10, <2>12, KeyCounts DEF ServerFirst, ServerWrites, Server13, ServerAnswers, AfterHello
    <3> QED BY <3>1 DEF ServerStage
  <2>7. Asked(c) = 0 /\ Asked(e) = 0 /\ c.wk[3] = 0 /\ e.wk[3] = 0 /\ k - Asked(e) = k - Asked(c) /\ e.rk[3] = c.rk[3]
    BY <1>5, <1>11, <2>1, <2>4, <2>5, <2>10, <2>12, KeyCounts DEF Asked, ServerFirst
  <2>8. ToClient(At(wa, c.wk[3], n, k), m, At("ee", e.wk[3], n, k))
    BY <1>5, <1>11, <2>4, <2>5, <2>7, <2>10, <2>12 DEF ToClient, At, ServerFirst
  <2>9. Sound(e, "server") /\ e.st \notin {"OK", "EARLY_DATA"}
    <3>1. ~e.reneg /\ e.keyUpdate \in {"none", "requested", "notRequested"}
      BY <1>1, <1>5, <2>5, <2>12
    <3> QED BY <1>6, <2>5, <3>1, SoundKept
  <2> QED BY <2>2, <2>3, <2>6, <2>7, <2>8, <2>9, ServerWroteMessage
<1>12. CASE c.st = "SW_SRVR_HELLO" /\ opt.hrr /\ ServerCompat
  <2>1. t = "SW_CHANGE" /\ x.pha = c.pha
    BY <1>2, <1>4, <1>12, ServerTable12, ServerTable13 DEF ServerFirst, ServerCompat
  <2>2. e = Wrote(x, "server", "SW_CHANGE") /\ q2 = Append(q, Record(x, "server", "SW_CHANGE"))
    BY <1>2, <2>1, WritesMessage, MsgOfAre
  <2>3. PICK m : m = Record(x, "server", "SW_CHANGE")
    OBVIOUS
  <2>4. x.v13 /\ x.hrr = "pending" /\ x.pha = Ext /\ x.wk = NoKey /\ wa = "sh2"
    BY <1>5, <1>12, <2>1 DEF ServerFirst
  <2>5. /\ Same(x, e, {"st"})
        /\ e.st = "SW_CHANGE"
        /\ m.mt = "CCS"
    BY <1>6, <2>2, <2>3, <2>4, WroteServerRetryCcs
  <2>12. /\ e.flow = x.flow /\ e.inInit = x.inInit /\ e.v13 = x.v13 /\ e.finSent = x.finSent /\ e.finRead = x.finRead
        /\ e.hit = x.hit /\ e.hrr = x.hrr /\ e.early = x.early /\ e.ed = x.ed /\ e.certReq = x.certReq
        /\ e.peerCert = x.peerCert /\ e.pha = x.pha /\ e.keyUpdate = x.keyUpdate /\ e.rk = x.rk /\ e.wk = x.wk
        /\ e.tr = x.tr /\ e.hsTr = x.hsTr /\ e.sfTr = x.sfTr /\ e.phaTr = x.phaTr /\ e.reneg = x.reneg
        /\ e.sentTickets = x.sentTickets /\ e.extraTickets = x.extraTickets
    BY <2>5, FieldsAre DEF Same
  <2>6. ServerStage(e, ra, "sh2")
    <3>1. ServerFirst(e, ra, "sh2")
      BY <1>5, <1>12, <2>1, <2>4, <2>5, <2>12, KeyCounts DEF ServerFirst
    <3> QED BY <3>1 DEF ServerStage
  <2>7. Asked(c) = 0 /\ Asked(e) = 0 /\ c.wk[3] = 0 /\ e.wk[3] = 0 /\ k - Asked(e) = k - Asked(c) /\ e.rk[3] = c.rk[3]
    BY <1>5, <1>12, <2>1, <2>4, <2>5, <2>12, KeyCounts DEF Asked, ServerFirst
  <2>8. ToClient(At(wa, c.wk[3], n, k), m, At("sh2", e.wk[3], n, k))
    BY <1>5, <1>12, <2>4, <2>5, <2>7, <2>12 DEF ToClient, At, ServerFirst
  <2>9. Sound(e, "server") /\ e.st \notin {"OK", "EARLY_DATA"}
    <3>1. ~e.reneg /\ e.keyUpdate \in {"none", "requested", "notRequested"}
      BY <1>1, <1>5, <2>5, <2>12
    <3> QED BY <1>6, <2>5, <3>1, SoundKept
  <2> QED BY <2>2, <2>3, <2>6, <2>7, <2>8, <2>9, ServerWroteMessage
<1>13. CASE c.st = "SW_SRVR_HELLO" /\ opt.hrr /\ ~ServerCompat /\ opt.readEarly
  <2>1. t = "EARLY_DATA" /\ x.pha = c.pha
    BY <1>2, <1>4, <1>13, ServerTable12, ServerTable13 DEF ServerFirst, ServerCompat, ServerStarts
  <2>2. e = Stopped(x, "server", "EARLY_DATA") /\ q2 = q
    <3>1. Stops(x, "server", t)
      BY <1>5, <1>13, <2>1 DEF Stops, ServerFirst, ServerCompat, ServerStarts
    <3> QED BY <1>2, <2>1, <3>1, WritesNone
  <2>3. Same(x, e, {"st", "flow", "inInit", "reneg", "newSession", "cleanup", "ticket"}) /\ e.st = "EARLY_DATA" /\ e.flow = "FINISHED" /\ ~e.inInit /\ ~e.reneg
    BY <1>6, <2>2, StoppedServer
  <2>4. /\ e.v13 = x.v13 /\ e.finSent = x.finSent /\ e.finRead = x.finRead /\ e.hit = x.hit /\ e.hrr = x.hrr
        /\ e.early = x.early /\ e.ed = x.ed /\ e.certReq = x.certReq /\ e.peerCert = x.peerCert /\ e.pha = x.pha
        /\ e.keyUpdate = x.keyUpdate /\ e.rk = x.rk /\ e.wk = x.wk /\ e.tr = x.tr /\ e.hsTr = x.hsTr
        /\ e.sfTr = x.sfTr /\ e.phaTr = x.phaTr /\ e.sentTickets = x.sentTickets /\ e.extraTickets = x.extraTickets
    BY <2>3, FieldsAre DEF Same
  <2>5. ServerStage(e, ra, wa)
    <3>1. ServerFirst(e, ra, wa)
      BY <1>5, <1>13, <2>1, <2>3, <2>4 DEF ServerFirst, ServerStarts
    <3> QED BY <3>1 DEF ServerStage
  <2>6. Asked(e) = Asked(c)
    BY <1>5, <1>13, <2>1, <2>3, <2>4 DEF Asked, ServerFirst
  <2>7. ReadsOn(e, p)
    BY <1>5, <1>13, <2>1, <2>3, <2>4 DEF ReadsOn, ServerFirst
  <2>8. Sound(e, "server")
    <3>1. ~e.reneg /\ e.keyUpdate \in {"none", "requested", "notRequested"}
      BY <1>1, <1>5, <2>3, <2>4
    <3> QED BY <1>6, <2>3, <3>1, SoundKept
  <2>9. e.rk = c.rk /\ e.wk = c.wk
    BY <1>5, <2>4
  <2> QED BY <2>2, <2>5, <2>6, <2>7, <2>8, <2>9, ServerWroteNone
<1>14. CASE c.st = "SW_SRVR_HELLO" /\ opt.hrr /\ ~ServerCompat /\ ~opt.readEarly
  <2>1. t = "EARLY_DATA" /\ x.pha = c.pha
    BY <1>2, <1>4, <1>14, ServerTable12, ServerTable13 DEF ServerFirst, ServerCompat, ServerStarts
  <2>2. e = [x EXCEPT !.st = "EARLY_DATA"] /\ q2 = q
    <3>1. ~Stops(x, "server", t)
      BY <1>5, <1>14, <2>1 DEF Stops, ServerFirst, ServerCompat, ServerStarts
    <3> QED BY <1>2, <2>1, <3>1, WritesNone
  <2>3. Same(x, e, {"st"}) /\ e.st = "EARLY_DATA" /\ ~e.reneg
    BY <1>6, <2>2, FieldsAre DEF Same
  <2>4. /\ e.flow = x.flow /\ e.inInit = x.inInit /\ e.v13 = x.v13 /\ e.finSent = x.finSent /\ e.finRead = x.finRead
        /\ e.hit = x.hit /\ e.hrr = x.hrr /\ e.early = x.early /\ e.ed = x.ed /\ e.certReq = x.certReq
        /\ e.peerCert = x.peerCert /\ e.pha = x.pha /\ e.keyUpdate = x.keyUpdate /\ e.rk = x.rk /\ e.wk = x.wk
        /\ e.tr = x.tr /\ e.hsTr = x.hsTr /\ e.sfTr = x.sfTr /\ e.phaTr = x.phaTr /\ e.reneg = x.reneg
        /\ e.sentTickets = x.sentTickets /\ e.extraTickets = x.extraTickets
    BY <2>3, FieldsAre DEF Same
  <2>5. ServerStage(e, ra, wa)
    <3>1. ServerFirst(e, ra, wa)
      BY <1>5, <1>14, <2>1, <2>3, <2>4 DEF ServerFirst, ServerStarts, ReadEarly
    <3> QED BY <3>1 DEF ServerStage
  <2>6. Asked(e) = Asked(c)
    BY <1>5, <1>14, <2>1, <2>3, <2>4 DEF Asked, ServerFirst
  <2>7. ReadsOn(e, p)
    BY <1>5, <1>14, <2>1, <2>3, <2>4 DEF ReadsOn, ServerFirst, ServerStarts
  <2>8. Sound(e, "server")
    <3>1. ~e.reneg /\ e.keyUpdate \in {"none", "requested", "notRequested"}
      BY <1>1, <1>5, <2>3, <2>4
    <3> QED BY <1>6, <2>3, <3>1, SoundKept
  <2>9. e.rk = c.rk /\ e.wk = c.wk
    BY <1>5, <2>4
  <2> QED BY <2>2, <2>5, <2>6, <2>7, <2>8, <2>9, ServerWroteNone
<1>15. CASE c.st = "SW_CHANGE" /\ opt.readEarly
  <2>1. t = "EARLY_DATA" /\ x.pha = c.pha
    BY <1>2, <1>4, <1>15, ServerTable12, ServerTable13 DEF ServerFirst, ServerStarts
  <2>2. e = Stopped(x, "server", "EARLY_DATA") /\ q2 = q
    <3>1. Stops(x, "server", t)
      BY <1>5, <1>15, <2>1 DEF Stops, ServerFirst, ServerStarts
    <3> QED BY <1>2, <2>1, <3>1, WritesNone
  <2>3. Same(x, e, {"st", "flow", "inInit", "reneg", "newSession", "cleanup", "ticket"}) /\ e.st = "EARLY_DATA" /\ e.flow = "FINISHED" /\ ~e.inInit /\ ~e.reneg
    BY <1>6, <2>2, StoppedServer
  <2>4. /\ e.v13 = x.v13 /\ e.finSent = x.finSent /\ e.finRead = x.finRead /\ e.hit = x.hit /\ e.hrr = x.hrr
        /\ e.early = x.early /\ e.ed = x.ed /\ e.certReq = x.certReq /\ e.peerCert = x.peerCert /\ e.pha = x.pha
        /\ e.keyUpdate = x.keyUpdate /\ e.rk = x.rk /\ e.wk = x.wk /\ e.tr = x.tr /\ e.hsTr = x.hsTr
        /\ e.sfTr = x.sfTr /\ e.phaTr = x.phaTr /\ e.sentTickets = x.sentTickets /\ e.extraTickets = x.extraTickets
    BY <2>3, FieldsAre DEF Same
  <2>5. ServerStage(e, ra, wa)
    <3>1. ServerFirst(e, ra, wa)
      BY <1>5, <1>15, <2>1, <2>3, <2>4 DEF ServerFirst, ServerStarts
    <3> QED BY <3>1 DEF ServerStage
  <2>6. Asked(e) = Asked(c)
    BY <1>5, <1>15, <2>1, <2>3, <2>4 DEF Asked, ServerFirst
  <2>7. ReadsOn(e, p)
    BY <1>5, <1>15, <2>1, <2>3, <2>4 DEF ReadsOn, ServerFirst
  <2>8. Sound(e, "server")
    <3>1. ~e.reneg /\ e.keyUpdate \in {"none", "requested", "notRequested"}
      BY <1>1, <1>5, <2>3, <2>4
    <3> QED BY <1>6, <2>3, <3>1, SoundKept
  <2>9. e.rk = c.rk /\ e.wk = c.wk
    BY <1>5, <2>4
  <2> QED BY <2>2, <2>5, <2>6, <2>7, <2>8, <2>9, ServerWroteNone
<1>16. CASE c.st = "SW_CHANGE" /\ ~opt.readEarly
  <2>1. t = "EARLY_DATA" /\ x.pha = c.pha
    BY <1>2, <1>4, <1>16, ServerTable12, ServerTable13 DEF ServerFirst, ServerStarts
  <2>2. e = [x EXCEPT !.st = "EARLY_DATA"] /\ q2 = q
    <3>1. ~Stops(x, "server", t)
      BY <1>5, <1>16, <2>1 DEF Stops, ServerFirst, ServerStarts
    <3> QED BY <1>2, <2>1, <3>1, WritesNone
  <2>3. Same(x, e, {"st"}) /\ e.st = "EARLY_DATA" /\ ~e.reneg
    BY <1>6, <2>2, FieldsAre DEF Same
  <2>4. /\ e.flow = x.flow /\ e.inInit = x.inInit /\ e.v13 = x.v13 /\ e.finSent = x.finSent /\ e.finRead = x.finRead
        /\ e.hit = x.hit /\ e.hrr = x.hrr /\ e.early = x.early /\ e.ed = x.ed /\ e.certReq = x.certReq
        /\ e.peerCert = x.peerCert /\ e.pha = x.pha /\ e.keyUpdate = x.keyUpdate /\ e.rk = x.rk /\ e.wk = x.wk
        /\ e.tr = x.tr /\ e.hsTr = x.hsTr /\ e.sfTr = x.sfTr /\ e.phaTr = x.phaTr /\ e.reneg = x.reneg
        /\ e.sentTickets = x.sentTickets /\ e.extraTickets = x.extraTickets
    BY <2>3, FieldsAre DEF Same
  <2>5. ServerStage(e, ra, wa)
    <3>1. ServerFirst(e, ra, wa)
      BY <1>5, <1>16, <2>1, <2>3, <2>4 DEF ServerFirst, ServerStarts, ReadEarly
    <3> QED BY <3>1 DEF ServerStage
  <2>6. Asked(e) = Asked(c)
    BY <1>5, <1>16, <2>1, <2>3, <2>4 DEF Asked, ServerFirst
  <2>7. ReadsOn(e, p)
    BY <1>5, <1>16, <2>1, <2>3, <2>4 DEF ReadsOn, ServerFirst, ServerStarts
  <2>8. Sound(e, "server")
    <3>1. ~e.reneg /\ e.keyUpdate \in {"none", "requested", "notRequested"}
      BY <1>1, <1>5, <2>3, <2>4
    <3> QED BY <1>6, <2>3, <3>1, SoundKept
  <2>9. e.rk = c.rk /\ e.wk = c.wk
    BY <1>5, <2>4
  <2> QED BY <2>2, <2>5, <2>6, <2>7, <2>8, <2>9, ServerWroteNone
<1>17. CASE c.st = "EARLY_DATA"
  <2>1. t = "READ" /\ x.pha = c.pha
    BY <1>2, <1>4, <1>17, ServerTable12, ServerTable13 DEF ServerFirst
  <2>2. e = [x EXCEPT !.flow = "READING"] /\ q2 = q
    BY <1>2, <2>1, WritesNone
  <2>3. Same(x, e, {"flow"}) /\ e.flow = "READING" /\ ~e.reneg
    BY <1>6, <2>2, FieldsAre DEF Same
  <2>4. /\ e.inInit = x.inInit /\ e.v13 = x.v13 /\ e.finSent = x.finSent /\ e.finRead = x.finRead /\ e.hit = x.hit
        /\ e.hrr = x.hrr /\ e.early = x.early /\ e.ed = x.ed /\ e.certReq = x.certReq /\ e.peerCert = x.peerCert
        /\ e.pha = x.pha /\ e.keyUpdate = x.keyUpdate /\ e.rk = x.rk /\ e.wk = x.wk /\ e.tr = x.tr
        /\ e.hsTr = x.hsTr /\ e.sfTr = x.sfTr /\ e.phaTr = x.phaTr /\ e.reneg = x.reneg /\ e.st = x.st
        /\ e.sentTickets = x.sentTickets /\ e.extraTickets = x.extraTickets
    BY <2>3, FieldsAre DEF Same
  <2>5. ServerStage(e, ra, wa)
    <3>1. ServerFirst(e, ra, wa)
      BY <1>5, <1>17, <2>1, <2>3, <2>4 DEF ServerFirst
    <3> QED BY <3>1 DEF ServerStage
  <2>6. Asked(e) = Asked(c)
    BY <1>5, <1>17, <2>1, <2>3, <2>4 DEF Asked, ServerFirst
  <2>7. ReadsOn(e, p)
    BY <1>5, <1>17, <2>1, <2>3, <2>4 DEF ReadsOn, ServerFirst
  <2>8. Sound(e, "server")
    <3>1. ~e.reneg /\ e.keyUpdate \in {"none", "requested", "notRequested"}
      BY <1>1, <1>5, <2>3, <2>4
    <3> QED BY <1>6, <2>3, <3>1, SoundKept
  <2>9. e.rk = c.rk /\ e.wk = c.wk
    BY <1>5, <2>4
  <2> QED BY <2>2, <2>5, <2>6, <2>7, <2>8, <2>9, ServerWroteNone
<1> QED BY <1>7, <1>8, <1>9, <1>10, <1>11, <1>12, <1>13, <1>14, <1>15, <1>16, <1>17 DEF ServerFirst

\* The server when it has the second ClientHello.
LEMMA ServerRetriedWrites ==
    ASSUME NEW c, NEW ra, NEW wa, NEW n \in Nat, NEW ck, NEW e, NEW q, NEW q2, NEW p, NEW k \in Nat,
           opt \in OptionRecord, calls \in Nat, Sound(c, "server"), ReadsOn(c, p), c.flow = "WRITING",
           Writes(c, "server", ck, e, q, q2),
           ServerRetried(c, ra, wa)
    PROVE  ServerWrote(c, e, ra, wa, n, k, q, q2, p)
<1> USE Names
<1>1. DOMAIN c = Fields /\ ~c.reneg /\ c.keyUpdate \in {"none", "requested", "notRequested"}
  BY DEF Sound
<1>2. PICK t, x : t = WriteTransition(c, "server", ck) /\ x = Leaving(c, "server", ck)
  OBVIOUS
<1>3. c.v13 \/ (~c.v13 /\ c.st = "BEFORE")
  BY DEF ServerRetried
<1>4. /\ Same(c, x, {"pha"})
      /\ x.pha = (IF c.v13 /\ c.st = "SW_CERT_REQ" /\ c.pha = "requestPending" THEN "requested"
                   ELSE IF c.v13 /\ c.st = "SR_FINISHED" /\ c.pha = "requested" THEN "ext"
                   ELSE c.pha)
  BY <1>1, <1>2, <1>3, LeavesServer
<1>5. /\ x.flow = c.flow /\ x.inInit = c.inInit /\ x.v13 = c.v13 /\ x.finSent = c.finSent /\ x.finRead = c.finRead
      /\ x.hit = c.hit /\ x.hrr = c.hrr /\ x.early = c.early /\ x.ed = c.ed /\ x.certReq = c.certReq
      /\ x.peerCert = c.peerCert /\ x.keyUpdate = c.keyUpdate /\ x.rk = c.rk /\ x.wk = c.wk /\ x.tr = c.tr
      /\ x.hsTr = c.hsTr /\ x.sfTr = c.sfTr /\ x.phaTr = c.phaTr /\ x.reneg = c.reneg /\ x.st = c.st
      /\ x.sentTickets = c.sentTickets /\ x.extraTickets = c.extraTickets
  BY <1>4, FieldsAre DEF Same
<1>6. DOMAIN x = Fields /\ ~x.reneg /\ Sound(x, "server")
  <2>1. DOMAIN x = Fields /\ ~x.reneg /\ x.keyUpdate \in {"none", "requested", "notRequested"}
    BY <1>1, <1>4, <1>5 DEF Same
  <2> QED BY <1>4, <2>1, SoundKept
<1>7. CASE TRUE
  <2>1. t = "SW_SRVR_HELLO" /\ x.pha = c.pha
    BY <1>2, <1>4, <1>7, ServerTable13 DEF ServerRetried
  <2>2. e = Wrote(x, "server", "SW_SRVR_HELLO") /\ q2 = Append(q, Record(x, "server", "SW_SRVR_HELLO"))
    BY <1>2, <2>1, WritesMessage, MsgOfAre
  <2>3. PICK m : m = Record(x, "server", "SW_SRVR_HELLO")
    OBVIOUS
  <2>4. /\ x.v13 /\ x.hrr # "pending" /\ ~("server" \in opt.compat /\ x.hrr # "complete") /\ x.early = Fate /\ opt.hrr
        /\ x.pha = Ext /\ x.wk = NoKey /\ wa = "sh2" /\ x.tr = HelloTr /\ x.hit = opt.hit /\ x.rk = NoKey
    BY <1>5, <1>7, <2>1 DEF ServerRetried
  <2>5. /\ Same(x, e, {"st", "tr", "hsTr", "wk", "rk"})
        /\ e.st = "SW_SRVR_HELLO" /\ e.tr = Append(x.tr, "SH") /\ e.hsTr = Append(x.tr, "SH")
        /\ e.wk = <<"handshake", Append(x.tr, "SH"), 0>>
        /\ e.rk = (IF x.early = "accepted" THEN x.rk ELSE <<"handshake", Append(x.tr, "SH"), 0>>)
        /\ m.mt = "SH" /\ m.key = x.wk /\ m.hit = x.hit
        /\ ~m.hrr
    BY <1>6, <2>2, <2>3, <2>4, WroteServerHello
  <2>10. e.tr = HsTr /\ e.hsTr = HsTr /\ e.wk = KH /\ e.rk = WaitingKey /\ c.rk[3] = 0
    BY <1>7, <2>4, <2>5, <1>5, KeyCounts DEF HsTr, KH, WaitingKey, Fate, Offered, Accepted
  <2>12. /\ e.flow = x.flow /\ e.inInit = x.inInit /\ e.v13 = x.v13 /\ e.finSent = x.finSent /\ e.finRead = x.finRead
        /\ e.hit = x.hit /\ e.hrr = x.hrr /\ e.early = x.early /\ e.ed = x.ed /\ e.certReq = x.certReq
        /\ e.peerCert = x.peerCert /\ e.pha = x.pha /\ e.keyUpdate = x.keyUpdate /\ e.sfTr = x.sfTr /\ e.phaTr = x.phaTr
        /\ e.reneg = x.reneg /\ e.sentTickets = x.sentTickets /\ e.extraTickets = x.extraTickets
    BY <2>5, FieldsAre DEF Same
  <2>6. ServerStage(e, ra, "ee")
    <3>1. ServerWrites(e, ra, "ee")
      BY <1>5, <1>7, <2>1, <2>4, <2>5, <2>10, <2>12, KeyCounts DEF ServerRetried, ServerWrites, Server13, ServerAnswers
    <3> QED BY <3>1 DEF ServerStage
  <2>7. Asked(c) = 0 /\ Asked(e) = 0 /\ c.wk[3] = 0 /\ e.wk[3] = 0 /\ k - Asked(e) = k - Asked(c) /\ e.rk[3] = c.rk[3]
    BY <1>5, <1>7, <2>1, <2>4, <2>5, <2>10, <2>12, KeyCounts DEF Asked, ServerRetried
  <2>8. ToClient(At(wa, c.wk[3], n, k), m, At("ee", e.wk[3], n, k))
    BY <1>5, <2>4, <2>5, <2>7 DEF ToClient, At
  <2>9. Sound(e, "server") /\ e.st \notin {"OK", "EARLY_DATA"}
    <3>1. ~e.reneg /\ e.keyUpdate \in {"none", "requested", "notRequested"}
      BY <1>1, <1>5, <2>5, <2>12
    <3> QED BY <1>6, <2>5, <3>1, SoundKept
  <2> QED BY <2>2, <2>3, <2>6, <2>7, <2>8, <2>9, ServerWroteMessage
<1> QED BY <1>7 DEF ServerRetried

\* The flight of the server.
LEMMA ServerWritesWrites ==
    ASSUME NEW c, NEW ra, NEW wa, NEW n \in Nat, NEW ck, NEW e, NEW q, NEW q2, NEW p, NEW k \in Nat,
           opt \in OptionRecord, calls \in Nat, Sound(c, "server"), ReadsOn(c, p), c.flow = "WRITING",
           Writes(c, "server", ck, e, q, q2),
           ServerWrites(c, ra, wa)
    PROVE  ServerWrote(c, e, ra, wa, n, k, q, q2, p)
<1> USE Names
<1>1. DOMAIN c = Fields /\ ~c.reneg /\ c.keyUpdate \in {"none", "requested", "notRequested"}
  BY DEF Sound
<1>2. PICK t, x : t = WriteTransition(c, "server", ck) /\ x = Leaving(c, "server", ck)
  OBVIOUS
<1>3. c.v13 \/ (~c.v13 /\ c.st = "BEFORE")
  BY DEF ServerWrites, Server13
<1>4. /\ Same(c, x, {"pha"})
      /\ x.pha = (IF c.v13 /\ c.st = "SW_CERT_REQ" /\ c.pha = "requestPending" THEN "requested"
                   ELSE IF c.v13 /\ c.st = "SR_FINISHED" /\ c.pha = "requested" THEN "ext"
                   ELSE c.pha)
  BY <1>1, <1>2, <1>3, LeavesServer
<1>5. /\ x.flow = c.flow /\ x.inInit = c.inInit /\ x.v13 = c.v13 /\ x.finSent = c.finSent /\ x.finRead = c.finRead
      /\ x.hit = c.hit /\ x.hrr = c.hrr /\ x.early = c.early /\ x.ed = c.ed /\ x.certReq = c.certReq
      /\ x.peerCert = c.peerCert /\ x.keyUpdate = c.keyUpdate /\ x.rk = c.rk /\ x.wk = c.wk /\ x.tr = c.tr
      /\ x.hsTr = c.hsTr /\ x.sfTr = c.sfTr /\ x.phaTr = c.phaTr /\ x.reneg = c.reneg /\ x.st = c.st
      /\ x.sentTickets = c.sentTickets /\ x.extraTickets = c.extraTickets
  BY <1>4, FieldsAre DEF Same
<1>6. DOMAIN x = Fields /\ ~x.reneg /\ Sound(x, "server")
  <2>1. DOMAIN x = Fields /\ ~x.reneg /\ x.keyUpdate \in {"none", "requested", "notRequested"}
    BY <1>1, <1>4, <1>5 DEF Same
  <2> QED BY <1>4, <2>1, SoundKept
<1>7. CASE c.st = "SW_SRVR_HELLO"
  <2>1. t = "SW_ENCRYPTED_EXTENSIONS" /\ x.pha = c.pha
    BY <1>2, <1>4, <1>7, ServerTable13 DEF ServerWrites, Server13, ServerCompat
  <2>2. e = Wrote(x, "server", "SW_ENCRYPTED_EXTENSIONS") /\ q2 = Append(q, Record(x, "server", "SW_ENCRYPTED_EXTENSIONS"))
    BY <1>2, <2>1, WritesMessage, MsgOfAre
  <2>3. PICK m : m = Record(x, "server", "SW_ENCRYPTED_EXTENSIONS")
    OBVIOUS
  <2>4. x.v13 /\ x.pha = Ext /\ x.wk = KH /\ wa = "ee" /\ x.tr = HsTr /\ x.early = Fate
    BY <1>5, <1>7, <2>1 DEF ServerWrites, Server13
  <2>5. /\ Same(x, e, {"st", "tr"})
        /\ e.st = "SW_ENCRYPTED_EXTENSIONS" /\ e.tr = Append(x.tr, "EE")
        /\ m.mt = "EE" /\ m.key = x.wk
        /\ (m.early <=> x.early = "accepted")
    BY <1>6, <2>2, <2>3, <2>4, WroteExtensions
  <2>10. m.early <=> Accepted
    BY <1>7, <2>4, <2>5 DEF Fate, Offered
  <2>12. /\ e.flow = x.flow /\ e.inInit = x.inInit /\ e.v13 = x.v13 /\ e.finSent = x.finSent /\ e.finRead = x.finRead
        /\ e.hit = x.hit /\ e.hrr = x.hrr /\ e.early = x.early /\ e.ed = x.ed /\ e.certReq = x.certReq
        /\ e.peerCert = x.peerCert /\ e.pha = x.pha /\ e.keyUpdate = x.keyUpdate /\ e.rk = x.rk /\ e.wk = x.wk
        /\ e.hsTr = x.hsTr /\ e.sfTr = x.sfTr /\ e.phaTr = x.phaTr /\ e.reneg = x.reneg /\ e.sentTickets = x.sentTickets
        /\ e.extraTickets = x.extraTickets
    BY <2>5, FieldsAre DEF Same
  <2>6. ServerStage(e, ra, IF opt.hit THEN "fin" ELSE "cr")
    <3>1. ServerWrites(e, ra, IF opt.hit THEN "fin" ELSE "cr")
      BY <1>5, <1>7, <2>1, <2>4, <2>5, <2>10, <2>12, KeyCounts DEF ServerWrites, Server13, EeTr
    <3> QED BY <3>1 DEF ServerStage
  <2>7. Asked(c) = 0 /\ Asked(e) = 0 /\ c.wk[3] = 0 /\ e.wk[3] = 0 /\ k - Asked(e) = k - Asked(c) /\ e.rk[3] = c.rk[3]
    BY <1>5, <1>7, <2>1, <2>4, <2>5, <2>10, <2>12, KeyCounts DEF Asked, ServerWrites, Server13
  <2>8. ToClient(At(wa, c.wk[3], n, k), m, At(IF opt.hit THEN "fin" ELSE "cr", e.wk[3], n, k))
    BY <1>5, <1>7, <2>4, <2>5, <2>7, <2>10, <2>12 DEF ToClient, At, ServerWrites, Server13
  <2>9. Sound(e, "server") /\ e.st \notin {"OK", "EARLY_DATA"}
    <3>1. ~e.reneg /\ e.keyUpdate \in {"none", "requested", "notRequested"}
      BY <1>1, <1>5, <2>5, <2>12
    <3> QED BY <1>6, <2>5, <3>1, SoundKept
  <2> QED BY <2>2, <2>3, <2>6, <2>7, <2>8, <2>9, ServerWroteMessage
<1>8. CASE c.st = "SW_CHANGE"
  <2>1. t = "SW_ENCRYPTED_EXTENSIONS" /\ x.pha = c.pha
    BY <1>2, <1>4, <1>8, ServerTable13 DEF ServerWrites, Server13
  <2>2. e = Wrote(x, "server", "SW_ENCRYPTED_EXTENSIONS") /\ q2 = Append(q, Record(x, "server", "SW_ENCRYPTED_EXTENSIONS"))
    BY <1>2, <2>1, WritesMessage, MsgOfAre
  <2>3. PICK m : m = Record(x, "server", "SW_ENCRYPTED_EXTENSIONS")
    OBVIOUS
  <2>4. x.v13 /\ x.pha = Ext /\ x.wk = KH /\ wa = "ee" /\ x.tr = HsTr /\ x.early = Fate
    BY <1>5, <1>8, <2>1 DEF ServerWrites, Server13
  <2>5. /\ Same(x, e, {"st", "tr"})
        /\ e.st = "SW_ENCRYPTED_EXTENSIONS" /\ e.tr = Append(x.tr, "EE")
        /\ m.mt = "EE" /\ m.key = x.wk
        /\ (m.early <=> x.early = "accepted")
    BY <1>6, <2>2, <2>3, <2>4, WroteExtensions
  <2>10. m.early <=> Accepted
    BY <1>8, <2>4, <2>5 DEF Fate, Offered
  <2>12. /\ e.flow = x.flow /\ e.inInit = x.inInit /\ e.v13 = x.v13 /\ e.finSent = x.finSent /\ e.finRead = x.finRead
        /\ e.hit = x.hit /\ e.hrr = x.hrr /\ e.early = x.early /\ e.ed = x.ed /\ e.certReq = x.certReq
        /\ e.peerCert = x.peerCert /\ e.pha = x.pha /\ e.keyUpdate = x.keyUpdate /\ e.rk = x.rk /\ e.wk = x.wk
        /\ e.hsTr = x.hsTr /\ e.sfTr = x.sfTr /\ e.phaTr = x.phaTr /\ e.reneg = x.reneg /\ e.sentTickets = x.sentTickets
        /\ e.extraTickets = x.extraTickets
    BY <2>5, FieldsAre DEF Same
  <2>6. ServerStage(e, ra, IF opt.hit THEN "fin" ELSE "cr")
    <3>1. ServerWrites(e, ra, IF opt.hit THEN "fin" ELSE "cr")
      BY <1>5, <1>8, <2>1, <2>4, <2>5, <2>10, <2>12, KeyCounts DEF ServerWrites, Server13, EeTr
    <3> QED BY <3>1 DEF ServerStage
  <2>7. Asked(c) = 0 /\ Asked(e) = 0 /\ c.wk[3] = 0 /\ e.wk[3] = 0 /\ k - Asked(e) = k - Asked(c) /\ e.rk[3] = c.rk[3]
    BY <1>5, <1>8, <2>1, <2>4, <2>5, <2>10, <2>12, KeyCounts DEF Asked, ServerWrites, Server13
  <2>8. ToClient(At(wa, c.wk[3], n, k), m, At(IF opt.hit THEN "fin" ELSE "cr", e.wk[3], n, k))
    BY <1>5, <1>8, <2>4, <2>5, <2>7, <2>10, <2>12 DEF ToClient, At, ServerWrites, Server13
  <2>9. Sound(e, "server") /\ e.st \notin {"OK", "EARLY_DATA"}
    <3>1. ~e.reneg /\ e.keyUpdate \in {"none", "requested", "notRequested"}
      BY <1>1, <1>5, <2>5, <2>12
    <3> QED BY <1>6, <2>5, <3>1, SoundKept
  <2> QED BY <2>2, <2>3, <2>6, <2>7, <2>8, <2>9, ServerWroteMessage
<1>9. CASE c.st = "SW_ENCRYPTED_EXTENSIONS" /\ opt.hit
  <2>1. t = "SW_FINISHED" /\ x.pha = c.pha
    BY <1>2, <1>4, <1>9, ServerTable13 DEF ServerWrites, Server13
  <2>2. e = Wrote(x, "server", "SW_FINISHED") /\ q2 = Append(q, Record(x, "server", "SW_FINISHED"))
    BY <1>2, <2>1, WritesMessage, MsgOfAre
  <2>3. PICK m : m = Record(x, "server", "SW_FINISHED")
    OBVIOUS
  <2>4. /\ x.v13 /\ x.pha = Ext /\ x.wk = KH /\ wa = "fin" /\ x.tr = ServerTr /\ ra = "early"
        /\ x.certReq = (IF Asks THEN "sent" ELSE "none")
    BY <1>5, <1>9, <2>1 DEF ServerWrites, Server13, ServerTr, Asks
  <2>5. /\ Same(x, e, {"st", "finSent", "tr", "sfTr", "wk"})
        /\ e.st = "SW_FINISHED" /\ e.finSent /\ e.tr = Append(x.tr, "FIN") /\ e.sfTr = Append(x.tr, "FIN")
        /\ e.wk = <<"app", Append(x.tr, "FIN"), 0>>
        /\ m.mt = "FIN" /\ m.key = x.wk /\ m.digest = x.tr
    BY <1>6, <2>2, <2>3, <2>4, WroteServerFinished
  <2>10. e.tr = SfTr /\ e.sfTr = SfTr /\ e.wk = KA(0)
    BY <1>9, <2>4, <2>5 DEF SfTr, KA
  <2>12. /\ e.flow = x.flow /\ e.inInit = x.inInit /\ e.v13 = x.v13 /\ e.finRead = x.finRead /\ e.hit = x.hit
        /\ e.hrr = x.hrr /\ e.early = x.early /\ e.ed = x.ed /\ e.certReq = x.certReq /\ e.peerCert = x.peerCert
        /\ e.pha = x.pha /\ e.keyUpdate = x.keyUpdate /\ e.rk = x.rk /\ e.hsTr = x.hsTr /\ e.phaTr = x.phaTr
        /\ e.reneg = x.reneg /\ e.sentTickets = x.sentTickets /\ e.extraTickets = x.extraTickets
    BY <2>5, FieldsAre DEF Same
  <2>6. ServerStage(e, ra, "ok")
    <3>1. Server13(e) /\ e.finSent /\ e.rk = WaitingKey /\ e.ed = ServerAnswers /\ e.flow = "WRITING"
      BY <1>5, <2>1, <2>5, <2>12 DEF ServerWrites, Server13
    <3>2. e.certReq = (IF Asks THEN "sent" ELSE "none") /\ ra = "early"
      BY <2>4, <2>12
    <3>3. ServerReads(e, ra, "ok")
      BY <2>5, <2>10, <3>1, <3>2 DEF ServerReads
    <3> QED BY <3>3 DEF ServerStage
  <2>7. Asked(c) = 0 /\ Asked(e) = 0 /\ c.wk[3] = 0 /\ e.wk[3] = 0 /\ k - Asked(e) = k - Asked(c) /\ e.rk[3] = c.rk[3]
    BY <1>5, <1>9, <2>1, <2>4, <2>5, <2>10, <2>12, KeyCounts DEF Asked, ServerWrites, Server13
  <2>8. ToClient(At(wa, c.wk[3], n, k), m, At("ok", e.wk[3], n, k))
    BY <1>5, <1>9, <2>4, <2>5, <2>7, <2>10, <2>12 DEF ToClient, At, ServerWrites, Server13
  <2>9. Sound(e, "server") /\ e.st \notin {"OK", "EARLY_DATA"}
    <3>1. ~e.reneg /\ e.keyUpdate \in {"none", "requested", "notRequested"}
      BY <1>1, <1>5, <2>5, <2>12
    <3> QED BY <1>6, <2>5, <3>1, SoundKept
  <2> QED BY <2>2, <2>3, <2>6, <2>7, <2>8, <2>9, ServerWroteMessage
<1>10. CASE c.st = "SW_ENCRYPTED_EXTENSIONS" /\ ~opt.hit /\ opt.request
  <2>1. t = "SW_CERT_REQ" /\ x.pha = c.pha
    BY <1>2, <1>4, <1>10, ServerTable13 DEF ServerWrites, Server13
  <2>2. e = Wrote(x, "server", "SW_CERT_REQ") /\ q2 = Append(q, Record(x, "server", "SW_CERT_REQ"))
    BY <1>2, <2>1, WritesMessage, MsgOfAre
  <2>3. PICK m : m = Record(x, "server", "SW_CERT_REQ")
    OBVIOUS
  <2>4. x.v13 /\ x.pha = Ext /\ x.wk = KH /\ wa = "cr" /\ x.tr = EeTr
    BY <1>5, <1>10, <2>1 DEF ServerWrites, Server13
  <2>5. /\ Same(x, e, {"st", "tr", "certReq"})
        /\ e.st = "SW_CERT_REQ" /\ e.certReq = "sent"
        /\ e.tr = Append(IF x.pha = "requestPending" THEN x.phaTr ELSE x.tr, "CR")
        /\ m.mt = "CR" /\ m.key = x.wk
    BY <1>6, <2>2, <2>3, <2>4, WroteCertReq
  <2>12. /\ e.flow = x.flow /\ e.inInit = x.inInit /\ e.v13 = x.v13 /\ e.finSent = x.finSent /\ e.finRead = x.finRead
        /\ e.hit = x.hit /\ e.hrr = x.hrr /\ e.early = x.early /\ e.ed = x.ed /\ e.peerCert = x.peerCert
        /\ e.pha = x.pha /\ e.keyUpdate = x.keyUpdate /\ e.rk = x.rk /\ e.wk = x.wk /\ e.hsTr = x.hsTr
        /\ e.sfTr = x.sfTr /\ e.phaTr = x.phaTr /\ e.reneg = x.reneg /\ e.sentTickets = x.sentTickets /\ e.extraTickets = x.extraTickets
    BY <2>5, FieldsAre DEF Same
  <2>6. ServerStage(e, ra, "cert")
    <3>1. ServerWrites(e, ra, "cert")
      BY <1>5, <1>10, <2>1, <2>4, <2>5, <2>12, KeyCounts DEF ServerWrites, Server13, ReqTr
    <3> QED BY <3>1 DEF ServerStage
  <2>7. Asked(c) = 0 /\ Asked(e) = 0 /\ c.wk[3] = 0 /\ e.wk[3] = 0 /\ k - Asked(e) = k - Asked(c) /\ e.rk[3] = c.rk[3]
    BY <1>5, <1>10, <2>1, <2>4, <2>5, <2>12, KeyCounts DEF Asked, ServerWrites, Server13
  <2>8. ToClient(At(wa, c.wk[3], n, k), m, At("cert", e.wk[3], n, k))
    BY <1>5, <1>10, <2>4, <2>5, <2>7, <2>12 DEF ToClient, At, ServerWrites, Server13
  <2>9. Sound(e, "server") /\ e.st \notin {"OK", "EARLY_DATA"}
    <3>1. ~e.reneg /\ e.keyUpdate \in {"none", "requested", "notRequested"}
      BY <1>1, <1>5, <2>5, <2>12
    <3> QED BY <1>6, <2>5, <3>1, SoundKept
  <2> QED BY <2>2, <2>3, <2>6, <2>7, <2>8, <2>9, ServerWroteMessage
<1>11. CASE c.st = "SW_ENCRYPTED_EXTENSIONS" /\ ~opt.hit /\ ~opt.request
  <2>1. t = "SW_CERT" /\ x.pha = c.pha
    BY <1>2, <1>4, <1>11, ServerTable13 DEF ServerWrites, Server13
  <2>2. e = Wrote(x, "server", "SW_CERT") /\ q2 = Append(q, Record(x, "server", "SW_CERT"))
    BY <1>2, <2>1, WritesMessage, MsgOfAre
  <2>3. PICK m : m = Record(x, "server", "SW_CERT")
    OBVIOUS
  <2>4. x.v13 /\ x.pha = Ext /\ x.wk = KH /\ wa = "cr" /\ x.tr = ReqTr
    BY <1>5, <1>11, <2>1 DEF ServerWrites, Server13, ReqTr
  <2>5. /\ Same(x, e, {"st", "tr"})
        /\ e.st = "SW_CERT" /\ e.tr = Append(x.tr, "CERT")
        /\ m.mt = "CERT" /\ m.key = x.wk
    BY <1>6, <2>2, <2>3, <2>4, WroteServerCert
  <2>12. /\ e.flow = x.flow /\ e.inInit = x.inInit /\ e.v13 = x.v13 /\ e.finSent = x.finSent /\ e.finRead = x.finRead
        /\ e.hit = x.hit /\ e.hrr = x.hrr /\ e.early = x.early /\ e.ed = x.ed /\ e.certReq = x.certReq
        /\ e.peerCert = x.peerCert /\ e.pha = x.pha /\ e.keyUpdate = x.keyUpdate /\ e.rk = x.rk /\ e.wk = x.wk
        /\ e.hsTr = x.hsTr /\ e.sfTr = x.sfTr /\ e.phaTr = x.phaTr /\ e.reneg = x.reneg /\ e.sentTickets = x.sentTickets
        /\ e.extraTickets = x.extraTickets
    BY <2>5, FieldsAre DEF Same
  <2>6. ServerStage(e, ra, "cv")
    <3>1. ServerWrites(e, ra, "cv")
      BY <1>5, <1>11, <2>1, <2>4, <2>5, <2>12, KeyCounts DEF ServerWrites, Server13, ServerCertTr
    <3> QED BY <3>1 DEF ServerStage
  <2>7. Asked(c) = 0 /\ Asked(e) = 0 /\ c.wk[3] = 0 /\ e.wk[3] = 0 /\ k - Asked(e) = k - Asked(c) /\ e.rk[3] = c.rk[3]
    BY <1>5, <1>11, <2>1, <2>4, <2>5, <2>12, KeyCounts DEF Asked, ServerWrites, Server13
  <2>8. ToClient(At(wa, c.wk[3], n, k), m, At("cv", e.wk[3], n, k))
    BY <1>5, <1>11, <2>4, <2>5, <2>7, <2>12 DEF ToClient, At, ServerWrites, Server13
  <2>9. Sound(e, "server") /\ e.st \notin {"OK", "EARLY_DATA"}
    <3>1. ~e.reneg /\ e.keyUpdate \in {"none", "requested", "notRequested"}
      BY <1>1, <1>5, <2>5, <2>12
    <3> QED BY <1>6, <2>5, <3>1, SoundKept
  <2> QED BY <2>2, <2>3, <2>6, <2>7, <2>8, <2>9, ServerWroteMessage
<1>12. CASE c.st = "SW_CERT_REQ"
  <2>1. t = "SW_CERT" /\ x.pha = c.pha
    BY <1>2, <1>4, <1>12, ServerTable13 DEF ServerWrites, Server13
  <2>2. e = Wrote(x, "server", "SW_CERT") /\ q2 = Append(q, Record(x, "server", "SW_CERT"))
    BY <1>2, <2>1, WritesMessage, MsgOfAre
  <2>3. PICK m : m = Record(x, "server", "SW_CERT")
    OBVIOUS
  <2>4. x.v13 /\ x.pha = Ext /\ x.wk = KH /\ wa = "cert" /\ x.tr = ReqTr /\ opt.request
    BY <1>5, <1>12, <2>1 DEF ServerWrites, Server13
  <2>5. /\ Same(x, e, {"st", "tr"})
        /\ e.st = "SW_CERT" /\ e.tr = Append(x.tr, "CERT")
        /\ m.mt = "CERT" /\ m.key = x.wk
    BY <1>6, <2>2, <2>3, <2>4, WroteServerCert
  <2>12. /\ e.flow = x.flow /\ e.inInit = x.inInit /\ e.v13 = x.v13 /\ e.finSent = x.finSent /\ e.finRead = x.finRead
        /\ e.hit = x.hit /\ e.hrr = x.hrr /\ e.early = x.early /\ e.ed = x.ed /\ e.certReq = x.certReq
        /\ e.peerCert = x.peerCert /\ e.pha = x.pha /\ e.keyUpdate = x.keyUpdate /\ e.rk = x.rk /\ e.wk = x.wk
        /\ e.hsTr = x.hsTr /\ e.sfTr = x.sfTr /\ e.phaTr = x.phaTr /\ e.reneg = x.reneg /\ e.sentTickets = x.sentTickets
        /\ e.extraTickets = x.extraTickets
    BY <2>5, FieldsAre DEF Same
  <2>6. ServerStage(e, ra, "cv")
    <3>1. ServerWrites(e, ra, "cv")
      BY <1>5, <1>12, <2>1, <2>4, <2>5, <2>12, KeyCounts DEF ServerWrites, Server13, ServerCertTr
    <3> QED BY <3>1 DEF ServerStage
  <2>7. Asked(c) = 0 /\ Asked(e) = 0 /\ c.wk[3] = 0 /\ e.wk[3] = 0 /\ k - Asked(e) = k - Asked(c) /\ e.rk[3] = c.rk[3]
    BY <1>5, <1>12, <2>1, <2>4, <2>5, <2>12, KeyCounts DEF Asked, ServerWrites, Server13
  <2>8. ToClient(At(wa, c.wk[3], n, k), m, At("cv", e.wk[3], n, k))
    BY <1>5, <1>12, <2>4, <2>5, <2>7, <2>12 DEF ToClient, At, ServerWrites, Server13
  <2>9. Sound(e, "server") /\ e.st \notin {"OK", "EARLY_DATA"}
    <3>1. ~e.reneg /\ e.keyUpdate \in {"none", "requested", "notRequested"}
      BY <1>1, <1>5, <2>5, <2>12
    <3> QED BY <1>6, <2>5, <3>1, SoundKept
  <2> QED BY <2>2, <2>3, <2>6, <2>7, <2>8, <2>9, ServerWroteMessage
<1>13. CASE c.st = "SW_CERT"
  <2>1. t = "SW_CERT_VRFY" /\ x.pha = c.pha
    BY <1>2, <1>4, <1>13, ServerTable13 DEF ServerWrites, Server13
  <2>2. e = Wrote(x, "server", "SW_CERT_VRFY") /\ q2 = Append(q, Record(x, "server", "SW_CERT_VRFY"))
    BY <1>2, <2>1, WritesMessage, MsgOfAre
  <2>3. PICK m : m = Record(x, "server", "SW_CERT_VRFY")
    OBVIOUS
  <2>4. x.v13 /\ x.pha = Ext /\ x.wk = KH /\ wa = "cv" /\ x.tr = ServerCertTr
    BY <1>5, <1>13, <2>1 DEF ServerWrites, Server13
  <2>5. /\ Same(x, e, {"st", "tr"})
        /\ e.st = "SW_CERT_VRFY" /\ e.tr = Append(x.tr, "CV")
        /\ m.mt = "CV" /\ m.key = x.wk
    BY <1>6, <2>2, <2>3, <2>4, WroteServerVerify
  <2>12. /\ e.flow = x.flow /\ e.inInit = x.inInit /\ e.v13 = x.v13 /\ e.finSent = x.finSent /\ e.finRead = x.finRead
        /\ e.hit = x.hit /\ e.hrr = x.hrr /\ e.early = x.early /\ e.ed = x.ed /\ e.certReq = x.certReq
        /\ e.peerCert = x.peerCert /\ e.pha = x.pha /\ e.keyUpdate = x.keyUpdate /\ e.rk = x.rk /\ e.wk = x.wk
        /\ e.hsTr = x.hsTr /\ e.sfTr = x.sfTr /\ e.phaTr = x.phaTr /\ e.reneg = x.reneg /\ e.sentTickets = x.sentTickets
        /\ e.extraTickets = x.extraTickets
    BY <2>5, FieldsAre DEF Same
  <2>6. ServerStage(e, ra, "fin")
    <3>1. ServerWrites(e, ra, "fin")
      BY <1>5, <1>13, <2>1, <2>4, <2>5, <2>12, KeyCounts DEF ServerWrites, Server13, ServerVerifyTr
    <3> QED BY <3>1 DEF ServerStage
  <2>7. Asked(c) = 0 /\ Asked(e) = 0 /\ c.wk[3] = 0 /\ e.wk[3] = 0 /\ k - Asked(e) = k - Asked(c) /\ e.rk[3] = c.rk[3]
    BY <1>5, <1>13, <2>1, <2>4, <2>5, <2>12, KeyCounts DEF Asked, ServerWrites, Server13
  <2>8. ToClient(At(wa, c.wk[3], n, k), m, At("fin", e.wk[3], n, k))
    BY <1>5, <1>13, <2>4, <2>5, <2>7, <2>12 DEF ToClient, At, ServerWrites, Server13
  <2>9. Sound(e, "server") /\ e.st \notin {"OK", "EARLY_DATA"}
    <3>1. ~e.reneg /\ e.keyUpdate \in {"none", "requested", "notRequested"}
      BY <1>1, <1>5, <2>5, <2>12
    <3> QED BY <1>6, <2>5, <3>1, SoundKept
  <2> QED BY <2>2, <2>3, <2>6, <2>7, <2>8, <2>9, ServerWroteMessage
<1>14. CASE c.st = "SW_CERT_VRFY"
  <2>1. t = "SW_FINISHED" /\ x.pha = c.pha
    BY <1>2, <1>4, <1>14, ServerTable13 DEF ServerWrites, Server13
  <2>2. e = Wrote(x, "server", "SW_FINISHED") /\ q2 = Append(q, Record(x, "server", "SW_FINISHED"))
    BY <1>2, <2>1, WritesMessage, MsgOfAre
  <2>3. PICK m : m = Record(x, "server", "SW_FINISHED")
    OBVIOUS
  <2>4. /\ x.v13 /\ x.pha = Ext /\ x.wk = KH /\ wa = "fin" /\ x.tr = ServerTr /\ ra = "early"
        /\ x.certReq = (IF Asks THEN "sent" ELSE "none")
    BY <1>5, <1>14, <2>1 DEF ServerWrites, Server13, ServerTr, Asks
  <2>5. /\ Same(x, e, {"st", "finSent", "tr", "sfTr", "wk"})
        /\ e.st = "SW_FINISHED" /\ e.finSent /\ e.tr = Append(x.tr, "FIN") /\ e.sfTr = Append(x.tr, "FIN")
        /\ e.wk = <<"app", Append(x.tr, "FIN"), 0>>
        /\ m.mt = "FIN" /\ m.key = x.wk /\ m.digest = x.tr
    BY <1>6, <2>2, <2>3, <2>4, WroteServerFinished
  <2>10. e.tr = SfTr /\ e.sfTr = SfTr /\ e.wk = KA(0)
    BY <1>14, <2>4, <2>5 DEF SfTr, KA
  <2>12. /\ e.flow = x.flow /\ e.inInit = x.inInit /\ e.v13 = x.v13 /\ e.finRead = x.finRead /\ e.hit = x.hit
        /\ e.hrr = x.hrr /\ e.early = x.early /\ e.ed = x.ed /\ e.certReq = x.certReq /\ e.peerCert = x.peerCert
        /\ e.pha = x.pha /\ e.keyUpdate = x.keyUpdate /\ e.rk = x.rk /\ e.hsTr = x.hsTr /\ e.phaTr = x.phaTr
        /\ e.reneg = x.reneg /\ e.sentTickets = x.sentTickets /\ e.extraTickets = x.extraTickets
    BY <2>5, FieldsAre DEF Same
  <2>6. ServerStage(e, ra, "ok")
    <3>1. Server13(e) /\ e.finSent /\ e.rk = WaitingKey /\ e.ed = ServerAnswers /\ e.flow = "WRITING"
      BY <1>5, <2>1, <2>5, <2>12 DEF ServerWrites, Server13
    <3>2. e.certReq = (IF Asks THEN "sent" ELSE "none") /\ ra = "early"
      BY <2>4, <2>12
    <3>3. ServerReads(e, ra, "ok")
      BY <2>5, <2>10, <3>1, <3>2 DEF ServerReads
    <3> QED BY <3>3 DEF ServerStage
  <2>7. Asked(c) = 0 /\ Asked(e) = 0 /\ c.wk[3] = 0 /\ e.wk[3] = 0 /\ k - Asked(e) = k - Asked(c) /\ e.rk[3] = c.rk[3]
    BY <1>5, <1>14, <2>1, <2>4, <2>5, <2>10, <2>12, KeyCounts DEF Asked, ServerWrites, Server13
  <2>8. ToClient(At(wa, c.wk[3], n, k), m, At("ok", e.wk[3], n, k))
    BY <1>5, <1>14, <2>4, <2>5, <2>7, <2>10, <2>12 DEF ToClient, At, ServerWrites, Server13
  <2>9. Sound(e, "server") /\ e.st \notin {"OK", "EARLY_DATA"}
    <3>1. ~e.reneg /\ e.keyUpdate \in {"none", "requested", "notRequested"}
      BY <1>1, <1>5, <2>5, <2>12
    <3> QED BY <1>6, <2>5, <3>1, SoundKept
  <2> QED BY <2>2, <2>3, <2>6, <2>7, <2>8, <2>9, ServerWroteMessage
<1> QED BY <1>7, <1>8, <1>9, <1>10, <1>11, <1>12, <1>13, <1>14 DEF ServerWrites, Server13

\* The server when it has sent its Finished.
LEMMA ServerReadsWrites ==
    ASSUME NEW c, NEW ra, NEW wa, NEW n \in Nat, NEW ck, NEW e, NEW q, NEW q2, NEW p, NEW k \in Nat,
           opt \in OptionRecord, calls \in Nat, Sound(c, "server"), ReadsOn(c, p), c.flow = "WRITING",
           Writes(c, "server", ck, e, q, q2),
           ServerReads(c, ra, wa)
    PROVE  ServerWrote(c, e, ra, wa, n, k, q, q2, p)
<1> USE Names
<1>1. DOMAIN c = Fields /\ ~c.reneg /\ c.keyUpdate \in {"none", "requested", "notRequested"}
  BY DEF Sound
<1>2. PICK t, x : t = WriteTransition(c, "server", ck) /\ x = Leaving(c, "server", ck)
  OBVIOUS
<1>3. c.v13 \/ (~c.v13 /\ c.st = "BEFORE")
  BY DEF ServerReads, Server13
<1>4. /\ Same(c, x, {"pha"})
      /\ x.pha = (IF c.v13 /\ c.st = "SW_CERT_REQ" /\ c.pha = "requestPending" THEN "requested"
                   ELSE IF c.v13 /\ c.st = "SR_FINISHED" /\ c.pha = "requested" THEN "ext"
                   ELSE c.pha)
  BY <1>1, <1>2, <1>3, LeavesServer
<1>5. /\ x.flow = c.flow /\ x.inInit = c.inInit /\ x.v13 = c.v13 /\ x.finSent = c.finSent /\ x.finRead = c.finRead
      /\ x.hit = c.hit /\ x.hrr = c.hrr /\ x.early = c.early /\ x.ed = c.ed /\ x.certReq = c.certReq
      /\ x.peerCert = c.peerCert /\ x.keyUpdate = c.keyUpdate /\ x.rk = c.rk /\ x.wk = c.wk /\ x.tr = c.tr
      /\ x.hsTr = c.hsTr /\ x.sfTr = c.sfTr /\ x.phaTr = c.phaTr /\ x.reneg = c.reneg /\ x.st = c.st
      /\ x.sentTickets = c.sentTickets /\ x.extraTickets = c.extraTickets
  BY <1>4, FieldsAre DEF Same
<1>6. DOMAIN x = Fields /\ ~x.reneg /\ Sound(x, "server")
  <2>1. DOMAIN x = Fields /\ ~x.reneg /\ x.keyUpdate \in {"none", "requested", "notRequested"}
    BY <1>1, <1>4, <1>5 DEF Same
  <2> QED BY <1>4, <2>1, SoundKept
<1>7. CASE c.st = "SW_FINISHED" /\ c.ed = "accepting"
  <2>1. t = "EARLY_DATA" /\ x.pha = c.pha
    BY <1>2, <1>4, <1>7, ServerTable13 DEF ServerReads, Server13
  <2>2. e = Stopped(x, "server", "EARLY_DATA") /\ q2 = q
    <3>1. Stops(x, "server", t)
      BY <1>5, <1>7, <2>1 DEF Stops, ServerReads, Server13
    <3> QED BY <1>2, <2>1, <3>1, WritesNone
  <2>3. Same(x, e, {"st", "flow", "inInit", "reneg", "newSession", "cleanup", "ticket"}) /\ e.st = "EARLY_DATA" /\ e.flow = "FINISHED" /\ ~e.inInit /\ ~e.reneg
    BY <1>6, <2>2, StoppedServer
  <2>4. /\ e.v13 = x.v13 /\ e.finSent = x.finSent /\ e.finRead = x.finRead /\ e.hit = x.hit /\ e.hrr = x.hrr
        /\ e.early = x.early /\ e.ed = x.ed /\ e.certReq = x.certReq /\ e.peerCert = x.peerCert /\ e.pha = x.pha
        /\ e.keyUpdate = x.keyUpdate /\ e.rk = x.rk /\ e.wk = x.wk /\ e.tr = x.tr /\ e.hsTr = x.hsTr
        /\ e.sfTr = x.sfTr /\ e.phaTr = x.phaTr /\ e.sentTickets = x.sentTickets /\ e.extraTickets = x.extraTickets
    BY <2>3, FieldsAre DEF Same
  <2>5. ServerStage(e, ra, wa)
    <3>1. ServerReads(e, ra, wa)
      BY <1>5, <1>7, <2>1, <2>3, <2>4 DEF ServerReads, Server13, ServerAnswers, ServerStarts, ReadEarly
    <3> QED BY <3>1 DEF ServerStage
  <2>6. Asked(e) = Asked(c)
    BY <1>5, <1>7, <2>1, <2>3, <2>4 DEF Asked, ServerReads, Server13
  <2>7. ReadsOn(e, p)
    BY <1>5, <1>7, <2>1, <2>3, <2>4 DEF ReadsOn, ServerReads, Server13
  <2>8. Sound(e, "server")
    <3>1. ~e.reneg /\ e.keyUpdate \in {"none", "requested", "notRequested"}
      BY <1>1, <1>5, <2>3, <2>4
    <3> QED BY <1>6, <2>3, <3>1, SoundKept
  <2>9. e.rk = c.rk /\ e.wk = c.wk
    BY <1>5, <2>4
  <2> QED BY <2>2, <2>5, <2>6, <2>7, <2>8, <2>9, ServerWroteNone
<1>8. CASE c.st = "SW_FINISHED" /\ c.ed # "accepting"
  <2>1. t = "EARLY_DATA" /\ x.pha = c.pha
    BY <1>2, <1>4, <1>8, ServerTable13 DEF ServerReads, Server13
  <2>2. e = [x EXCEPT !.st = "EARLY_DATA"] /\ q2 = q
    <3>1. ~Stops(x, "server", t)
      BY <1>5, <1>8, <2>1 DEF Stops, ServerReads, Server13
    <3> QED BY <1>2, <2>1, <3>1, WritesNone
  <2>3. Same(x, e, {"st"}) /\ e.st = "EARLY_DATA" /\ ~e.reneg
    BY <1>6, <2>2, FieldsAre DEF Same
  <2>4. /\ e.flow = x.flow /\ e.inInit = x.inInit /\ e.v13 = x.v13 /\ e.finSent = x.finSent /\ e.finRead = x.finRead
        /\ e.hit = x.hit /\ e.hrr = x.hrr /\ e.early = x.early /\ e.ed = x.ed /\ e.certReq = x.certReq
        /\ e.peerCert = x.peerCert /\ e.pha = x.pha /\ e.keyUpdate = x.keyUpdate /\ e.rk = x.rk /\ e.wk = x.wk
        /\ e.tr = x.tr /\ e.hsTr = x.hsTr /\ e.sfTr = x.sfTr /\ e.phaTr = x.phaTr /\ e.reneg = x.reneg
        /\ e.sentTickets = x.sentTickets /\ e.extraTickets = x.extraTickets
    BY <2>3, FieldsAre DEF Same
  <2>5. ServerStage(e, ra, wa)
    <3>1. ServerReads(e, ra, wa)
      BY <1>5, <1>8, <2>1, <2>3, <2>4 DEF ServerReads, Server13, ServerAnswers, ServerStarts, ReadEarly, Accepted
    <3> QED BY <3>1 DEF ServerStage
  <2>6. Asked(e) = Asked(c)
    BY <1>5, <1>8, <2>1, <2>3, <2>4 DEF Asked, ServerReads, Server13
  <2>7. ReadsOn(e, p)
    BY <1>5, <1>8, <2>1, <2>3, <2>4 DEF ReadsOn, ServerReads, Server13, ServerAnswers, ServerStarts, ReadEarly
  <2>8. Sound(e, "server")
    <3>1. ~e.reneg /\ e.keyUpdate \in {"none", "requested", "notRequested"}
      BY <1>1, <1>5, <2>3, <2>4
    <3> QED BY <1>6, <2>3, <3>1, SoundKept
  <2>9. e.rk = c.rk /\ e.wk = c.wk
    BY <1>5, <2>4
  <2> QED BY <2>2, <2>5, <2>6, <2>7, <2>8, <2>9, ServerWroteNone
<1>9. CASE c.st = "EARLY_DATA"
  <2>1. t = "READ" /\ x.pha = c.pha
    BY <1>2, <1>4, <1>9, ServerTable13 DEF ServerReads, Server13
  <2>2. e = [x EXCEPT !.flow = "READING"] /\ q2 = q
    BY <1>2, <2>1, WritesNone
  <2>3. Same(x, e, {"flow"}) /\ e.flow = "READING" /\ ~e.reneg
    BY <1>6, <2>2, FieldsAre DEF Same
  <2>4. /\ e.inInit = x.inInit /\ e.v13 = x.v13 /\ e.finSent = x.finSent /\ e.finRead = x.finRead /\ e.hit = x.hit
        /\ e.hrr = x.hrr /\ e.early = x.early /\ e.ed = x.ed /\ e.certReq = x.certReq /\ e.peerCert = x.peerCert
        /\ e.pha = x.pha /\ e.keyUpdate = x.keyUpdate /\ e.rk = x.rk /\ e.wk = x.wk /\ e.tr = x.tr
        /\ e.hsTr = x.hsTr /\ e.sfTr = x.sfTr /\ e.phaTr = x.phaTr /\ e.reneg = x.reneg /\ e.st = x.st
        /\ e.sentTickets = x.sentTickets /\ e.extraTickets = x.extraTickets
    BY <2>3, FieldsAre DEF Same
  <2>5. ServerStage(e, ra, wa)
    <3>1. ServerReads(e, ra, wa)
      BY <1>5, <1>9, <2>1, <2>3, <2>4 DEF ServerReads, Server13
    <3> QED BY <3>1 DEF ServerStage
  <2>6. Asked(e) = Asked(c)
    BY <1>5, <1>9, <2>1, <2>3, <2>4 DEF Asked, ServerReads, Server13
  <2>7. ReadsOn(e, p)
    BY <1>5, <1>9, <2>1, <2>3, <2>4 DEF ReadsOn, ServerReads, Server13
  <2>8. Sound(e, "server")
    <3>1. ~e.reneg /\ e.keyUpdate \in {"none", "requested", "notRequested"}
      BY <1>1, <1>5, <2>3, <2>4
    <3> QED BY <1>6, <2>3, <3>1, SoundKept
  <2>9. e.rk = c.rk /\ e.wk = c.wk
    BY <1>5, <2>4
  <2> QED BY <2>2, <2>5, <2>6, <2>7, <2>8, <2>9, ServerWroteNone
<1> QED BY <1>7, <1>8, <1>9 DEF ServerReads, Server13

\* The server after the client's Finished.
LEMMA ServerDoneWrites ==
    ASSUME NEW c, NEW ra, NEW wa, NEW n \in Nat, NEW ck, NEW e, NEW q, NEW q2, NEW p, NEW k \in Nat,
           opt \in OptionRecord, calls \in Nat, Sound(c, "server"), ReadsOn(c, p), c.flow = "WRITING",
           Writes(c, "server", ck, e, q, q2),
           ServerDone(c, ra, wa)
    PROVE  ServerWrote(c, e, ra, wa, n, k, q, q2, p)
<1> USE Names
<1>1. DOMAIN c = Fields /\ ~c.reneg /\ c.keyUpdate \in {"none", "requested", "notRequested"}
  BY DEF Sound
<1>2. PICK t, x : t = WriteTransition(c, "server", ck) /\ x = Leaving(c, "server", ck)
  OBVIOUS
<1>3. c.v13 \/ (~c.v13 /\ c.st = "BEFORE")
  BY DEF ServerDone
<1>4. /\ Same(c, x, {"pha"})
      /\ x.pha = (IF c.v13 /\ c.st = "SW_CERT_REQ" /\ c.pha = "requestPending" THEN "requested"
                   ELSE IF c.v13 /\ c.st = "SR_FINISHED" /\ c.pha = "requested" THEN "ext"
                   ELSE c.pha)
  BY <1>1, <1>2, <1>3, LeavesServer
<1>5. /\ x.flow = c.flow /\ x.inInit = c.inInit /\ x.v13 = c.v13 /\ x.finSent = c.finSent /\ x.finRead = c.finRead
      /\ x.hit = c.hit /\ x.hrr = c.hrr /\ x.early = c.early /\ x.ed = c.ed /\ x.certReq = c.certReq
      /\ x.peerCert = c.peerCert /\ x.keyUpdate = c.keyUpdate /\ x.rk = c.rk /\ x.wk = c.wk /\ x.tr = c.tr
      /\ x.hsTr = c.hsTr /\ x.sfTr = c.sfTr /\ x.phaTr = c.phaTr /\ x.reneg = c.reneg /\ x.st = c.st
      /\ x.sentTickets = c.sentTickets /\ x.extraTickets = c.extraTickets
  BY <1>4, FieldsAre DEF Same
<1>6. DOMAIN x = Fields /\ ~x.reneg /\ Sound(x, "server")
  <2>1. DOMAIN x = Fields /\ ~x.reneg /\ x.keyUpdate \in {"none", "requested", "notRequested"}
    BY <1>1, <1>4, <1>5 DEF Same
  <2> QED BY <1>4, <2>1, SoundKept
<1>7. CASE c.st = "OK" /\ c.keyUpdate # "none"
  <2>1. t = "SW_KEY_UPDATE" /\ x.pha = c.pha
    BY <1>2, <1>4, <1>7, ServerTable13 DEF ServerDone
  <2>2. e = Wrote(x, "server", "SW_KEY_UPDATE") /\ q2 = Append(q, Record(x, "server", "SW_KEY_UPDATE"))
    BY <1>2, <2>1, WritesMessage, MsgOfAre
  <2>3. PICK m : m = Record(x, "server", "SW_KEY_UPDATE")
    OBVIOUS
  <2>4. x.v13 /\ IsAppKey(x.wk) /\ wa = "ok"
    BY <1>5, <1>7, <2>1 DEF ServerDone
  <2>5. /\ Same(x, e, {"st", "keyUpdate", "wk"})
        /\ e.st = "SW_KEY_UPDATE" /\ e.keyUpdate = "none" /\ e.wk = UpdatedKey(x.wk)
        /\ m.mt = "KU" /\ m.key = x.wk
    BY <1>6, <2>2, <2>3, <2>4, WroteServerKeyUpdate
  <2>10. IsAppKey(e.wk) /\ x.wk = KA(x.wk[3]) /\ e.wk[3] = x.wk[3] + 1
    BY <1>7, <2>4, <2>5, KeyUpdates DEF Wrote
  <2>12. /\ e.flow = x.flow /\ e.inInit = x.inInit /\ e.v13 = x.v13 /\ e.finSent = x.finSent /\ e.finRead = x.finRead
        /\ e.hit = x.hit /\ e.hrr = x.hrr /\ e.early = x.early /\ e.ed = x.ed /\ e.certReq = x.certReq
        /\ e.peerCert = x.peerCert /\ e.pha = x.pha /\ e.rk = x.rk /\ e.tr = x.tr /\ e.hsTr = x.hsTr
        /\ e.sfTr = x.sfTr /\ e.phaTr = x.phaTr /\ e.reneg = x.reneg /\ e.sentTickets = x.sentTickets /\ e.extraTickets = x.extraTickets
    BY <2>5, FieldsAre DEF Same
  <2>6. ServerStage(e, ra, "ok")
    <3>1. ServerDone(e, ra, "ok")
      BY <1>5, <1>7, <2>1, <2>4, <2>5, <2>10, <2>12, KeyCounts DEF ServerDone, AboutToAsk
    <3> QED BY <3>1 DEF ServerStage
  <2>7. k - Asked(e) = k - Asked(c) /\ e.rk[3] = c.rk[3]
    BY <1>5, <1>7, <2>1, <2>4, <2>5, <2>10, <2>12, KeyCounts DEF Asked, ServerDone
  <2>8. ToClient(At(wa, c.wk[3], n, k), m, At("ok", e.wk[3], n, k))
    BY <1>5, <1>7, <2>4, <2>5, <2>7, <2>10, <2>12 DEF ToClient, At, ServerDone
  <2>9. Sound(e, "server") /\ e.st \notin {"OK", "EARLY_DATA"}
    <3>1. ~e.reneg /\ e.keyUpdate \in {"none", "requested", "notRequested"}
      BY <1>1, <1>5, <2>5, <2>12
    <3> QED BY <1>6, <2>5, <3>1, SoundKept
  <2> QED BY <2>2, <2>3, <2>6, <2>7, <2>8, <2>9, ServerWroteMessage
<1>8. CASE c.st = "OK" /\ c.keyUpdate = "none" /\ c.pha = "requestPending"
  <2>1. t = "SW_CERT_REQ" /\ x.pha = c.pha
    BY <1>2, <1>4, <1>8, ServerTable13 DEF ServerDone, Ext
  <2>2. e = Wrote(x, "server", "SW_CERT_REQ") /\ q2 = Append(q, Record(x, "server", "SW_CERT_REQ"))
    BY <1>2, <2>1, WritesMessage, MsgOfAre
  <2>3. PICK m : m = Record(x, "server", "SW_CERT_REQ")
    OBVIOUS
  <2>4. x.v13 /\ IsAppKey(x.wk) /\ wa = "ok" /\ opt.pha /\ x.pha = "requestPending" /\ x.phaTr = PhaTr /\ x.wk = KA(x.wk[3])
    BY <1>5, <1>8, <2>1 DEF ServerDone, Ext, IsAppKey
  <2>5. /\ Same(x, e, {"st", "tr", "certReq"})
        /\ e.st = "SW_CERT_REQ" /\ e.certReq = "sent"
        /\ e.tr = Append(IF x.pha = "requestPending" THEN x.phaTr ELSE x.tr, "CR")
        /\ m.mt = "CR" /\ m.key = x.wk
    BY <1>6, <2>2, <2>3, <2>4, WroteCertReq
  <2>12. /\ e.flow = x.flow /\ e.inInit = x.inInit /\ e.v13 = x.v13 /\ e.finSent = x.finSent /\ e.finRead = x.finRead
        /\ e.hit = x.hit /\ e.hrr = x.hrr /\ e.early = x.early /\ e.ed = x.ed /\ e.peerCert = x.peerCert
        /\ e.pha = x.pha /\ e.keyUpdate = x.keyUpdate /\ e.rk = x.rk /\ e.wk = x.wk /\ e.hsTr = x.hsTr
        /\ e.sfTr = x.sfTr /\ e.phaTr = x.phaTr /\ e.reneg = x.reneg /\ e.sentTickets = x.sentTickets /\ e.extraTickets = x.extraTickets
    BY <2>5, FieldsAre DEF Same
  <2>6. ServerStage(e, ra, "ok")
    <3>1. ServerDone(e, ra, "ok")
      BY <1>5, <1>8, <2>1, <2>4, <2>5, <2>12, KeyCounts DEF ServerDone, AboutToAsk, PhaReqTr
    <3> QED BY <3>1 DEF ServerStage
  <2>7. k + 1 \in Nat /\ (k + 1) - Asked(e) = k - Asked(c) /\ e.wk = c.wk /\ e.rk[3] = c.rk[3]
    BY <1>5, <1>8, <2>1, <2>4, <2>5, <2>12, KeyCounts DEF Asked, ServerDone
  <2>8. ToClient(At(wa, c.wk[3], n, k), m, At("ok", e.wk[3], n, k + 1))
    BY <1>5, <1>8, <2>4, <2>5, <2>7, <2>12 DEF ToClient, At, ServerDone
  <2>9. Sound(e, "server") /\ e.st \notin {"OK", "EARLY_DATA"}
    <3>1. ~e.reneg /\ e.keyUpdate \in {"none", "requested", "notRequested"}
      BY <1>1, <1>5, <2>5, <2>12
    <3> QED BY <1>6, <2>5, <3>1, SoundKept
  <2> QED BY <2>2, <2>3, <2>6, <2>7, <2>8, <2>9, ServerWroteMessage
<1>9. CASE c.st = "OK" /\ c.keyUpdate = "none" /\ c.pha # "requestPending" /\ c.extraTickets > 0
  <2>1. t = "SW_SESSION_TICKET" /\ x.pha = c.pha
    BY <1>2, <1>4, <1>9, ServerTable13 DEF ServerDone
  <2>2. e = Wrote(x, "server", "SW_SESSION_TICKET") /\ q2 = Append(q, Record(x, "server", "SW_SESSION_TICKET"))
    BY <1>2, <2>1, WritesMessage, MsgOfAre
  <2>3. PICK m : m = Record(x, "server", "SW_SESSION_TICKET")
    OBVIOUS
  <2>4. x.v13 /\ IsAppKey(x.wk) /\ wa = "ok" /\ x.wk = KA(x.wk[3])
    BY <1>5, <1>9, <2>1 DEF ServerDone, IsAppKey
  <2>5. /\ Same(x, e, {"st", "reneg", "newSession", "cleanup", "ticket", "sentTickets", "extraTickets"})
        /\ e.st = "SW_SESSION_TICKET" /\ ~e.reneg /\ e.sentTickets = x.sentTickets + 1
        /\ e.extraTickets = (IF x.extraTickets > 0 THEN x.extraTickets - 1 ELSE 0)
        /\ m.mt = "NST" /\ m.key = x.wk
    BY <1>6, <2>2, <2>3, <2>4, WroteTicket
  <2>12. /\ e.flow = x.flow /\ e.inInit = x.inInit /\ e.v13 = x.v13 /\ e.finSent = x.finSent /\ e.finRead = x.finRead
        /\ e.hit = x.hit /\ e.hrr = x.hrr /\ e.early = x.early /\ e.ed = x.ed /\ e.certReq = x.certReq
        /\ e.peerCert = x.peerCert /\ e.pha = x.pha /\ e.keyUpdate = x.keyUpdate /\ e.rk = x.rk /\ e.wk = x.wk
        /\ e.tr = x.tr /\ e.hsTr = x.hsTr /\ e.sfTr = x.sfTr /\ e.phaTr = x.phaTr
    BY <2>5, FieldsAre DEF Same
  <2>6. ServerStage(e, ra, "ok")
    <3>1. ServerDone(e, ra, "ok")
      BY <1>5, <1>9, <2>1, <2>4, <2>5, <2>12, KeyCounts DEF ServerDone, AboutToAsk, Ext
    <3> QED BY <3>1 DEF ServerStage
  <2>7. k - Asked(e) = k - Asked(c) /\ e.wk = c.wk /\ e.rk[3] = c.rk[3]
    BY <1>5, <1>9, <2>1, <2>4, <2>5, <2>12, KeyCounts DEF Asked, ServerDone
  <2>8. ToClient(At(wa, c.wk[3], n, k), m, At("ok", e.wk[3], n, k))
    BY <1>5, <1>9, <2>4, <2>5, <2>7, <2>12 DEF ToClient, At, ServerDone
  <2>9. Sound(e, "server") /\ e.st \notin {"OK", "EARLY_DATA"}
    <3>1. x.extraTickets > 0 \/ opt.tickets > x.sentTickets
      BY <1>5, <1>9, <2>4 DEF Sound, OptionRecord
    <3> QED BY <1>6, <2>5, <3>1, SoundTicket
  <2> QED BY <2>2, <2>3, <2>6, <2>7, <2>8, <2>9, ServerWroteMessage
<1>10. CASE c.st = "OK" /\ c.keyUpdate = "none" /\ c.pha # "requestPending" /\ ~(c.extraTickets > 0)
  <2>1. t = "READ" /\ x.pha = c.pha
    BY <1>2, <1>4, <1>10, ServerTable13 DEF ServerDone
  <2>2. e = [x EXCEPT !.flow = "READING"] /\ q2 = q
    BY <1>2, <2>1, WritesNone
  <2>3. Same(x, e, {"flow"}) /\ e.flow = "READING" /\ ~e.reneg
    BY <1>6, <2>2, FieldsAre DEF Same
  <2>4. /\ e.inInit = x.inInit /\ e.v13 = x.v13 /\ e.finSent = x.finSent /\ e.finRead = x.finRead /\ e.hit = x.hit
        /\ e.hrr = x.hrr /\ e.early = x.early /\ e.ed = x.ed /\ e.certReq = x.certReq /\ e.peerCert = x.peerCert
        /\ e.pha = x.pha /\ e.keyUpdate = x.keyUpdate /\ e.rk = x.rk /\ e.wk = x.wk /\ e.tr = x.tr
        /\ e.hsTr = x.hsTr /\ e.sfTr = x.sfTr /\ e.phaTr = x.phaTr /\ e.reneg = x.reneg /\ e.st = x.st
        /\ e.sentTickets = x.sentTickets /\ e.extraTickets = x.extraTickets
    BY <2>3, FieldsAre DEF Same
  <2>5. ServerStage(e, ra, wa)
    <3>1. ServerDone(e, ra, wa)
      BY <1>5, <1>10, <2>1, <2>3, <2>4 DEF ServerDone, AboutToAsk
    <3> QED BY <3>1 DEF ServerStage
  <2>6. Asked(e) = Asked(c)
    BY <1>5, <1>10, <2>1, <2>3, <2>4 DEF Asked, ServerDone
  <2>7. ReadsOn(e, p)
    BY <1>5, <1>10, <2>1, <2>3, <2>4 DEF ReadsOn, ServerDone, Reason
  <2>8. Sound(e, "server")
    <3>1. ~e.reneg /\ e.keyUpdate \in {"none", "requested", "notRequested"}
      BY <1>1, <1>5, <2>3, <2>4
    <3> QED BY <1>6, <2>3, <3>1, SoundKept
  <2>9. e.rk = c.rk /\ e.wk = c.wk
    BY <1>5, <2>4
  <2> QED BY <2>2, <2>5, <2>6, <2>7, <2>8, <2>9, ServerWroteNone
<1>11. CASE c.st = "SR_FINISHED" /\ c.pha = "requested" /\ opt.tickets > c.sentTickets
  <2>1. t = "SW_SESSION_TICKET" /\ x.pha = "ext"
    BY <1>2, <1>4, <1>11, ServerTable13 DEF ServerDone
  <2>2. e = Wrote(x, "server", "SW_SESSION_TICKET") /\ q2 = Append(q, Record(x, "server", "SW_SESSION_TICKET"))
    BY <1>2, <2>1, WritesMessage, MsgOfAre
  <2>3. PICK m : m = Record(x, "server", "SW_SESSION_TICKET")
    OBVIOUS
  <2>4. x.v13 /\ IsAppKey(x.wk) /\ wa = "ok" /\ x.wk = KA(x.wk[3])
    BY <1>5, <1>11, <2>1 DEF ServerDone, IsAppKey
  <2>5. /\ Same(x, e, {"st", "reneg", "newSession", "cleanup", "ticket", "sentTickets", "extraTickets"})
        /\ e.st = "SW_SESSION_TICKET" /\ ~e.reneg /\ e.sentTickets = x.sentTickets + 1
        /\ e.extraTickets = (IF x.extraTickets > 0 THEN x.extraTickets - 1 ELSE 0)
        /\ m.mt = "NST" /\ m.key = x.wk
    BY <1>6, <2>2, <2>3, <2>4, WroteTicket
  <2>12. /\ e.flow = x.flow /\ e.inInit = x.inInit /\ e.v13 = x.v13 /\ e.finSent = x.finSent /\ e.finRead = x.finRead
        /\ e.hit = x.hit /\ e.hrr = x.hrr /\ e.early = x.early /\ e.ed = x.ed /\ e.certReq = x.certReq
        /\ e.peerCert = x.peerCert /\ e.pha = x.pha /\ e.keyUpdate = x.keyUpdate /\ e.rk = x.rk /\ e.wk = x.wk
        /\ e.tr = x.tr /\ e.hsTr = x.hsTr /\ e.sfTr = x.sfTr /\ e.phaTr = x.phaTr
    BY <2>5, FieldsAre DEF Same
  <2>6. ServerStage(e, ra, "ok")
    <3>1. ServerDone(e, ra, "ok")
      BY <1>5, <1>11, <2>1, <2>4, <2>5, <2>12, KeyCounts DEF ServerDone, AboutToAsk, Ext
    <3> QED BY <3>1 DEF ServerStage
  <2>7. k - Asked(e) = k - Asked(c) /\ e.wk = c.wk /\ e.rk[3] = c.rk[3]
    BY <1>5, <1>11, <2>1, <2>4, <2>5, <2>12, KeyCounts DEF Asked, ServerDone
  <2>8. ToClient(At(wa, c.wk[3], n, k), m, At("ok", e.wk[3], n, k))
    BY <1>5, <1>11, <2>4, <2>5, <2>7, <2>12 DEF ToClient, At, ServerDone
  <2>9. Sound(e, "server") /\ e.st \notin {"OK", "EARLY_DATA"}
    <3>1. x.extraTickets > 0 \/ opt.tickets > x.sentTickets
      BY <1>5, <1>11, <2>4 DEF Sound, OptionRecord
    <3> QED BY <1>6, <2>5, <3>1, SoundTicket
  <2> QED BY <2>2, <2>3, <2>6, <2>7, <2>8, <2>9, ServerWroteMessage
<1>12. CASE c.st = "SR_FINISHED" /\ c.pha # "requested" /\ c.ticket /\ opt.tickets > c.sentTickets
  <2>1. t = "SW_SESSION_TICKET" /\ x.pha = c.pha
    BY <1>2, <1>4, <1>12, ServerTable13 DEF ServerDone
  <2>2. e = Wrote(x, "server", "SW_SESSION_TICKET") /\ q2 = Append(q, Record(x, "server", "SW_SESSION_TICKET"))
    BY <1>2, <2>1, WritesMessage, MsgOfAre
  <2>3. PICK m : m = Record(x, "server", "SW_SESSION_TICKET")
    OBVIOUS
  <2>4. x.v13 /\ IsAppKey(x.wk) /\ wa = "ok" /\ x.wk = KA(x.wk[3])
    BY <1>5, <1>12, <2>1 DEF ServerDone, IsAppKey
  <2>5. /\ Same(x, e, {"st", "reneg", "newSession", "cleanup", "ticket", "sentTickets", "extraTickets"})
        /\ e.st = "SW_SESSION_TICKET" /\ ~e.reneg /\ e.sentTickets = x.sentTickets + 1
        /\ e.extraTickets = (IF x.extraTickets > 0 THEN x.extraTickets - 1 ELSE 0)
        /\ m.mt = "NST" /\ m.key = x.wk
    BY <1>6, <2>2, <2>3, <2>4, WroteTicket
  <2>12. /\ e.flow = x.flow /\ e.inInit = x.inInit /\ e.v13 = x.v13 /\ e.finSent = x.finSent /\ e.finRead = x.finRead
        /\ e.hit = x.hit /\ e.hrr = x.hrr /\ e.early = x.early /\ e.ed = x.ed /\ e.certReq = x.certReq
        /\ e.peerCert = x.peerCert /\ e.pha = x.pha /\ e.keyUpdate = x.keyUpdate /\ e.rk = x.rk /\ e.wk = x.wk
        /\ e.tr = x.tr /\ e.hsTr = x.hsTr /\ e.sfTr = x.sfTr /\ e.phaTr = x.phaTr
    BY <2>5, FieldsAre DEF Same
  <2>6. ServerStage(e, ra, "ok")
    <3>1. ServerDone(e, ra, "ok")
      BY <1>5, <1>12, <2>1, <2>4, <2>5, <2>12, KeyCounts DEF ServerDone, AboutToAsk, Ext
    <3> QED BY <3>1 DEF ServerStage
  <2>7. k - Asked(e) = k - Asked(c) /\ e.wk = c.wk /\ e.rk[3] = c.rk[3]
    BY <1>5, <1>12, <2>1, <2>4, <2>5, <2>12, KeyCounts DEF Asked, ServerDone
  <2>8. ToClient(At(wa, c.wk[3], n, k), m, At("ok", e.wk[3], n, k))
    BY <1>5, <1>12, <2>4, <2>5, <2>7, <2>12 DEF ToClient, At, ServerDone
  <2>9. Sound(e, "server") /\ e.st \notin {"OK", "EARLY_DATA"}
    <3>1. x.extraTickets > 0 \/ opt.tickets > x.sentTickets
      BY <1>5, <1>12, <2>4 DEF Sound, OptionRecord
    <3> QED BY <1>6, <2>5, <3>1, SoundTicket
  <2> QED BY <2>2, <2>3, <2>6, <2>7, <2>8, <2>9, ServerWroteMessage
<1>13. CASE c.st = "SR_FINISHED" /\ c.pha = "requested" /\ ~(opt.tickets > c.sentTickets)
  <2>1. t = "OK" /\ x.pha = "ext"
    BY <1>2, <1>4, <1>13, ServerTable13 DEF ServerDone
  <2>2. e = Stopped(x, "server", "OK") /\ q2 = q
    <3>1. Stops(x, "server", t)
      BY <1>5, <1>13, <2>1 DEF Stops, ServerDone
    <3> QED BY <1>2, <2>1, <3>1, WritesNone
  <2>3. Same(x, e, {"st", "flow", "inInit", "reneg", "newSession", "cleanup", "ticket"}) /\ e.st = "OK" /\ e.flow = "FINISHED" /\ ~e.inInit /\ ~e.reneg
    BY <1>6, <2>2, StoppedServer
  <2>4. /\ e.v13 = x.v13 /\ e.finSent = x.finSent /\ e.finRead = x.finRead /\ e.hit = x.hit /\ e.hrr = x.hrr
        /\ e.early = x.early /\ e.ed = x.ed /\ e.certReq = x.certReq /\ e.peerCert = x.peerCert /\ e.pha = x.pha
        /\ e.keyUpdate = x.keyUpdate /\ e.rk = x.rk /\ e.wk = x.wk /\ e.tr = x.tr /\ e.hsTr = x.hsTr
        /\ e.sfTr = x.sfTr /\ e.phaTr = x.phaTr /\ e.sentTickets = x.sentTickets /\ e.extraTickets = x.extraTickets
    BY <2>3, FieldsAre DEF Same
  <2>5. ServerStage(e, ra, wa)
    <3>1. ServerDone(e, ra, wa)
      BY <1>5, <1>13, <2>1, <2>3, <2>4 DEF ServerDone, AboutToAsk, Ext
    <3> QED BY <3>1 DEF ServerStage
  <2>6. Asked(e) = Asked(c)
    BY <1>5, <1>13, <2>1, <2>3, <2>4 DEF Asked, ServerDone, Ext
  <2>7. ReadsOn(e, p)
    BY <1>5, <1>13, <2>1, <2>3, <2>4 DEF ReadsOn, ServerDone
  <2>8. Sound(e, "server")
    <3>1. ~e.reneg /\ e.keyUpdate \in {"none", "requested", "notRequested"}
      BY <1>1, <1>5, <2>3, <2>4
    <3> QED BY <1>6, <2>3, <3>1, SoundKept
  <2>9. e.rk = c.rk /\ e.wk = c.wk
    BY <1>5, <2>4
  <2> QED BY <2>2, <2>5, <2>6, <2>7, <2>8, <2>9, ServerWroteNone
<1>14. CASE c.st = "SR_FINISHED" /\ c.pha # "requested" /\ ~(c.ticket /\ opt.tickets > c.sentTickets)
  <2>1. t = "OK" /\ x.pha = c.pha
    BY <1>2, <1>4, <1>14, ServerTable13 DEF ServerDone
  <2>2. e = Stopped(x, "server", "OK") /\ q2 = q
    <3>1. Stops(x, "server", t)
      BY <1>5, <1>14, <2>1 DEF Stops, ServerDone
    <3> QED BY <1>2, <2>1, <3>1, WritesNone
  <2>3. Same(x, e, {"st", "flow", "inInit", "reneg", "newSession", "cleanup", "ticket"}) /\ e.st = "OK" /\ e.flow = "FINISHED" /\ ~e.inInit /\ ~e.reneg
    BY <1>6, <2>2, StoppedServer
  <2>4. /\ e.v13 = x.v13 /\ e.finSent = x.finSent /\ e.finRead = x.finRead /\ e.hit = x.hit /\ e.hrr = x.hrr
        /\ e.early = x.early /\ e.ed = x.ed /\ e.certReq = x.certReq /\ e.peerCert = x.peerCert /\ e.pha = x.pha
        /\ e.keyUpdate = x.keyUpdate /\ e.rk = x.rk /\ e.wk = x.wk /\ e.tr = x.tr /\ e.hsTr = x.hsTr
        /\ e.sfTr = x.sfTr /\ e.phaTr = x.phaTr /\ e.sentTickets = x.sentTickets /\ e.extraTickets = x.extraTickets
    BY <2>3, FieldsAre DEF Same
  <2>5. ServerStage(e, ra, wa)
    <3>1. ServerDone(e, ra, wa)
      BY <1>5, <1>14, <2>1, <2>3, <2>4 DEF ServerDone, AboutToAsk, Ext
    <3> QED BY <3>1 DEF ServerStage
  <2>6. Asked(e) = Asked(c)
    BY <1>5, <1>14, <2>1, <2>3, <2>4 DEF Asked, ServerDone, Ext
  <2>7. ReadsOn(e, p)
    BY <1>5, <1>14, <2>1, <2>3, <2>4 DEF ReadsOn, ServerDone
  <2>8. Sound(e, "server")
    <3>1. ~e.reneg /\ e.keyUpdate \in {"none", "requested", "notRequested"}
      BY <1>1, <1>5, <2>3, <2>4
    <3> QED BY <1>6, <2>3, <3>1, SoundKept
  <2>9. e.rk = c.rk /\ e.wk = c.wk
    BY <1>5, <2>4
  <2> QED BY <2>2, <2>5, <2>6, <2>7, <2>8, <2>9, ServerWroteNone
<1>15. CASE c.st = "SW_SESSION_TICKET" /\ c.extraTickets > 0
  <2>1. t = "SW_SESSION_TICKET" /\ x.pha = c.pha
    BY <1>2, <1>4, <1>15, ServerTable13 DEF ServerDone, FirstHandshake
  <2>2. e = Wrote(x, "server", "SW_SESSION_TICKET") /\ q2 = Append(q, Record(x, "server", "SW_SESSION_TICKET"))
    BY <1>2, <2>1, WritesMessage, MsgOfAre
  <2>3. PICK m : m = Record(x, "server", "SW_SESSION_TICKET")
    OBVIOUS
  <2>4. x.v13 /\ IsAppKey(x.wk) /\ wa = "ok" /\ x.wk = KA(x.wk[3])
    BY <1>5, <1>15, <2>1 DEF ServerDone, IsAppKey
  <2>5. /\ Same(x, e, {"st", "reneg", "newSession", "cleanup", "ticket", "sentTickets", "extraTickets"})
        /\ e.st = "SW_SESSION_TICKET" /\ ~e.reneg /\ e.sentTickets = x.sentTickets + 1
        /\ e.extraTickets = (IF x.extraTickets > 0 THEN x.extraTickets - 1 ELSE 0)
        /\ m.mt = "NST" /\ m.key = x.wk
    BY <1>6, <2>2, <2>3, <2>4, WroteTicket
  <2>12. /\ e.flow = x.flow /\ e.inInit = x.inInit /\ e.v13 = x.v13 /\ e.finSent = x.finSent /\ e.finRead = x.finRead
        /\ e.hit = x.hit /\ e.hrr = x.hrr /\ e.early = x.early /\ e.ed = x.ed /\ e.certReq = x.certReq
        /\ e.peerCert = x.peerCert /\ e.pha = x.pha /\ e.keyUpdate = x.keyUpdate /\ e.rk = x.rk /\ e.wk = x.wk
        /\ e.tr = x.tr /\ e.hsTr = x.hsTr /\ e.sfTr = x.sfTr /\ e.phaTr = x.phaTr
    BY <2>5, FieldsAre DEF Same
  <2>6. ServerStage(e, ra, "ok")
    <3>1. ServerDone(e, ra, "ok")
      BY <1>5, <1>15, <2>1, <2>4, <2>5, <2>12, KeyCounts DEF ServerDone, AboutToAsk, Ext
    <3> QED BY <3>1 DEF ServerStage
  <2>7. k - Asked(e) = k - Asked(c) /\ e.wk = c.wk /\ e.rk[3] = c.rk[3]
    BY <1>5, <1>15, <2>1, <2>4, <2>5, <2>12, KeyCounts DEF Asked, ServerDone
  <2>8. ToClient(At(wa, c.wk[3], n, k), m, At("ok", e.wk[3], n, k))
    BY <1>5, <1>15, <2>4, <2>5, <2>7, <2>12 DEF ToClient, At, ServerDone
  <2>9. Sound(e, "server") /\ e.st \notin {"OK", "EARLY_DATA"}
    <3>1. x.extraTickets > 0 \/ opt.tickets > x.sentTickets
      BY <1>5, <1>15, <2>4 DEF Sound, OptionRecord
    <3> QED BY <1>6, <2>5, <3>1, SoundTicket
  <2> QED BY <2>2, <2>3, <2>6, <2>7, <2>8, <2>9, ServerWroteMessage
<1>16. CASE c.st = "SW_SESSION_TICKET" /\ ~(c.extraTickets > 0) /\ ~c.hit /\ ~(opt.tickets <= c.sentTickets)
  <2>1. t = "SW_SESSION_TICKET" /\ x.pha = c.pha
    BY <1>2, <1>4, <1>16, ServerTable13 DEF ServerDone, FirstHandshake, OptionRecord, Sound
  <2>2. e = Wrote(x, "server", "SW_SESSION_TICKET") /\ q2 = Append(q, Record(x, "server", "SW_SESSION_TICKET"))
    BY <1>2, <2>1, WritesMessage, MsgOfAre
  <2>3. PICK m : m = Record(x, "server", "SW_SESSION_TICKET")
    OBVIOUS
  <2>4. x.v13 /\ IsAppKey(x.wk) /\ wa = "ok" /\ x.wk = KA(x.wk[3])
    BY <1>5, <1>16, <2>1 DEF ServerDone, IsAppKey
  <2>5. /\ Same(x, e, {"st", "reneg", "newSession", "cleanup", "ticket", "sentTickets", "extraTickets"})
        /\ e.st = "SW_SESSION_TICKET" /\ ~e.reneg /\ e.sentTickets = x.sentTickets + 1
        /\ e.extraTickets = (IF x.extraTickets > 0 THEN x.extraTickets - 1 ELSE 0)
        /\ m.mt = "NST" /\ m.key = x.wk
    BY <1>6, <2>2, <2>3, <2>4, WroteTicket
  <2>12. /\ e.flow = x.flow /\ e.inInit = x.inInit /\ e.v13 = x.v13 /\ e.finSent = x.finSent /\ e.finRead = x.finRead
        /\ e.hit = x.hit /\ e.hrr = x.hrr /\ e.early = x.early /\ e.ed = x.ed /\ e.certReq = x.certReq
        /\ e.peerCert = x.peerCert /\ e.pha = x.pha /\ e.keyUpdate = x.keyUpdate /\ e.rk = x.rk /\ e.wk = x.wk
        /\ e.tr = x.tr /\ e.hsTr = x.hsTr /\ e.sfTr = x.sfTr /\ e.phaTr = x.phaTr
    BY <2>5, FieldsAre DEF Same
  <2>6. ServerStage(e, ra, "ok")
    <3>1. ServerDone(e, ra, "ok")
      BY <1>5, <1>16, <2>1, <2>4, <2>5, <2>12, KeyCounts DEF ServerDone, AboutToAsk, Ext
    <3> QED BY <3>1 DEF ServerStage
  <2>7. k - Asked(e) = k - Asked(c) /\ e.wk = c.wk /\ e.rk[3] = c.rk[3]
    BY <1>5, <1>16, <2>1, <2>4, <2>5, <2>12, KeyCounts DEF Asked, ServerDone
  <2>8. ToClient(At(wa, c.wk[3], n, k), m, At("ok", e.wk[3], n, k))
    BY <1>5, <1>16, <2>4, <2>5, <2>7, <2>12 DEF ToClient, At, ServerDone
  <2>9. Sound(e, "server") /\ e.st \notin {"OK", "EARLY_DATA"}
    <3>1. x.extraTickets > 0 \/ opt.tickets > x.sentTickets
      BY <1>5, <1>16, <2>4 DEF Sound, OptionRecord
    <3> QED BY <1>6, <2>5, <3>1, SoundTicket
  <2> QED BY <2>2, <2>3, <2>6, <2>7, <2>8, <2>9, ServerWroteMessage
<1>17. CASE c.st = "SW_SESSION_TICKET" /\ ~(c.extraTickets > 0) /\ (c.hit \/ opt.tickets <= c.sentTickets)
  <2>1. t = "OK" /\ x.pha = c.pha
    BY <1>2, <1>4, <1>17, ServerTable13 DEF ServerDone, FirstHandshake
  <2>2. e = Stopped(x, "server", "OK") /\ q2 = q
    <3>1. Stops(x, "server", t)
      BY <1>5, <1>17, <2>1 DEF Stops, ServerDone, FirstHandshake
    <3> QED BY <1>2, <2>1, <3>1, WritesNone
  <2>3. Same(x, e, {"st", "flow", "inInit", "reneg", "newSession", "cleanup", "ticket"}) /\ e.st = "OK" /\ e.flow = "FINISHED" /\ ~e.inInit /\ ~e.reneg
    BY <1>6, <2>2, StoppedServer
  <2>4. /\ e.v13 = x.v13 /\ e.finSent = x.finSent /\ e.finRead = x.finRead /\ e.hit = x.hit /\ e.hrr = x.hrr
        /\ e.early = x.early /\ e.ed = x.ed /\ e.certReq = x.certReq /\ e.peerCert = x.peerCert /\ e.pha = x.pha
        /\ e.keyUpdate = x.keyUpdate /\ e.rk = x.rk /\ e.wk = x.wk /\ e.tr = x.tr /\ e.hsTr = x.hsTr
        /\ e.sfTr = x.sfTr /\ e.phaTr = x.phaTr /\ e.sentTickets = x.sentTickets /\ e.extraTickets = x.extraTickets
    BY <2>3, FieldsAre DEF Same
  <2>5. ServerStage(e, ra, wa)
    <3>1. ServerDone(e, ra, wa)
      BY <1>5, <1>17, <2>1, <2>3, <2>4 DEF ServerDone, AboutToAsk, Ext
    <3> QED BY <3>1 DEF ServerStage
  <2>6. Asked(e) = Asked(c)
    BY <1>5, <1>17, <2>1, <2>3, <2>4 DEF Asked, ServerDone, Ext
  <2>7. ReadsOn(e, p)
    BY <1>5, <1>17, <2>1, <2>3, <2>4 DEF ReadsOn, ServerDone
  <2>8. Sound(e, "server")
    <3>1. ~e.reneg /\ e.keyUpdate \in {"none", "requested", "notRequested"}
      BY <1>1, <1>5, <2>3, <2>4
    <3> QED BY <1>6, <2>3, <3>1, SoundKept
  <2>9. e.rk = c.rk /\ e.wk = c.wk
    BY <1>5, <2>4
  <2> QED BY <2>2, <2>5, <2>6, <2>7, <2>8, <2>9, ServerWroteNone
<1>18. CASE c.st \in {"SR_KEY_UPDATE", "SW_KEY_UPDATE"}
  <2>1. t = "OK" /\ x.pha = c.pha
    BY <1>2, <1>4, <1>18, ServerTable13 DEF ServerDone
  <2>2. e = Stopped(x, "server", "OK") /\ q2 = q
    <3>1. Stops(x, "server", t)
      BY <1>5, <1>18, <2>1 DEF Stops, ServerDone
    <3> QED BY <1>2, <2>1, <3>1, WritesNone
  <2>3. Same(x, e, {"st", "flow", "inInit", "reneg", "newSession", "cleanup", "ticket"}) /\ e.st = "OK" /\ e.flow = "FINISHED" /\ ~e.inInit /\ ~e.reneg
    BY <1>6, <2>2, StoppedServer
  <2>4. /\ e.v13 = x.v13 /\ e.finSent = x.finSent /\ e.finRead = x.finRead /\ e.hit = x.hit /\ e.hrr = x.hrr
        /\ e.early = x.early /\ e.ed = x.ed /\ e.certReq = x.certReq /\ e.peerCert = x.peerCert /\ e.pha = x.pha
        /\ e.keyUpdate = x.keyUpdate /\ e.rk = x.rk /\ e.wk = x.wk /\ e.tr = x.tr /\ e.hsTr = x.hsTr
        /\ e.sfTr = x.sfTr /\ e.phaTr = x.phaTr /\ e.sentTickets = x.sentTickets /\ e.extraTickets = x.extraTickets
    BY <2>3, FieldsAre DEF Same
  <2>5. ServerStage(e, ra, wa)
    <3>1. ServerDone(e, ra, wa)
      BY <1>5, <1>18, <2>1, <2>3, <2>4 DEF ServerDone, AboutToAsk
    <3> QED BY <3>1 DEF ServerStage
  <2>6. Asked(e) = Asked(c)
    BY <1>5, <1>18, <2>1, <2>3, <2>4 DEF Asked, ServerDone, Ext
  <2>7. ReadsOn(e, p)
    BY <1>5, <1>18, <2>1, <2>3, <2>4 DEF ReadsOn, ServerDone
  <2>8. Sound(e, "server")
    <3>1. ~e.reneg /\ e.keyUpdate \in {"none", "requested", "notRequested"}
      BY <1>1, <1>5, <2>3, <2>4
    <3> QED BY <1>6, <2>3, <3>1, SoundKept
  <2>9. e.rk = c.rk /\ e.wk = c.wk
    BY <1>5, <2>4
  <2> QED BY <2>2, <2>5, <2>6, <2>7, <2>8, <2>9, ServerWroteNone
<1>19. CASE c.st = "SW_CERT_REQ"
  <2>1. t = "OK" /\ x.pha = "requested"
    BY <1>2, <1>4, <1>19, ServerTable13 DEF ServerDone
  <2>2. e = Stopped(x, "server", "OK") /\ q2 = q
    <3>1. Stops(x, "server", t)
      BY <1>5, <1>19, <2>1 DEF Stops, ServerDone
    <3> QED BY <1>2, <2>1, <3>1, WritesNone
  <2>3. Same(x, e, {"st", "flow", "inInit", "reneg", "newSession", "cleanup", "ticket"}) /\ e.st = "OK" /\ e.flow = "FINISHED" /\ ~e.inInit /\ ~e.reneg
    BY <1>6, <2>2, StoppedServer
  <2>4. /\ e.v13 = x.v13 /\ e.finSent = x.finSent /\ e.finRead = x.finRead /\ e.hit = x.hit /\ e.hrr = x.hrr
        /\ e.early = x.early /\ e.ed = x.ed /\ e.certReq = x.certReq /\ e.peerCert = x.peerCert /\ e.pha = x.pha
        /\ e.keyUpdate = x.keyUpdate /\ e.rk = x.rk /\ e.wk = x.wk /\ e.tr = x.tr /\ e.hsTr = x.hsTr
        /\ e.sfTr = x.sfTr /\ e.phaTr = x.phaTr /\ e.sentTickets = x.sentTickets /\ e.extraTickets = x.extraTickets
    BY <2>3, FieldsAre DEF Same
  <2>5. ServerStage(e, ra, wa)
    <3>1. ServerDone(e, ra, wa)
      BY <1>5, <1>19, <2>1, <2>3, <2>4 DEF ServerDone, AboutToAsk
    <3> QED BY <3>1 DEF ServerStage
  <2>6. Asked(e) = Asked(c)
    BY <1>5, <1>19, <2>1, <2>3, <2>4 DEF Asked, ServerDone, Ext
  <2>7. ReadsOn(e, p)
    BY <1>5, <1>19, <2>1, <2>3, <2>4 DEF ReadsOn, ServerDone
  <2>8. Sound(e, "server")
    <3>1. ~e.reneg /\ e.keyUpdate \in {"none", "requested", "notRequested"}
      BY <1>1, <1>5, <2>3, <2>4
    <3> QED BY <1>6, <2>3, <3>1, SoundKept
  <2>9. e.rk = c.rk /\ e.wk = c.wk
    BY <1>5, <2>4
  <2> QED BY <2>2, <2>5, <2>6, <2>7, <2>8, <2>9, ServerWroteNone
<1> QED BY <1>7, <1>8, <1>9, <1>10, <1>11, <1>12, <1>13, <1>14, <1>15, <1>16, <1>17, <1>18, <1>19 DEF ServerDone

\* Any step that writes.
LEMMA ServerWritesAny ==
    ASSUME NEW c, NEW ra, NEW wa, NEW n \in Nat, NEW ck, NEW e, NEW q, NEW q2, NEW p, NEW k \in Nat,
           opt \in OptionRecord, calls \in Nat, Sound(c, "server"), ReadsOn(c, p), c.flow = "WRITING",
           Writes(c, "server", ck, e, q, q2),
           ServerStage(c, ra, wa)
    PROVE  ServerWrote(c, e, ra, wa, n, k, q, q2, p)
<1>1. CASE ServerFirst(c, ra, wa)
  BY <1>1, ServerFirstWrites
<1>2. CASE ServerRetried(c, ra, wa)
  BY <1>2, ServerRetriedWrites
<1>3. CASE ServerWrites(c, ra, wa)
  BY <1>3, ServerWritesWrites
<1>4. CASE ServerReads(c, ra, wa)
  BY <1>4, ServerReadsWrites
<1>5. CASE ServerDone(c, ra, wa)
  BY <1>5, ServerDoneWrites
<1> QED BY <1>1, <1>2, <1>3, <1>4, <1>5 DEF ServerStage

=============================================================================
