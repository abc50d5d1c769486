----------------------------- MODULE TlsProofs -----------------------------
(***************************************************************************)
(* TLS 1.3 between two sides that run TlsHandshake, for every              *)
(* configuration: what a step that reads does to the stage of its side,    *)
(* every step of the specification, the invariant of TlsStages, and the    *)
(* properties of TlsHandshake that follow from it.                         *)
(***************************************************************************)
EXTENDS TlsWriteProofs

-----------------------------------------------------------------------------
(* A step that reads, taken apart. *)

\* Does the table of r have the message m in the state of c, and does a Finished verify?
Expects(c, r, m) ==
    /\ c.st \in DOMAIN ReadTable(c, r) /\ m.mt \in ReadTable(c, r)[c.st]
    /\ m.mt = "FIN" => c.v13 /\ m.digest = c.tr

\* Does r write when it has processed m and has become d?
Ends(d, m) == IF d.v13 THEN EndsReading13(d, m) ELSE EndsReading12(m)

\* HandshakeMessage() of a message that is expected.
Got(c, r, m, hit) == Processed(Received(c, r, m), r, m, hit)
Taken(c, r, m, hit) ==
    LET d == Got(c, r, m, hit)
        e == IF m.mt = "FIN" THEN [d EXCEPT !.ccs = FALSE] ELSE d
    IN IF Ends(d, m) THEN [e EXCEPT !.flow = "WRITING"] ELSE e

LEMMA HandshakeMessageIs ==
    ASSUME NEW c, NEW r, NEW m, NEW hit, Expects(c, r, m)
    PROVE  HandshakeMessage(c, r, m, hit) = Taken(c, r, m, hit)
<1>1. c.st \in DOMAIN ReadTable(c, r) /\ m.mt \in ReadTable(c, r)[c.st]
  BY DEF Expects
<1>2. m.mt = "FIN" => FinishedError(c, m) = "none"
  <2>1. SUFFICES ASSUME c.v13, m.digest = c.tr PROVE FinishedError(c, m) = "none"
    BY DEF Expects
  <2>2. ~(~c.v13 /\ ~c.ccs) /\ ~(m.digest # c.tr)
    BY <2>1
  <2> QED BY <2>2, Zenon DEF FinishedError
<1>3. PICK d : d = Got(c, r, m, hit)
  OBVIOUS
<1>4. /\ ~~(c.st \in DOMAIN ReadTable(c, r) /\ m.mt \in ReadTable(c, r)[c.st])
      /\ ~((c.st \in DOMAIN ReadTable(c, r) /\ m.mt \in ReadTable(c, r)[c.st])
           /\ m.mt = "FIN" /\ FinishedError(c, m) # "none")
  BY <1>1, <1>2
<1>5. HandshakeMessage(c, r, m, hit) =
        LET e == IF m.mt = "FIN" THEN [d EXCEPT !.ccs = FALSE] ELSE d IN
        IF (IF d.v13 THEN EndsReading13(d, m) ELSE EndsReading12(m))
        THEN [e EXCEPT !.flow = "WRITING"] ELSE e
  BY <1>3, <1>4, Zenon DEF HandshakeMessage, Got
<1> QED BY <1>3, <1>5, Zenon DEF Taken, Ends

LEMMA ReadTakenApart ==
    ASSUME NEW r \in Role, Read(r), conn = [x \in Role |-> conn[x]], inbox = [x \in Role |-> inbox[x]],
           NEW c, c = conn[r], NEW m, m = Head(inbox[r])
    PROVE  /\ Dropped(c, r, m) =>
                 conn' = conn /\ inbox' = [inbox EXCEPT ![r] = Tail(inbox[r])] /\ read' = read
           /\ ~Dropped(c, r, m) /\ m.key = c.rk /\ m.mt \notin {"ALERT", "DATA"}
                 /\ ~(m.mt = "CH" /\ r = "server" /\ RefusesRenegotiation(c)) =>
                 \E hit : /\ conn' = [conn EXCEPT ![r] = HandshakeMessage(c, r, m, hit)]
                          /\ inbox' = [inbox EXCEPT ![r] = Tail(inbox[r])] /\ read' = read
<1>1. CASE Dropped(c, r, m)
  BY <1>1, Zenon DEF Read, Popped
<1>2. CASE /\ ~Dropped(c, r, m) /\ m.key = c.rk /\ m.mt \notin {"ALERT", "DATA"}
           /\ ~(m.mt = "CH" /\ r = "server" /\ RefusesRenegotiation(c))
  <2>1. m.mt # "ALERT" /\ m.mt # "DATA"
    BY <1>2
  <2> QED BY <1>2, <2>1, Zenon DEF Read, Popped
<1> QED BY <1>1, <1>2

\* tls_get_message_body(), but for the request that starts post-handshake authentication.
LEMMA ReceivedIs ==
    ASSUME NEW c, DOMAIN c = Fields, NEW r, NEW m,
           ~(c.v13 /\ r = "client" /\ c.st = "OK" /\ m.mt = "CR")
    PROVE  LET g == Received(c, r, m) IN
           /\ Same(c, g, {"st", "v13", "finRead", "tr"}) /\ g.st = ReadState(r)[m.mt]
           /\ Hashed(c, m.mt) => g.tr = Append(c.tr, m.mt)
           /\ ~Hashed(c, m.mt) => g.tr = c.tr
           /\ g.v13 <=> c.v13 \/ (m.mt = "SH" /\ ~m.hrr /\ opt.ver = 13)
           /\ g.finRead <=> c.finRead \/ m.mt = "FIN"
<1> USE FieldsAre
<1>1. PICK h : h = IF Hashed(c, m.mt) THEN [c EXCEPT !.tr = Append(c.tr, m.mt)] ELSE c
  OBVIOUS
<1>2. /\ Same(c, h, {"tr"}) /\ h.v13 = c.v13 /\ h.finRead = c.finRead
      /\ Hashed(c, m.mt) => h.tr = Append(c.tr, m.mt)
      /\ ~Hashed(c, m.mt) => h.tr = c.tr
  <2>1. CASE Hashed(c, m.mt)
    <3>1. PICK t : t = Append(c.tr, m.mt)
      OBVIOUS
    <3>2. h = [c EXCEPT !.tr = t]
      BY <1>1, <2>1, <3>1
    <3> QED BY <2>1, <3>1, <3>2 DEF Same
  <2>2. CASE ~Hashed(c, m.mt)
    BY <1>1, <2>2 DEF Same
  <2> QED BY <2>1, <2>2
<1>3. PICK v : v = (h.v13 \/ (m.mt = "SH" /\ ~m.hrr /\ opt.ver = 13))
  OBVIOUS
<1>4. PICK w : w = (h.finRead \/ m.mt = "FIN")
  OBVIOUS
<1>5. PICK s : s = ReadState(r)[m.mt]
  OBVIOUS
<1>6. PICK g : g = Received(c, r, m)
  OBVIOUS
<1>7. g = [h EXCEPT !.st = s, !.v13 = v, !.finRead = w]
  <2>1. g = [h EXCEPT !.st = ReadState(r)[m.mt],
                      !.v13 = h.v13 \/ (m.mt = "SH" /\ ~m.hrr /\ opt.ver = 13),
                      !.finRead = h.finRead \/ m.mt = "FIN"]
    BY <1>1, <1>6, Zenon DEF Received
  <2> QED BY <1>3, <1>4, <1>5, <2>1, Zenon
<1>8. /\ Same(c, g, {"st", "v13", "finRead", "tr"}) /\ g.st = s /\ g.tr = h.tr
      /\ g.v13 = v /\ g.finRead = w
  BY <1>2, <1>7 DEF Same
<1>9. g.v13 <=> c.v13 \/ (m.mt = "SH" /\ ~m.hrr /\ opt.ver = 13)
  BY <1>2, <1>3, <1>8, Zenon
<1>10. g.finRead <=> c.finRead \/ m.mt = "FIN"
  BY <1>2, <1>4, <1>8, Zenon
<1> QED BY <1>2, <1>5, <1>6, <1>8, <1>9, <1>10

LEMMA TakenIs ==
    ASSUME NEW c, NEW r, NEW m, NEW hit, NEW d, d = Got(c, r, m, hit), DOMAIN d = Fields
    PROVE  LET e == Taken(c, r, m, hit) IN
           /\ Ends(d, m) => Same(d, e, {"flow", "ccs"}) /\ e.flow = "WRITING"
           /\ ~Ends(d, m) => Same(d, e, {"ccs"})
<1> USE FieldsAre
<1>1. PICK f : f = IF m.mt = "FIN" THEN [d EXCEPT !.ccs = FALSE] ELSE d
  OBVIOUS
<1>2. Same(d, f, {"ccs"})
  BY <1>1 DEF Same
<1>3. PICK e : e = Taken(c, r, m, hit)
  OBVIOUS
<1>4. e = IF Ends(d, m) THEN [f EXCEPT !.flow = "WRITING"] ELSE f
  BY <1>1, <1>3 DEF Taken
<1>5. CASE Ends(d, m)
  BY <1>2, <1>3, <1>4, <1>5 DEF Same
<1>6. CASE ~Ends(d, m)
  BY <1>2, <1>3, <1>4, <1>6 DEF Same
<1> QED BY <1>5, <1>6

LEMMA ReadStatesAre ==
    /\ ReadState("client")["SH"] = "CR_SRVR_HELLO" /\ ReadState("client")["EE"] = "CR_ENCRYPTED_EXTENSIONS"
    /\ ReadState("client")["CR"] = "CR_CERT_REQ" /\ ReadState("client")["CERT"] = "CR_CERT"
    /\ ReadState("client")["CV"] = "CR_CERT_VRFY" /\ ReadState("client")["NST"] = "CR_SESSION_TICKET"
    /\ ReadState("client")["FIN"] = "CR_FINISHED" /\ ReadState("client")["KU"] = "CR_KEY_UPDATE"
    /\ ReadState("server")["CH"] = "SR_CLNT_HELLO" /\ ReadState("server")["EOED"] = "SR_END_OF_EARLY_DATA"
    /\ ReadState("server")["CERT"] = "SR_CERT" /\ ReadState("server")["CV"] = "SR_CERT_VRFY"
    /\ ReadState("server")["FIN"] = "SR_FINISHED" /\ ReadState("server")["KU"] = "SR_KEY_UPDATE"
  BY DEF ReadState, ClientReadState, ServerReadState

\* The request that starts post-handshake authentication: it is hashed on top of the
\* transcript of the first handshake.
LEMMA ReceivedRequest ==
    ASSUME NEW c, DOMAIN c = Fields, NEW m, c.v13, c.st = "OK", m.mt = "CR"
    PROVE  LET g == Received(c, "client", m) IN
           /\ Same(c, g, {"st", "v13", "finRead", "tr", "pha"}) /\ g.st = "CR_CERT_REQ"
           /\ g.tr = Append(c.phaTr, "CR") /\ g.pha = "requested"
           /\ g.v13 /\ (g.finRead <=> c.finRead)
<1> USE FieldsAre
<1>1. PICK b : b = [c EXCEPT !.pha = "requested", !.tr = c.phaTr]
  OBVIOUS
<1>2. Same(c, b, {"tr", "pha"}) /\ b.tr = c.phaTr /\ b.pha = "requested"
  BY <1>1 DEF Same
<1>3. PICK t : t = Append(b.tr, "CR")
  OBVIOUS
<1>4. PICK h : h = [b EXCEPT !.tr = t]
  OBVIOUS
<1>5. Same(c, h, {"tr", "pha"}) /\ h.tr = t /\ h.pha = "requested" /\ h.v13 = c.v13 /\ h.finRead = c.finRead
  BY <1>2, <1>4 DEF Same
<1>6. PICK v : v = (h.v13 \/ (m.mt = "SH" /\ ~m.hrr /\ opt.ver = 13))
  OBVIOUS
<1>7. PICK w : w = (h.finRead \/ m.mt = "FIN")
  OBVIOUS
<1>8. PICK g : g = Received(c, "client", m)
  OBVIOUS
<1>9. PICK s : s = ReadState("client")["CR"]
  OBVIOUS
<1>10. g = [h EXCEPT !.st = s, !.v13 = v, !.finRead = w]
  <2>1. Hashed(c, m.mt)
    BY DEF Hashed
  <2>2. g = [h EXCEPT !.st = ReadState("client")[m.mt],
                      !.v13 = h.v13 \/ (m.mt = "SH" /\ ~m.hrr /\ opt.ver = 13),
                      !.finRead = h.finRead \/ m.mt = "FIN"]
    BY <1>1, <1>3, <1>4, <1>8, <2>1, Zenon DEF Received
  <2> QED BY <1>6, <1>7, <1>9, <2>2, Zenon
<1>11. /\ Same(c, g, {"st", "v13", "finRead", "tr", "pha"}) /\ g.st = s /\ g.tr = h.tr /\ g.pha = "requested"
       /\ g.v13 = v /\ g.finRead = w
  BY <1>5, <1>10 DEF Same
<1>12. g.v13 /\ (g.finRead <=> c.finRead)
  BY <1>5, <1>6, <1>7, <1>11, Zenon
<1> QED BY <1>2, <1>3, <1>5, <1>8, <1>9, <1>11, <1>12, ReadStatesAre

-----------------------------------------------------------------------------
(* What reading one message does. *)

\* A HelloRetryRequest.
LEMMA TookRetry ==
    ASSUME NEW c, DOMAIN c = Fields, NEW m, NEW hit, m.mt = "SH",
           ~c.v13,
           m.hrr
    PROVE  LET e == Taken(c, "client", m, hit) IN
           /\ Same(c, e, {"st", "v13", "finRead", "tr", "hrr", "wk", "flow", "ccs"})
           /\ e.st = "CR_SRVR_HELLO" /\ ~e.v13 /\ (e.finRead <=> c.finRead)
           /\ e.flow = "WRITING"
           /\ e.hrr = "pending" /\ e.tr = RetryTr
           /\ e.wk = (IF c.ed = "finishedWriting" THEN NoKey ELSE c.wk)
<1> USE FieldsAre
<1>1. PICK g : g = Received(c, "client", m)
  OBVIOUS
<1>2. /\ Same(c, g, {"st", "v13", "finRead", "tr"}) /\ g.st = "CR_SRVR_HELLO" /\ g.tr = Append(c.tr, "SH")
      /\ ~g.v13 /\ (g.finRead <=> c.finRead)
  BY <1>1, ReceivedIs, ReadStatesAre DEF Hashed
<1>3. PICK d : d = Got(c, "client", m, hit)
  OBVIOUS
<1>4. PICK v00 : v00 = ("pending")
  OBVIOUS
<1>5. v00 = ("pending")
  BY <1>2, <1>4 DEF Same
<1>6. PICK v01 : v01 = (<<"HASH", "SH">>)
  OBVIOUS
<1>7. v01 = (<<"HASH", "SH">>)
  BY <1>2, <1>6 DEF Same
<1>8. PICK v02 : v02 = (IF g.ed = "finishedWriting" THEN NoKey ELSE g.wk)
  OBVIOUS
<1>9. v02 = (IF c.ed = "finishedWriting" THEN NoKey ELSE c.wk)
  BY <1>2, <1>8 DEF Same
<1>10. d = [g EXCEPT !.hrr = v00, !.tr = v01, !.wk = v02]
  BY <1>1, <1>2, <1>3, <1>4, <1>6, <1>8, <1>5, <1>7, <1>9 DEF Got, Processed, Same, ClientProcess12, HelloRetryRequest
<1>11. Same(c, d, {"st", "v13", "finRead", "tr", "hrr", "wk"}) /\ d.st = "CR_SRVR_HELLO" /\ d.tr = v01 /\ d.hrr = v00 /\ d.wk = v02 /\ ~d.v13 /\ (d.finRead <=> c.finRead)
  BY <1>2, <1>10 DEF Same
<1>12. Ends(d, m)
  BY <1>11 DEF Ends, EndsReading13, EndsReading12, Same
<1>13. PICK e : e = Taken(c, "client", m, hit)
  OBVIOUS
<1>14. Same(d, e, {"flow", "ccs"}) /\ e.flow = "WRITING"
  BY <1>3, <1>11, <1>12, <1>13, TakenIs DEF Same
<1>15. Same(c, e, {"st", "v13", "finRead", "tr", "hrr", "wk", "flow", "ccs"}) /\ e.st = "CR_SRVR_HELLO" /\ e.tr = v01 /\ e.hrr = v00 /\ e.wk = v02 /\ (e.finRead <=> c.finRead) /\ ~e.v13
  BY <1>11, <1>14 DEF Same
<1> QED BY <1>13, <1>14, <1>15, <1>5, <1>7, <1>9 DEF RetryTr

\* The ServerHello.
LEMMA TookServerHello ==
    ASSUME NEW c, DOMAIN c = Fields, NEW m, NEW hit, m.mt = "SH",
           ~c.v13,
           ~m.hrr,
           opt.ver = 13
    PROVE  LET e == Taken(c, "client", m, hit) IN
           /\ Same(c, e, {"st", "v13", "finRead", "tr", "hit", "hsTr", "rk", "wk", "ccs"})
           /\ e.st = "CR_SRVR_HELLO" /\ e.v13 /\ (e.finRead <=> c.finRead)
           /\ e.hit = m.hit /\ e.tr = Append(c.tr, "SH") /\ e.hsTr = Append(c.tr, "SH")
           /\ e.rk = HandshakeKey(e)
           /\ c.ed # "none" \/ "client" \in opt.compat => e.wk = c.wk
           /\ ~(c.ed # "none" \/ "client" \in opt.compat) => e.wk = HandshakeKey(e)
<1> USE FieldsAre
<1>1. PICK g : g = Received(c, "client", m)
  OBVIOUS
<1>2. /\ Same(c, g, {"st", "v13", "finRead", "tr"}) /\ g.st = "CR_SRVR_HELLO" /\ g.tr = Append(c.tr, "SH")
      /\ g.v13 /\ (g.finRead <=> c.finRead)
  BY <1>1, ReceivedIs, ReadStatesAre DEF Hashed
<1>3. PICK d : d = Got(c, "client", m, hit)
  OBVIOUS
<1>4. PICK v00 : v00 = (m.hit)
  OBVIOUS
<1>5. v00 = (m.hit)
  BY <1>2, <1>4 DEF Same
<1>6. PICK h1 : h1 = [g EXCEPT !.hit = v00]
  OBVIOUS
<1>7. Same(c, h1, {"st", "v13", "finRead", "tr", "hit"}) /\ h1.st = "CR_SRVR_HELLO" /\ h1.tr = Append(c.tr, "SH") /\ h1.hit = v00 /\ h1.v13 /\ (h1.finRead <=> c.finRead)
  BY <1>2, <1>6 DEF Same
<1>8. PICK v10 : v10 = (h1.tr)
  OBVIOUS
<1>9. v10 = (Append(c.tr, "SH"))
  BY <1>7, <1>8 DEF Same
<1>10. PICK v11 : v11 = (<<"handshake", h1.tr, 0>>)
  OBVIOUS
<1>11. v11 = (<<"handshake", Append(c.tr, "SH"), 0>>)
  BY <1>7, <1>10 DEF Same
<1>12. PICK v12 : v12 = (IF h1.ed # "none" \/ "client" \in opt.compat THEN h1.wk ELSE <<"handshake", h1.tr, 0>>)
  OBVIOUS
<1>13. v12 = (IF c.ed # "none" \/ "client" \in opt.compat THEN c.wk ELSE <<"handshake", Append(c.tr, "SH"), 0>>)
  BY <1>7, <1>12 DEF Same
<1>14. d = [h1 EXCEPT !.hsTr = v10, !.rk = v11, !.wk = v12]
  BY <1>1, <1>2, <1>3, <1>6, <1>4, <1>8, <1>10, <1>12, <1>5, <1>9, <1>11, <1>13 DEF Got, Processed, Same, ClientProcess13, ServerHelloKeys, HandshakeKey, WriteKeysDeferred
<1>15. Same(c, d, {"st", "v13", "finRead", "tr", "hit", "hsTr", "rk", "wk"}) /\ d.st = "CR_SRVR_HELLO" /\ d.tr = Append(c.tr, "SH") /\ d.hit = v00 /\ d.hsTr = v10 /\ d.rk = v11 /\ d.wk = v12 /\ d.v13 /\ (d.finRead <=> c.finRead)
  BY <1>7, <1>14 DEF Same
<1>16. ~Ends(d, m)
  BY <1>15 DEF Ends, EndsReading13, EndsReading12, Same
<1>17. PICK e : e = Taken(c, "client", m, hit)
  OBVIOUS
<1>18. Same(d, e, {"ccs"})
  BY <1>3, <1>15, <1>16, <1>17, TakenIs DEF Same
<1>19. Same(c, e, {"st", "v13", "finRead", "tr", "hit", "hsTr", "rk", "wk", "ccs"}) /\ e.st = "CR_SRVR_HELLO" /\ e.tr = Append(c.tr, "SH") /\ e.hit = v00 /\ e.hsTr = v10 /\ e.rk = v11 /\ e.wk = v12 /\ (e.finRead <=> c.finRead) /\ e.v13
  BY <1>15, <1>18 DEF Same
<1> QED BY <1>17, <1>18, <1>19, <1>5, <1>9, <1>11, <1>13 DEF HandshakeKey

\* EncryptedExtensions.
LEMMA TookExtensions ==
    ASSUME NEW c, DOMAIN c = Fields, NEW m, NEW hit, m.mt = "EE",
           c.v13
    PROVE  LET e == Taken(c, "client", m, hit) IN
           /\ Same(c, e, {"st", "v13", "finRead", "tr", "early", "ccs"})
           /\ e.st = "CR_ENCRYPTED_EXTENSIONS" /\ e.v13 /\ (e.finRead <=> c.finRead)
           /\ e.tr = Append(c.tr, "EE") /\ e.early = (IF m.early THEN "accepted" ELSE c.early)
<1> USE FieldsAre
<1>1. PICK g : g = Received(c, "client", m)
  OBVIOUS
<1>2. /\ Same(c, g, {"st", "v13", "finRead", "tr"}) /\ g.st = "CR_ENCRYPTED_EXTENSIONS" /\ g.tr = Append(c.tr, "EE")
      /\ g.v13 /\ (g.finRead <=> c.finRead)
  BY <1>1, ReceivedIs, ReadStatesAre DEF Hashed
<1>3. PICK d : d = Got(c, "client", m, hit)
  OBVIOUS
<1>4. PICK v00 : v00 = (IF m.early THEN "accepted" ELSE g.early)
  OBVIOUS
<1>5. v00 = (IF m.early THEN "accepted" ELSE c.early)
  BY <1>2, <1>4 DEF Same
<1>6. d = [g EXCEPT !.early = v00]
  BY <1>1, <1>2, <1>3, <1>4, <1>5 DEF Got, Processed, Same, ClientProcess13
<1>7. Same(c, d, {"st", "v13", "finRead", "tr", "early"}) /\ d.st = "CR_ENCRYPTED_EXTENSIONS" /\ d.tr = Append(c.tr, "EE") /\ d.early = v00 /\ d.v13 /\ (d.finRead <=> c.finRead)
  BY <1>2, <1>6 DEF Same
<1>8. ~Ends(d, m)
  BY <1>7 DEF Ends, EndsReading13, EndsReading12, Same
<1>9. PICK e : e = Taken(c, "client", m, hit)
  OBVIOUS
<1>10. Same(d, e, {"ccs"})
  BY <1>3, <1>7, <1>8, <1>9, TakenIs DEF Same
<1>11. Same(c, e, {"st", "v13", "finRead", "tr", "early", "ccs"}) /\ e.st = "CR_ENCRYPTED_EXTENSIONS" /\ e.tr = Append(c.tr, "EE") /\ e.early = v00 /\ (e.finRead <=> c.finRead) /\ e.v13
  BY <1>7, <1>10 DEF Same
<1> QED BY <1>9, <1>10, <1>11, <1>5

\* A CertificateRequest of the first handshake.
LEMMA TookCertRequest ==
    ASSUME NEW c, DOMAIN c = Fields, NEW m, NEW hit, m.mt = "CR",
           c.v13,
           c.st # "OK",
           c.pha # "requested"
    PROVE  LET e == Taken(c, "client", m, hit) IN
           /\ Same(c, e, {"st", "v13", "finRead", "tr", "certReq", "ccs"})
           /\ e.st = "CR_CERT_REQ" /\ e.v13 /\ (e.finRead <=> c.finRead)
           /\ e.tr = Append(c.tr, "CR") /\ e.certReq = (IF opt.cert THEN "cert" ELSE "empty")
<1> USE FieldsAre
<1>1. PICK g : g = Received(c, "client", m)
  OBVIOUS
<1>2. /\ Same(c, g, {"st", "v13", "finRead", "tr"}) /\ g.st = "CR_CERT_REQ" /\ g.tr = Append(c.tr, "CR")
      /\ g.v13 /\ (g.finRead <=> c.finRead)
  BY <1>1, ReceivedIs, ReadStatesAre DEF Hashed
<1>3. PICK d : d = Got(c, "client", m, hit)
  OBVIOUS
<1>4. PICK v00 : v00 = (IF opt.cert THEN "cert" ELSE "empty")
  OBVIOUS
<1>5. v00 = (IF opt.cert THEN "cert" ELSE "empty")
  BY <1>2, <1>4 DEF Same
<1>6. d = [g EXCEPT !.certReq = v00]
  BY <1>1, <1>2, <1>3, <1>4, <1>5 DEF Got, Processed, Same, ClientProcess13
<1>7. Same(c, d, {"st", "v13", "finRead", "tr", "certReq"}) /\ d.st = "CR_CERT_REQ" /\ d.tr = Append(c.tr, "CR") /\ d.certReq = v00 /\ d.v13 /\ (d.finRead <=> c.finRead)
  BY <1>2, <1>6 DEF Same
<1>8. ~Ends(d, m)
  BY <1>7 DEF Ends, EndsReading13, EndsReading12, Same
<1>9. PICK e : e = Taken(c, "client", m, hit)
  OBVIOUS
<1>10. Same(d, e, {"ccs"})
  BY <1>3, <1>7, <1>8, <1>9, TakenIs DEF Same
<1>11. Same(c, e, {"st", "v13", "finRead", "tr", "certReq", "ccs"}) /\ e.st = "CR_CERT_REQ" /\ e.tr = Append(c.tr, "CR") /\ e.certReq = v00 /\ (e.finRead <=> c.finRead) /\ e.v13
  BY <1>7, <1>10 DEF Same
<1> QED BY <1>9, <1>10, <1>11, <1>5

\* A CertificateRequest after the handshake.
LEMMA TookPhaRequest ==
    ASSUME NEW c, DOMAIN c = Fields, NEW m, NEW hit, m.mt = "CR",
           c.v13,
           c.st = "OK"
    PROVE  LET e == Taken(c, "client", m, hit) IN
           /\ Same(c, e, {"st", "v13", "finRead", "tr", "pha", "certReq", "flow", "ccs"})
           /\ e.st = "CR_CERT_REQ" /\ e.v13 /\ (e.finRead <=> c.finRead)
           /\ e.flow = "WRITING"
           /\ e.tr = Append(c.phaTr, "CR") /\ e.certReq = (IF opt.cert THEN "cert" ELSE "empty")
           /\ e.pha = "requested"
<1> USE FieldsAre
<1>1. PICK g : g = Received(c, "client", m)
  OBVIOUS
<1>2. /\ Same(c, g, {"st", "v13", "finRead", "tr", "pha"}) /\ g.st = "CR_CERT_REQ" /\ g.tr = Append(c.phaTr, "CR")
      /\ g.v13 /\ (g.finRead <=> c.finRead)
      /\ g.pha = "requested"
  BY <1>1, ReceivedRequest, ReadStatesAre DEF Hashed
<1>3. PICK d : d = Got(c, "client", m, hit)
  OBVIOUS
<1>4. PICK v00 : v00 = (IF opt.cert THEN "cert" ELSE "empty")
  OBVIOUS
<1>5. v00 = (IF opt.cert THEN "cert" ELSE "empty")
  BY <1>2, <1>4 DEF Same
<1>6. d = [g EXCEPT !.certReq = v00]
  BY <1>1, <1>2, <1>3, <1>4, <1>5 DEF Got, Processed, Same, ClientProcess13
<1>7. Same(c, d, {"st", "v13", "finRead", "tr", "pha", "certReq"}) /\ d.st = "CR_CERT_REQ" /\ d.tr = Append(c.phaTr, "CR") /\ d.pha = "requested" /\ d.certReq = v00 /\ d.v13 /\ (d.finRead <=> c.finRead)
  BY <1>2, <1>6 DEF Same
<1>8. Ends(d, m)
  BY <1>7 DEF Ends, EndsReading13, EndsReading12, Same
<1>9. PICK e : e = Taken(c, "client", m, hit)
  OBVIOUS
<1>10. Same(d, e, {"flow", "ccs"}) /\ e.flow = "WRITING"
  BY <1>3, <1>7, <1>8, <1>9, TakenIs DEF Same
<1>11. Same(c, e, {"st", "v13", "finRead", "tr", "pha", "certReq", "flow", "ccs"}) /\ e.st = "CR_CERT_REQ" /\ e.tr = Append(c.phaTr, "CR") /\ e.pha = "requested" /\ e.certReq = v00 /\ (e.finRead <=> c.finRead) /\ e.v13
  BY <1>7, <1>10 DEF Same
<1> QED BY <1>9, <1>10, <1>11, <1>5

\* The certificate of the server.
LEMMA TookServerCert ==
    ASSUME NEW c, DOMAIN c = Fields, NEW m, NEW hit, m.mt = "CERT",
           c.v13
    PROVE  LET e == Taken(c, "client", m, hit) IN
           /\ Same(c, e, {"st", "v13", "finRead", "tr", "ccs"})
           /\ e.st = "CR_CERT" /\ e.v13 /\ (e.finRead <=> c.finRead)
           /\ e.tr = Append(c.tr, "CERT")
<1> USE FieldsAre
<1>1. PICK g : g = Received(c, "client", m)
  OBVIOUS
<1>2. /\ Same(c, g, {"st", "v13", "finRead", "tr"}) /\ g.st = "CR_CERT" /\ g.tr = Append(c.tr, "CERT")
      /\ g.v13 /\ (g.finRead <=> c.finRead)
  BY <1>1, ReceivedIs, ReadStatesAre DEF Hashed
<1>3. PICK d : d = Got(c, "client", m, hit)
  OBVIOUS
<1>4. d = g
  BY <1>1, <1>2, <1>3 DEF Got, Processed, Same, ClientProcess13
<1>5. /\ Same(c, d, {"st", "v13", "finRead", "tr"}) /\ d.st = "CR_CERT" /\ d.tr = Append(c.tr, "CERT")
      /\ d.v13 /\ (d.finRead <=> c.finRead)
  BY <1>2, <1>4
<1>6. ~Ends(d, m)
  BY <1>5 DEF Ends, EndsReading13, EndsReading12, Same
<1>7. PICK e : e = Taken(c, "client", m, hit)
  OBVIOUS
<1>8. Same(d, e, {"ccs"})
  BY <1>3, <1>5, <1>6, <1>7, TakenIs DEF Same
<1>9. Same(c, e, {"st", "v13", "finRead", "tr", "ccs"}) /\ e.st = "CR_CERT" /\ e.tr = Append(c.tr, "CERT") /\ (e.finRead <=> c.finRead) /\ e.v13
  BY <1>5, <1>8 DEF Same
<1> QED BY <1>7, <1>8, <1>9

\* The CertificateVerify of the server.
LEMMA TookServerVerify ==
    ASSUME NEW c, DOMAIN c = Fields, NEW m, NEW hit, m.mt = "CV",
           c.v13
    PROVE  LET e == Taken(c, "client", m, hit) IN
           /\ Same(c, e, {"st", "v13", "finRead", "tr", "ccs"})
           /\ e.st = "CR_CERT_VRFY" /\ e.v13 /\ (e.finRead <=> c.finRead)
           /\ e.tr = Append(c.tr, "CV")
<1> USE FieldsAre
<1>1. PICK g : g = Received(c, "client", m)
  OBVIOUS
<1>2. /\ Same(c, g, {"st", "v13", "finRead", "tr"}) /\ g.st = "CR_CERT_VRFY" /\ g.tr = Append(c.tr, "CV")
      /\ g.v13 /\ (g.finRead <=> c.finRead)
  BY <1>1, ReceivedIs, ReadStatesAre DEF Hashed
<1>3. PICK d : d = Got(c, "client", m, hit)
  OBVIOUS
<1>4. d = g
  BY <1>1, <1>2, <1>3 DEF Got, Processed, Same, ClientProcess13
<1>5. /\ Same(c, d, {"st", "v13", "finRead", "tr"}) /\ d.st = "CR_CERT_VRFY" /\ d.tr = Append(c.tr, "CV")
      /\ d.v13 /\ (d.finRead <=> c.finRead)
  BY <1>2, <1>4
<1>6. ~Ends(d, m)
  BY <1>5 DEF Ends, EndsReading13, EndsReading12, Same
<1>7. PICK e : e = Taken(c, "client", m, hit)
  OBVIOUS
<1>8. Same(d, e, {"ccs"})
  BY <1>3, <1>5, <1>6, <1>7, TakenIs DEF Same
<1>9. Same(c, e, {"st", "v13", "finRead", "tr", "ccs"}) /\ e.st = "CR_CERT_VRFY" /\ e.tr = Append(c.tr, "CV") /\ (e.finRead <=> c.finRead) /\ e.v13
  BY <1>5, <1>8 DEF Same
<1> QED BY <1>7, <1>8, <1>9

\* The Finished of the server.
LEMMA TookServerFinished ==
    ASSUME NEW c, DOMAIN c = Fields, NEW m, NEW hit, m.mt = "FIN",
           c.v13
    PROVE  LET e == Taken(c, "client", m, hit) IN
           /\ Same(c, e, {"st", "v13", "finRead", "tr", "sfTr", "rk", "flow", "ccs"})
           /\ e.st = "CR_FINISHED" /\ e.v13 /\ e.finRead
           /\ e.flow = "WRITING"
           /\ e.tr = Append(c.tr, "FIN") /\ e.sfTr = Append(c.tr, "FIN") /\ e.rk = <<"app", Append(c.tr, "FIN"), 0>>
<1> USE FieldsAre
<1>1. PICK g : g = Received(c, "client", m)
  OBVIOUS
<1>2. /\ Same(c, g, {"st", "v13", "finRead", "tr"}) /\ g.st = "CR_FINISHED" /\ g.tr = Append(c.tr, "FIN")
      /\ g.v13 /\ g.finRead
  BY <1>1, ReceivedIs, ReadStatesAre DEF Hashed
<1>3. PICK d : d = Got(c, "client", m, hit)
  OBVIOUS
<1>4. PICK v00 : v00 = (g.tr)
  OBVIOUS
<1>5. v00 = (Append(c.tr, "FIN"))
  BY <1>2, <1>4 DEF Same
<1>6. PICK v01 : v01 = (<<"app", g.tr, 0>>)
  OBVIOUS
<1>7. v01 = (<<"app", Append(c.tr, "FIN"), 0>>)
  BY <1>2, <1>6 DEF Same
<1>8. d = [g EXCEPT !.sfTr = v00, !.rk = v01]
  BY <1>1, <1>2, <1>3, <1>4, <1>6, <1>5, <1>7 DEF Got, Processed, Same, ClientProcess13, AppKey
<1>9. Same(c, d, {"st", "v13", "finRead", "tr", "sfTr", "rk"}) /\ d.st = "CR_FINISHED" /\ d.tr = Append(c.tr, "FIN") /\ d.sfTr = v00 /\ d.rk = v01 /\ d.v13 /\ d.finRead
  BY <1>2, <1>8 DEF Same
<1>10. Ends(d, m)
  BY <1>9 DEF Ends, EndsReading13, EndsReading12, Same
<1>11. PICK e : e = Taken(c, "client", m, hit)
  OBVIOUS
<1>12. Same(d, e, {"flow", "ccs"}) /\ e.flow = "WRITING"
  BY <1>3, <1>9, <1>10, <1>11, TakenIs DEF Same
<1>13. Same(c, e, {"st", "v13", "finRead", "tr", "sfTr", "rk", "flow", "ccs"}) /\ e.st = "CR_FINISHED" /\ e.tr = Append(c.tr, "FIN") /\ e.sfTr = v00 /\ e.rk = v01 /\ e.finRead /\ e.v13
  BY <1>9, <1>12 DEF Same
<1> QED BY <1>11, <1>12, <1>13, <1>5, <1>7

\* A NewSessionTicket.
LEMMA TookTicket ==
    ASSUME NEW c, DOMAIN c = Fields, NEW m, NEW hit, m.mt = "NST",
           c.v13
    PROVE  LET e == Taken(c, "client", m, hit) IN
           /\ Same(c, e, {"st", "v13", "finRead", "tr", "flow", "ccs"})
           /\ e.st = "CR_SESSION_TICKET" /\ e.v13 /\ (e.finRead <=> c.finRead)
           /\ e.flow = "WRITING"
           /\ e.tr = c.tr
<1> USE FieldsAre
<1>1. PICK g : g = Received(c, "client", m)
  OBVIOUS
<1>2. /\ Same(c, g, {"st", "v13", "finRead", "tr"}) /\ g.st = "CR_SESSION_TICKET" /\ g.tr = c.tr
      /\ g.v13 /\ (g.finRead <=> c.finRead)
  BY <1>1, ReceivedIs, ReadStatesAre DEF Hashed
<1>3. PICK d : d = Got(c, "client", m, hit)
  OBVIOUS
<1>4. d = g
  BY <1>1, <1>2, <1>3 DEF Got, Processed, Same, ClientProcess13
<1>5. /\ Same(c, d, {"st", "v13", "finRead", "tr"}) /\ d.st = "CR_SESSION_TICKET" /\ d.tr = c.tr
      /\ d.v13 /\ (d.finRead <=> c.finRead)
  BY <1>2, <1>4
<1>6. Ends(d, m)
  BY <1>5 DEF Ends, EndsReading13, EndsReading12, Same
<1>7. PICK e : e = Taken(c, "client", m, hit)
  OBVIOUS
<1>8. Same(d, e, {"flow", "ccs"}) /\ e.flow = "WRITING"
  BY <1>3, <1>5, <1>6, <1>7, TakenIs DEF Same
<1>9. Same(c, e, {"st", "v13", "finRead", "tr", "flow", "ccs"}) /\ e.st = "CR_SESSION_TICKET" /\ e.tr = c.tr /\ (e.finRead <=> c.finRead) /\ e.v13
  BY <1>5, <1>8 DEF Same
<1> QED BY <1>7, <1>8, <1>9

\* A KeyUpdate.
LEMMA ClientTookKeyUpdate ==
    ASSUME NEW c, DOMAIN c = Fields, NEW m, NEW hit, m.mt = "KU",
           c.v13
    PROVE  LET e == Taken(c, "client", m, hit) IN
           /\ Same(c, e, {"st", "v13", "finRead", "tr", "rk", "keyUpdate", "flow", "ccs"})
           /\ e.st = "CR_KEY_UPDATE" /\ e.v13 /\ (e.finRead <=> c.finRead)
           /\ e.flow = "WRITING"
           /\ e.tr = c.tr /\ e.rk = UpdatedKey(c.rk)
           /\ e.keyUpdate = (IF m.request THEN "notRequested" ELSE c.keyUpdate)
<1> USE FieldsAre
<1>1. PICK g : g = Received(c, "client", m)
  OBVIOUS
<1>2. /\ Same(c, g, {"st", "v13", "finRead", "tr"}) /\ g.st = "CR_KEY_UPDATE" /\ g.tr = c.tr
      /\ g.v13 /\ (g.finRead <=> c.finRead)
  BY <1>1, ReceivedIs, ReadStatesAre DEF Hashed
<1>3. PICK d : d = Got(c, "client", m, hit)
  OBVIOUS
<1>4. PICK v00 : v00 = (UpdatedKey(g.rk))
  OBVIOUS
<1>5. v00 = (UpdatedKey(c.rk))
  BY <1>2, <1>4 DEF Same
<1>6. PICK v01 : v01 = (IF m.request THEN "notRequested" ELSE g.keyUpdate)
  OBVIOUS
<1>7. v01 = (IF m.request THEN "notRequested" ELSE c.keyUpdate)
  BY <1>2, <1>6 DEF Same
<1>8. d = ProcessKeyUpdate(g, m)
  BY <1>1, <1>3 DEF Got, Processed
<1>9. d = [g EXCEPT !.rk = v00, !.keyUpdate = v01]
  BY <1>8, <1>4, <1>6, Zenon DEF ProcessKeyUpdate
<1>10. Same(c, d, {"st", "v13", "finRead", "tr", "rk", "keyUpdate"}) /\ d.st = "CR_KEY_UPDATE" /\ d.tr = c.tr /\ d.rk = v00 /\ d.keyUpdate = v01 /\ d.v13 /\ (d.finRead <=> c.finRead)
  BY <1>2, <1>9 DEF Same
<1>11. Ends(d, m)
  BY <1>10 DEF Ends, EndsReading13, EndsReading12, Same
<1>12. PICK e : e = Taken(c, "client", m, hit)
  OBVIOUS
<1>13. Same(d, e, {"flow", "ccs"}) /\ e.flow = "WRITING"
  BY <1>3, <1>10, <1>11, <1>12, TakenIs DEF Same
<1>14. Same(c, e, {"st", "v13", "finRead", "tr", "rk", "keyUpdate", "flow", "ccs"}) /\ e.st = "CR_KEY_UPDATE" /\ e.tr = c.tr /\ e.rk = v00 /\ e.keyUpdate = v01 /\ (e.finRead <=> c.finRead) /\ e.v13
  BY <1>10, <1>13 DEF Same
<1> QED BY <1>12, <1>13, <1>14, <1>5, <1>7

\* A KeyUpdate.
LEMMA ServerTookKeyUpdate ==
    ASSUME NEW c, DOMAIN c = Fields, NEW m, NEW hit, m.mt = "KU",
           c.v13
    PROVE  LET e == Taken(c, "server", m, hit) IN
           /\ Same(c, e, {"st", "v13", "finRead", "tr", "rk", "keyUpdate", "flow", "ccs"})
           /\ e.st = "SR_KEY_UPDATE" /\ e.v13 /\ (e.finRead <=> c.finRead)
           /\ e.flow = "WRITING"
           /\ e.tr = c.tr /\ e.rk = UpdatedKey(c.rk)
           /\ e.keyUpdate = (IF m.request THEN "notRequested" ELSE c.keyUpdate)
<1> USE FieldsAre
<1>1. PICK g : g = Received(c, "server", m)
  OBVIOUS
<1>2. /\ Same(c, g, {"st", "v13", "finRead", "tr"}) /\ g.st = "SR_KEY_UPDATE" /\ g.tr = c.tr
      /\ g.v13 /\ (g.finRead <=> c.finRead)
  BY <1>1, ReceivedIs, ReadStatesAre DEF Hashed
<1>3. PICK d : d = Got(c, "server", m, hit)
  OBVIOUS
<1>4. PICK v00 : v00 = (UpdatedKey(g.rk))
  OBVIOUS
<1>5. v00 = (UpdatedKey(c.rk))
  BY <1>2, <1>4 DEF Same
<1>6. PICK v01 : v01 = (IF m.request THEN "notRequested" ELSE g.keyUpdate)
  OBVIOUS
<1>7. v01 = (IF m.request THEN "notRequested" ELSE c.keyUpdate)
  BY <1>2, <1>6 DEF Same
<1>8. d = ProcessKeyUpdate(g, m)
  BY <1>1, <1>3 DEF Got, Processed
<1>9. d = [g EXCEPT !.rk = v00, !.keyUpdate = v01]
  BY <1>8, <1>4, <1>6, Zenon DEF ProcessKeyUpdate
<1>10. Same(c, d, {"st", "v13", "finRead", "tr", "rk", "keyUpdate"}) /\ d.st = "SR_KEY_UPDATE" /\ d.tr = c.tr /\ d.rk = v00 /\ d.keyUpdate = v01 /\ d.v13 /\ (d.finRead <=> c.finRead)
  BY <1>2, <1>9 DEF Same
<1>11. Ends(d, m)
  BY <1>10 DEF Ends, EndsReading13, EndsReading12, Same
<1>12. PICK e : e = Taken(c, "server", m, hit)
  OBVIOUS
<1>13. Same(d, e, {"flow", "ccs"}) /\ e.flow = "WRITING"
  BY <1>3, <1>10, <1>11, <1>12, TakenIs DEF Same
<1>14. Same(c, e, {"st", "v13", "finRead", "tr", "rk", "keyUpdate", "flow", "ccs"}) /\ e.st = "SR_KEY_UPDATE" /\ e.tr = c.tr /\ e.rk = v00 /\ e.keyUpdate = v01 /\ (e.finRead <=> c.finRead) /\ e.v13
  BY <1>10, <1>13 DEF Same
<1> QED BY <1>12, <1>13, <1>14, <1>5, <1>7

\* A ClientHello without early data.
LEMMA TookPlainHello ==
    ASSUME NEW c, DOMAIN c = Fields, NEW m, NEW hit, m.mt = "CH",
           opt.ver = 13,
           ~m.early
    PROVE  LET e == Taken(c, "server", m, hit) IN
           /\ Same(c, e, {"st", "v13", "finRead", "tr", "hit", "ticket", "pha", "hrr", "flow", "ccs"})
           /\ e.st = "SR_CLNT_HELLO" /\ e.v13 /\ (e.finRead <=> c.finRead)
           /\ e.flow = "WRITING"
           /\ e.hit = opt.hit /\ e.tr = Append(c.tr, "CH") /\ e.pha = (IF m.pha THEN "ext" ELSE c.pha)
           /\ e.hrr = (IF c.hrr = "pending" THEN "complete" ELSE IF c.hrr = "none" /\ opt.hrr THEN "pending" ELSE c.hrr)
<1> USE FieldsAre
<1>1. PICK g : g = Received(c, "server", m)
  OBVIOUS
<1>2. /\ Same(c, g, {"st", "v13", "finRead", "tr"}) /\ g.st = "SR_CLNT_HELLO" /\ g.tr = Append(c.tr, "CH")
      /\ (g.finRead <=> c.finRead)
  BY <1>1, ReceivedIs, ReadStatesAre DEF Hashed
<1>3. PICK d : d = Got(c, "server", m, hit)
  OBVIOUS
<1>4. PICK v00 : v00 = (TRUE)
  OBVIOUS
<1>5. v00 = (TRUE)
  BY <1>2, <1>4 DEF Same
<1>6. PICK v01 : v01 = (opt.hit)
  OBVIOUS
<1>7. v01 = (opt.hit)
  BY <1>2, <1>6 DEF Same
<1>8. PICK v02 : v02 = (opt.tickets > 0)
  OBVIOUS
<1>9. v02 = (opt.tickets > 0)
  BY <1>2, <1>8 DEF Same
<1>10. PICK v03 : v03 = (IF m.pha THEN "ext" ELSE g.pha)
  OBVIOUS
<1>11. v03 = (IF m.pha THEN "ext" ELSE c.pha)
  BY <1>2, <1>10 DEF Same
<1>12. PICK v04 : v04 = (IF g.hrr = "pending" THEN "complete" ELSE IF g.hrr = "none" /\ opt.hrr THEN "pending" ELSE g.hrr)
  OBVIOUS
<1>13. v04 = (IF c.hrr = "pending" THEN "complete" ELSE IF c.hrr = "none" /\ opt.hrr THEN "pending" ELSE c.hrr)
  BY <1>2, <1>12 DEF Same
<1>14. d = [g EXCEPT !.v13 = v00, !.hit = v01, !.ticket = v02, !.pha = v03, !.hrr = v04]
  BY <1>1, <1>2, <1>3, <1>4, <1>6, <1>8, <1>10, <1>12, <1>5, <1>7, <1>9, <1>11, <1>13 DEF Got, Processed, Same, ServerProcess13, ClientHello13, AcceptsEarlyData, EarlyKey
<1>15. Same(c, d, {"st", "v13", "finRead", "tr", "hit", "ticket", "pha", "hrr"}) /\ d.st = "SR_CLNT_HELLO" /\ d.tr = Append(c.tr, "CH") /\ d.v13 = v00 /\ d.hit = v01 /\ d.ticket = v02 /\ d.pha = v03 /\ d.hrr = v04 /\ (d.finRead <=> c.finRead)
  BY <1>2, <1>14 DEF Same
<1>16. d.v13
  BY <1>15, <1>5, <1>7, <1>9, <1>11, <1>13
<1>17. Ends(d, m)
  BY <1>15, <1>16 DEF Ends, EndsReading13, EndsReading12, Same
<1>18. PICK e : e = Taken(c, "server", m, hit)
  OBVIOUS
<1>19. Same(d, e, {"flow", "ccs"}) /\ e.flow = "WRITING"
  BY <1>3, <1>15, <1>17, <1>18, TakenIs DEF Same
<1>20. Same(c, e, {"st", "v13", "finRead", "tr", "hit", "ticket", "pha", "hrr", "flow", "ccs"}) /\ e.st = "SR_CLNT_HELLO" /\ e.tr = Append(c.tr, "CH") /\ e.v13 = v00 /\ e.hit = v01 /\ e.ticket = v02 /\ e.pha = v03 /\ e.hrr = v04 /\ (e.finRead <=> c.finRead) /\ e.v13
  BY <1>15, <1>19, <1>16 DEF Same
<1> QED BY <1>18, <1>19, <1>20, <1>5, <1>7, <1>9, <1>11, <1>13

\* A ClientHello whose early data is taken.
LEMMA TookEarlyHello ==
    ASSUME NEW c, DOMAIN c = Fields, NEW m, NEW hit, m.mt = "CH",
           opt.ver = 13,
           m.early,
           Accepted,
           c.ed = "accepting",
           c.hrr = "none"
    PROVE  LET e == Taken(c, "server", m, hit) IN
           /\ Same(c, e, {"st", "v13", "finRead", "tr", "hit", "ticket", "pha", "hrr", "early", "rk", "flow", "ccs"})
           /\ e.st = "SR_CLNT_HELLO" /\ e.v13 /\ (e.finRead <=> c.finRead)
           /\ e.flow = "WRITING"
           /\ e.hit = opt.hit /\ e.tr = Append(c.tr, "CH") /\ e.pha = (IF m.pha THEN "ext" ELSE c.pha)
           /\ e.hrr = "none"
           /\ e.early = "accepted" /\ e.rk = EarlyKey(e)
<1> USE FieldsAre
<1>1. PICK g : g = Received(c, "server", m)
  OBVIOUS
<1>2. /\ Same(c, g, {"st", "v13", "finRead", "tr"}) /\ g.st = "SR_CLNT_HELLO" /\ g.tr = Append(c.tr, "CH")
      /\ (g.finRead <=> c.finRead)
  BY <1>1, ReceivedIs, ReadStatesAre DEF Hashed
<1>3. PICK d : d = Got(c, "server", m, hit)
  OBVIOUS
<1>4. PICK v00 : v00 = (TRUE)
  OBVIOUS
<1>5. v00 = (TRUE)
  BY <1>2, <1>4 DEF Same
<1>6. PICK v01 : v01 = (opt.hit)
  OBVIOUS
<1>7. v01 = (opt.hit)
  BY <1>2, <1>6 DEF Same
<1>8. PICK v02 : v02 = (opt.tickets > 0)
  OBVIOUS
<1>9. v02 = (opt.tickets > 0)
  BY <1>2, <1>8 DEF Same
<1>10. PICK v03 : v03 = (IF m.pha THEN "ext" ELSE g.pha)
  OBVIOUS
<1>11. v03 = (IF m.pha THEN "ext" ELSE c.pha)
  BY <1>2, <1>10 DEF Same
<1>12. PICK v04 : v04 = (IF g.hrr = "pending" THEN "complete" ELSE IF g.hrr = "none" /\ opt.hrr THEN "pending" ELSE g.hrr)
  OBVIOUS
<1>13. v04 = (IF c.hrr = "pending" THEN "complete" ELSE IF c.hrr = "none" /\ opt.hrr THEN "pending" ELSE c.hrr)
  BY <1>2, <1>12 DEF Same
<1>14. PICK h1 : h1 = [g EXCEPT !.v13 = v00, !.hit = v01, !.ticket = v02, !.pha = v03, !.hrr = v04]
  OBVIOUS
<1>15. Same(c, h1, {"st", "v13", "finRead", "tr", "hit", "ticket", "pha", "hrr"}) /\ h1.st = "SR_CLNT_HELLO" /\ h1.tr = Append(c.tr, "CH") /\ h1.v13 = v00 /\ h1.hit = v01 /\ h1.ticket = v02 /\ h1.pha = v03 /\ h1.hrr = v04 /\ (h1.finRead <=> c.finRead)
  BY <1>2, <1>14 DEF Same
<1>16. PICK v10 : v10 = ("accepted")
  OBVIOUS
<1>17. v10 = ("accepted")
  BY <1>15, <1>16 DEF Same
<1>18. PICK v11 : v11 = (<<"early", h1.tr, 0>>)
  OBVIOUS
<1>19. v11 = (<<"early", Append(c.tr, "CH"), 0>>)
  BY <1>15, <1>18 DEF Same
<1>20. d = [h1 EXCEPT !.early = v10, !.rk = v11]
  BY <1>1, <1>2, <1>3, <1>14, <1>4, <1>6, <1>8, <1>10, <1>12, <1>16, <1>18, <1>5, <1>7, <1>9, <1>11, <1>13, <1>17, <1>19 DEF Got, Processed, Same, ServerProcess13, ClientHello13, AcceptsEarlyData, EarlyKey, Accepted
<1>21. Same(c, d, {"st", "v13", "finRead", "tr", "hit", "ticket", "pha", "hrr", "early", "rk"}) /\ d.st = "SR_CLNT_HELLO" /\ d.tr = Append(c.tr, "CH") /\ d.v13 = v00 /\ d.hit = v01 /\ d.ticket = v02 /\ d.pha = v03 /\ d.hrr = v04 /\ d.early = v10 /\ d.rk = v11 /\ (d.finRead <=> c.finRead)
  BY <1>15, <1>20 DEF Same
<1>22. d.v13
  BY <1>21, <1>5, <1>7, <1>9, <1>11, <1>13, <1>17, <1>19
<1>23. Ends(d, m)
  BY <1>21, <1>22 DEF Ends, EndsReading13, EndsReading12, Same
<1>24. PICK e : e = Taken(c, "server", m, hit)
  OBVIOUS
<1>25. Same(d, e, {"flow", "ccs"}) /\ e.flow = "WRITING"
  BY <1>3, <1>21, <1>23, <1>24, TakenIs DEF Same
<1>26. Same(c, e, {"st", "v13", "finRead", "tr", "hit", "ticket", "pha", "hrr", "early", "rk", "flow", "ccs"}) /\ e.st = "SR_CLNT_HELLO" /\ e.tr = Append(c.tr, "CH") /\ e.v13 = v00 /\ e.hit = v01 /\ e.ticket = v02 /\ e.pha = v03 /\ e.hrr = v04 /\ e.early = v10 /\ e.rk = v11 /\ (e.finRead <=> c.finRead) /\ e.v13
  BY <1>21, <1>25, <1>22 DEF Same
<1> QED BY <1>24, <1>25, <1>26, <1>5, <1>7, <1>9, <1>11, <1>13, <1>17, <1>19 DEF EarlyKey, Accepted

\* A ClientHello whose early data is not taken.
LEMMA TookRefusedHello ==
    ASSUME NEW c, DOMAIN c = Fields, NEW m, NEW hit, m.mt = "CH",
           opt.ver = 13,
           m.early,
           ~(opt.hit /\ c.ed = "accepting" /\ c.hrr = "none" /\ ~opt.hrr)
    PROVE  LET e == Taken(c, "server", m, hit) IN
           /\ Same(c, e, {"st", "v13", "finRead", "tr", "hit", "ticket", "pha", "hrr", "early", "flow", "ccs"})
           /\ e.st = "SR_CLNT_HELLO" /\ e.v13 /\ (e.finRead <=> c.finRead)
           /\ e.flow = "WRITING"
           /\ e.hit = opt.hit /\ e.tr = Append(c.tr, "CH") /\ e.pha = (IF m.pha THEN "ext" ELSE c.pha)
           /\ e.hrr = (IF c.hrr = "pending" THEN "complete" ELSE IF c.hrr = "none" /\ opt.hrr THEN "pending" ELSE c.hrr)
           /\ e.early = "rejected"
<1> USE FieldsAre
<1>1. PICK g : g = Received(c, "server", m)
  OBVIOUS
<1>2. /\ Same(c, g, {"st", "v13", "finRead", "tr"}) /\ g.st = "SR_CLNT_HELLO" /\ g.tr = Append(c.tr, "CH")
      /\ (g.finRead <=> c.finRead)
  BY <1>1, ReceivedIs, ReadStatesAre DEF Hashed
<1>3. PICK d : d = Got(c, "server", m, hit)
  OBVIOUS
<1>4. PICK v00 : v00 = (TRUE)
  OBVIOUS
<1>5. v00 = (TRUE)
  BY <1>2, <1>4 DEF Same
<1>6. PICK v01 : v01 = (opt.hit)
  OBVIOUS
<1>7. v01 = (opt.hit)
  BY <1>2, <1>6 DEF Same
<1>8. PICK v02 : v02 = (opt.tickets > 0)
  OBVIOUS
<1>9. v02 = (opt.tickets > 0)
  BY <1>2, <1>8 DEF Same
<1>10. PICK v03 : v03 = (IF m.pha THEN "ext" ELSE g.pha)
  OBVIOUS
<1>11. v03 = (IF m.pha THEN "ext" ELSE c.pha)
  BY <1>2, <1>10 DEF Same
<1>12. PICK v04 : v04 = (IF g.hrr = "pending" THEN "complete" ELSE IF g.hrr = "none" /\ opt.hrr THEN "pending" ELSE g.hrr)
  OBVIOUS
<1>13. v04 = (IF c.hrr = "pending" THEN "complete" ELSE IF c.hrr = "none" /\ opt.hrr THEN "pending" ELSE c.hrr)
  BY <1>2, <1>12 DEF Same
<1>14. PICK h1 : h1 = [g EXCEPT !.v13 = v00, !.hit = v01, !.ticket = v02, !.pha = v03, !.hrr = v04]
  OBVIOUS
<1>15. Same(c, h1, {"st", "v13", "finRead", "tr", "hit", "ticket", "pha", "hrr"}) /\ h1.st = "SR_CLNT_HELLO" /\ h1.tr = Append(c.tr, "CH") /\ h1.v13 = v00 /\ h1.hit = v01 /\ h1.ticket = v02 /\ h1.pha = v03 /\ h1.hrr = v04 /\ (h1.finRead <=> c.finRead)
  BY <1>2, <1>14 DEF Same
<1>16. PICK v10 : v10 = ("rejected")
  OBVIOUS
<1>17. v10 = ("rejected")
  BY <1>15, <1>16 DEF Same
<1>18. d = [h1 EXCEPT !.early = v10]
  BY <1>1, <1>2, <1>3, <1>14, <1>4, <1>6, <1>8, <1>10, <1>12, <1>16, <1>5, <1>7, <1>9, <1>11, <1>13, <1>17 DEF Got, Processed, Same, ServerProcess13, ClientHello13, AcceptsEarlyData, EarlyKey
<1>19. Same(c, d, {"st", "v13", "finRead", "tr", "hit", "ticket", "pha", "hrr", "early"}) /\ d.st = "SR_CLNT_HELLO" /\ d.tr = Append(c.tr, "CH") /\ d.v13 = v00 /\ d.hit = v01 /\ d.ticket = v02 /\ d.pha = v03 /\ d.hrr = v04 /\ d.early = v10 /\ (d.finRead <=> c.finRead)
  BY <1>15, <1>18 DEF Same
<1>20. d.v13
  BY <1>19, <1>5, <1>7, <1>9, <1>11, <1>13, <1>17
<1>21. Ends(d, m)
  BY <1>19, <1>20 DEF Ends, EndsReading13, EndsReading12, Same
<1>22. PICK e : e = Taken(c, "server", m, hit)
  OBVIOUS
<1>23. Same(d, e, {"flow", "ccs"}) /\ e.flow = "WRITING"
  BY <1>3, <1>19, <1>21, <1>22, TakenIs DEF Same
<1>24. Same(c, e, {"st", "v13", "finRead", "tr", "hit", "ticket", "pha", "hrr", "early", "flow", "ccs"}) /\ e.st = "SR_CLNT_HELLO" /\ e.tr = Append(c.tr, "CH") /\ e.v13 = v00 /\ e.hit = v01 /\ e.ticket = v02 /\ e.pha = v03 /\ e.hrr = v04 /\ e.early = v10 /\ (e.finRead <=> c.finRead) /\ e.v13
  BY <1>19, <1>23, <1>20 DEF Same
<1> QED BY <1>22, <1>23, <1>24, <1>5, <1>7, <1>9, <1>11, <1>13, <1>17

\* EndOfEarlyData.
LEMMA TookEndOfEarlyData ==
    ASSUME NEW c, DOMAIN c = Fields, NEW m, NEW hit, m.mt = "EOED",
           opt.ver = 13,
           c.v13,
           c.ed = "reading"
    PROVE  LET e == Taken(c, "server", m, hit) IN
           /\ Same(c, e, {"st", "v13", "finRead", "tr", "ed", "rk", "ccs"})
           /\ e.st = "SR_END_OF_EARLY_DATA" /\ e.v13 /\ (e.finRead <=> c.finRead)
           /\ e.ed = "finishedReading" /\ e.rk = HandshakeKey(c) /\ e.tr = Append(c.tr, "EOED")
<1> USE FieldsAre
<1>1. PICK g : g = Received(c, "server", m)
  OBVIOUS
<1>2. /\ Same(c, g, {"st", "v13", "finRead", "tr"}) /\ g.st = "SR_END_OF_EARLY_DATA" /\ g.tr = Append(c.tr, "EOED")
      /\ g.v13 /\ (g.finRead <=> c.finRead)
  BY <1>1, ReceivedIs, ReadStatesAre DEF Hashed
<1>3. PICK d : d = Got(c, "server", m, hit)
  OBVIOUS
<1>4. PICK v00 : v00 = ("finishedReading")
  OBVIOUS
<1>5. v00 = ("finishedReading")
  BY <1>2, <1>4 DEF Same
<1>6. PICK v01 : v01 = (<<"handshake", g.hsTr, 0>>)
  OBVIOUS
<1>7. v01 = (<<"handshake", c.hsTr, 0>>)
  BY <1>2, <1>6 DEF Same
<1>8. d = [g EXCEPT !.ed = v00, !.rk = v01]
  BY <1>1, <1>2, <1>3, <1>4, <1>6, <1>5, <1>7 DEF Got, Processed, Same, ServerProcess13, HandshakeKey
<1>9. Same(c, d, {"st", "v13", "finRead", "tr", "ed", "rk"}) /\ d.st = "SR_END_OF_EARLY_DATA" /\ d.tr = Append(c.tr, "EOED") /\ d.ed = v00 /\ d.rk = v01 /\ d.v13 /\ (d.finRead <=> c.finRead)
  BY <1>2, <1>8 DEF Same
<1>10. ~Ends(d, m)
  BY <1>9 DEF Ends, EndsReading13, EndsReading12, Same
<1>11. PICK e : e = Taken(c, "server", m, hit)
  OBVIOUS
<1>12. Same(d, e, {"ccs"})
  BY <1>3, <1>9, <1>10, <1>11, TakenIs DEF Same
<1>13. Same(c, e, {"st", "v13", "finRead", "tr", "ed", "rk", "ccs"}) /\ e.st = "SR_END_OF_EARLY_DATA" /\ e.tr = Append(c.tr, "EOED") /\ e.ed = v00 /\ e.rk = v01 /\ (e.finRead <=> c.finRead) /\ e.v13
  BY <1>9, <1>12 DEF Same
<1> QED BY <1>11, <1>12, <1>13, <1>5, <1>7 DEF HandshakeKey

\* The certificate of the client.
LEMMA TookClientCert ==
    ASSUME NEW c, DOMAIN c = Fields, NEW m, NEW hit, m.mt = "CERT",
           opt.ver = 13,
           c.v13
    PROVE  LET e == Taken(c, "server", m, hit) IN
           /\ Same(c, e, {"st", "v13", "finRead", "tr", "peerCert", "sentTickets", "ccs"})
           /\ e.st = "SR_CERT" /\ e.v13 /\ (e.finRead <=> c.finRead)
           /\ e.peerCert = m.full /\ e.sentTickets = 0 /\ e.tr = Append(c.tr, "CERT")
<1> USE FieldsAre
<1>1. PICK g : g = Received(c, "server", m)
  OBVIOUS
<1>2. /\ Same(c, g, {"st", "v13", "finRead", "tr"}) /\ g.st = "SR_CERT" /\ g.tr = Append(c.tr, "CERT")
      /\ g.v13 /\ (g.finRead <=> c.finRead)
  BY <1>1, ReceivedIs, ReadStatesAre DEF Hashed
<1>3. PICK d : d = Got(c, "server", m, hit)
  OBVIOUS
<1>4. PICK v00 : v00 = (m.full)
  OBVIOUS
<1>5. v00 = (m.full)
  BY <1>2, <1>4 DEF Same
<1>6. PICK v01 : v01 = (0)
  OBVIOUS
<1>7. v01 = (0)
  BY <1>2, <1>6 DEF Same
<1>8. d = [g EXCEPT !.peerCert = v00, !.sentTickets = v01]
  BY <1>1, <1>2, <1>3, <1>4, <1>6, <1>5, <1>7 DEF Got, Processed, Same, ServerProcess13
<1>9. Same(c, d, {"st", "v13", "finRead", "tr", "peerCert", "sentTickets"}) /\ d.st = "SR_CERT" /\ d.tr = Append(c.tr, "CERT") /\ d.peerCert = v00 /\ d.sentTickets = v01 /\ d.v13 /\ (d.finRead <=> c.finRead)
  BY <1>2, <1>8 DEF Same
<1>10. ~Ends(d, m)
  BY <1>9 DEF Ends, EndsReading13, EndsReading12, Same
<1>11. PICK e : e = Taken(c, "server", m, hit)
  OBVIOUS
<1>12. Same(d, e, {"ccs"})
  BY <1>3, <1>9, <1>10, <1>11, TakenIs DEF Same
<1>13. Same(c, e, {"st", "v13", "finRead", "tr", "peerCert", "sentTickets", "ccs"}) /\ e.st = "SR_CERT" /\ e.tr = Append(c.tr, "CERT") /\ e.peerCert = v00 /\ e.sentTickets = v01 /\ (e.finRead <=> c.finRead) /\ e.v13
  BY <1>9, <1>12 DEF Same
<1> QED BY <1>11, <1>12, <1>13, <1>5, <1>7

\* The CertificateVerify of the client.
LEMMA TookClientVerify ==
    ASSUME NEW c, DOMAIN c = Fields, NEW m, NEW hit, m.mt = "CV",
           opt.ver = 13,
           c.v13
    PROVE  LET e == Taken(c, "server", m, hit) IN
           /\ Same(c, e, {"st", "v13", "finRead", "tr", "ccs"})
           /\ e.st = "SR_CERT_VRFY" /\ e.v13 /\ (e.finRead <=> c.finRead)
           /\ e.tr = Append(c.tr, "CV")
<1> USE FieldsAre
<1>1. PICK g : g = Received(c, "server", m)
  OBVIOUS
<1>2. /\ Same(c, g, {"st", "v13", "finRead", "tr"}) /\ g.st = "SR_CERT_VRFY" /\ g.tr = Append(c.tr, "CV")
      /\ g.v13 /\ (g.finRead <=> c.finRead)
  BY <1>1, ReceivedIs, ReadStatesAre DEF Hashed
<1>3. PICK d : d = Got(c, "server", m, hit)
  OBVIOUS
<1>4. d = g
  BY <1>1, <1>2, <1>3 DEF Got, Processed, Same, ServerProcess13
<1>5. /\ Same(c, d, {"st", "v13", "finRead", "tr"}) /\ d.st = "SR_CERT_VRFY" /\ d.tr = Append(c.tr, "CV")
      /\ d.v13 /\ (d.finRead <=> c.finRead)
  BY <1>2, <1>4
<1>6. ~Ends(d, m)
  BY <1>5 DEF Ends, EndsReading13, EndsReading12, Same
<1>7. PICK e : e = Taken(c, "server", m, hit)
  OBVIOUS
<1>8. Same(d, e, {"ccs"})
  BY <1>3, <1>5, <1>6, <1>7, TakenIs DEF Same
<1>9. Same(c, e, {"st", "v13", "finRead", "tr", "ccs"}) /\ e.st = "SR_CERT_VRFY" /\ e.tr = Append(c.tr, "CV") /\ (e.finRead <=> c.finRead) /\ e.v13
  BY <1>5, <1>8 DEF Same
<1> QED BY <1>7, <1>8, <1>9

\* The Finished of the client.
LEMMA TookClientFinished ==
    ASSUME NEW c, DOMAIN c = Fields, NEW m, NEW hit, m.mt = "FIN",
           opt.ver = 13,
           c.v13,
           c.pha # "requested"
    PROVE  LET e == Taken(c, "server", m, hit) IN
           /\ Same(c, e, {"st", "v13", "finRead", "tr", "phaTr", "cleanup", "rk", "flow", "ccs"})
           /\ e.st = "SR_FINISHED" /\ e.v13 /\ e.finRead
           /\ e.flow = "WRITING"
           /\ e.tr = Append(c.tr, "FIN") /\ e.rk = AppKey(c)
           /\ e.phaTr = (IF c.phaTr = <<>> THEN Append(c.tr, "FIN") ELSE c.phaTr)
<1> USE FieldsAre
<1>1. PICK g : g = Received(c, "server", m)
  OBVIOUS
<1>2. /\ Same(c, g, {"st", "v13", "finRead", "tr"}) /\ g.st = "SR_FINISHED" /\ g.tr = Append(c.tr, "FIN")
      /\ g.v13 /\ g.finRead
  BY <1>1, ReceivedIs, ReadStatesAre DEF Hashed
<1>3. PICK d : d = Got(c, "server", m, hit)
  OBVIOUS
<1>4. PICK v00 : v00 = (IF g.phaTr = <<>> THEN g.tr ELSE g.phaTr)
  OBVIOUS
<1>5. v00 = (IF c.phaTr = <<>> THEN Append(c.tr, "FIN") ELSE c.phaTr)
  BY <1>2, <1>4 DEF Same
<1>6. PICK h1 : h1 = [g EXCEPT !.phaTr = v00]
  OBVIOUS
<1>7. Same(c, h1, {"st", "v13", "finRead", "tr", "phaTr"}) /\ h1.st = "SR_FINISHED" /\ h1.tr = Append(c.tr, "FIN") /\ h1.phaTr = v00 /\ h1.v13 /\ h1.finRead
  BY <1>2, <1>6 DEF Same
<1>8. PICK v10 : v10 = (TRUE)
  OBVIOUS
<1>9. v10 = (TRUE)
  BY <1>7, <1>8 DEF Same
<1>10. PICK v11 : v11 = (<<"app", h1.sfTr, 0>>)
  OBVIOUS
<1>11. v11 = (<<"app", c.sfTr, 0>>)
  BY <1>7, <1>10 DEF Same
<1>12. d = [h1 EXCEPT !.cleanup = v10, !.rk = v11]
  BY <1>1, <1>2, <1>3, <1>6, <1>4, <1>8, <1>10, <1>5, <1>9, <1>11 DEF Got, Processed, Same, ServerProcess13, SavedForPha, AppKey
<1>13. Same(c, d, {"st", "v13", "finRead", "tr", "phaTr", "cleanup", "rk"}) /\ d.st = "SR_FINISHED" /\ d.tr = Append(c.tr, "FIN") /\ d.phaTr = v00 /\ d.cleanup = v10 /\ d.rk = v11 /\ d.v13 /\ d.finRead
  BY <1>7, <1>12 DEF Same
<1>14. Ends(d, m)
  BY <1>13 DEF Ends, EndsReading13, EndsReading12, Same
<1>15. PICK e : e = Taken(c, "server", m, hit)
  OBVIOUS
<1>16. Same(d, e, {"flow", "ccs"}) /\ e.flow = "WRITING"
  BY <1>3, <1>13, <1>14, <1>15, TakenIs DEF Same
<1>17. Same(c, e, {"st", "v13", "finRead", "tr", "phaTr", "cleanup", "rk", "flow", "ccs"}) /\ e.st = "SR_FINISHED" /\ e.tr = Append(c.tr, "FIN") /\ e.phaTr = v00 /\ e.cleanup = v10 /\ e.rk = v11 /\ e.finRead /\ e.v13
  BY <1>13, <1>16 DEF Same
<1> QED BY <1>15, <1>16, <1>17, <1>5, <1>9, <1>11 DEF AppKey

\* The Finished of the client after post-handshake authentication.
LEMMA TookPhaFinished ==
    ASSUME NEW c, DOMAIN c = Fields, NEW m, NEW hit, m.mt = "FIN",
           opt.ver = 13,
           c.v13,
           c.pha = "requested"
    PROVE  LET e == Taken(c, "server", m, hit) IN
           /\ Same(c, e, {"st", "v13", "finRead", "tr", "phaTr", "flow", "ccs"})
           /\ e.st = "SR_FINISHED" /\ e.v13 /\ e.finRead
           /\ e.flow = "WRITING"
           /\ e.tr = Append(c.tr, "FIN") /\ e.phaTr = (IF c.phaTr = <<>> THEN Append(c.tr, "FIN") ELSE c.phaTr)
<1> USE FieldsAre
<1>1. PICK g : g = Received(c, "server", m)
  OBVIOUS
<1>2. /\ Same(c, g, {"st", "v13", "finRead", "tr"}) /\ g.st = "SR_FINISHED" /\ g.tr = Append(c.tr, "FIN")
      /\ g.v13 /\ g.finRead
  BY <1>1, ReceivedIs, ReadStatesAre DEF Hashed
<1>3. PICK d : d = Got(c, "server", m, hit)
  OBVIOUS
<1>4. PICK v00 : v00 = (IF g.phaTr = <<>> THEN g.tr ELSE g.phaTr)
  OBVIOUS
<1>5. v00 = (IF c.phaTr = <<>> THEN Append(c.tr, "FIN") ELSE c.phaTr)
  BY <1>2, <1>4 DEF Same
<1>6. d = [g EXCEPT !.phaTr = v00]
  BY <1>1, <1>2, <1>3, <1>4, <1>5 DEF Got, Processed, Same, ServerProcess13, SavedForPha
<1>7. Same(c, d, {"st", "v13", "finRead", "tr", "phaTr"}) /\ d.st = "SR_FINISHED" /\ d.tr = Append(c.tr, "FIN") /\ d.phaTr = v00 /\ d.v13 /\ d.finRead
  BY <1>2, <1>6 DEF Same
<1>8. Ends(d, m)
  BY <1>7 DEF Ends, EndsReading13, EndsReading12, Same
<1>9. PICK e : e = Taken(c, "server", m, hit)
  OBVIOUS
<1>10. Same(d, e, {"flow", "ccs"}) /\ e.flow = "WRITING"
  BY <1>3, <1>7, <1>8, <1>9, TakenIs DEF Same
<1>11. Same(c, e, {"st", "v13", "finRead", "tr", "phaTr", "flow", "ccs"}) /\ e.st = "SR_FINISHED" /\ e.tr = Append(c.tr, "FIN") /\ e.phaTr = v00 /\ e.finRead /\ e.v13
  BY <1>7, <1>10 DEF Same
<1> QED BY <1>9, <1>10, <1>11, <1>5

-----------------------------------------------------------------------------
(* The client reads. *)

LEMMA AtIs ==
    ASSUME NEW x, NEW u, NEW d, NEW k, NEW a, a = At(x, u, d, k)
    PROVE  /\ a.at = x /\ a.ku = u /\ a.d = d /\ a.k = k
           /\ \A y : [a EXCEPT !.at = y] = At(y, u, d, k)
           /\ [a EXCEPT !.d = @ + 1] = At(x, u, d + 1, k)
           /\ [a EXCEPT !.ku = @ + 1] = At(x, u + 1, d, k)
           /\ [a EXCEPT !.k = @ + 1] = At(x, u, d, k + 1)
<1>1. a.at = x /\ a.ku = u /\ a.d = d /\ a.k = k
  BY DEF At
<1>2. ASSUME NEW y PROVE [a EXCEPT !.at = y] = At(y, u, d, k)
  BY DEF At
<1>3. [a EXCEPT !.d = @ + 1] = At(x, u, d + 1, k)
  BY DEF At
<1>4. [a EXCEPT !.ku = @ + 1] = At(x, u + 1, d, k)
  BY DEF At
<1>5. [a EXCEPT !.k = @ + 1] = At(x, u, d, k + 1)
  BY DEF At
<1> QED BY <1>1, <1>2, <1>3, <1>4, <1>5

\* The records that may come next for the client, place by place.
LEMMA ToClientIs ==
    ASSUME NEW x, NEW u, NEW d, NEW k, NEW m, NEW b, ToClient(At(x, u, d, k), m, b)
    PROVE  /\ x = "sh" => /\ m.mt = "SH" /\ m.key = NoKey /\ (m.hrr <=> opt.hrr)
                          /\ ~opt.hrr => m.hit = opt.hit
                          /\ b = At(IF opt.hrr THEN "sh2" ELSE "ee", u, d, k)
           /\ x = "sh2" => \/ m.mt = "CCS" /\ b = At("sh2", u, d, k)
                           \/ /\ m.mt = "SH" /\ m.key = NoKey /\ ~m.hrr /\ m.hit = opt.hit
                              /\ b = At("ee", u, d, k)
           /\ x = "ee" => \/ m.mt = "CCS" /\ b = At("ee", u, d, k)
                          \/ /\ m.mt = "EE" /\ m.key = KH /\ (m.early <=> Accepted)
                             /\ b = At(IF opt.hit THEN "fin" ELSE "cr", u, d, k)
           /\ x = "cr" => \/ opt.request /\ m.mt = "CR" /\ m.key = KH /\ b = At("cert", u, d, k)
                          \/ ~opt.request /\ m.mt = "CERT" /\ m.key = KH /\ b = At("cv", u, d, k)
           /\ x = "cert" => m.mt = "CERT" /\ m.key = KH /\ b = At("cv", u, d, k)
           /\ x = "cv" => m.mt = "CV" /\ m.key = KH /\ b = At("fin", u, d, k)
           /\ x = "fin" => m.mt = "FIN" /\ m.key = KH /\ m.digest = ServerTr /\ b = At("ok", u, d, k)
           /\ x = "ok" => /\ m.key = KA(u)
                          /\ \/ m.mt = "DATA" /\ b = At("ok", u, d + 1, k)
                             \/ m.mt = "NST" /\ b = At("ok", u, d, k)
                             \/ m.mt = "KU" /\ b = At("ok", u + 1, d, k)
                             \/ opt.pha /\ m.mt = "CR" /\ b = At("ok", u, d, k + 1)
<1>1. PICK a : a = At(x, u, d, k)
  OBVIOUS
<1>2. /\ a.at = x /\ a.ku = u
      /\ \A y : [a EXCEPT !.at = y] = At(y, u, d, k)
      /\ [a EXCEPT !.d = @ + 1] = At(x, u, d + 1, k)
      /\ [a EXCEPT !.ku = @ + 1] = At(x, u + 1, d, k)
      /\ [a EXCEPT !.k = @ + 1] = At(x, u, d, k + 1)
  BY <1>1, AtIs
<1>3. ToClient(a, m, b)
  BY <1>1
<1> QED BY <1>1, <1>2, <1>3 DEF ToClient

\* The client's read tables.
LEMMA ClientReadTable ==
    ASSUME NEW c
    PROVE  LET t == ReadTable(c, "client") IN
           /\ ~c.v13 /\ c.st \in {"CW_CLNT_HELLO", "EARLY_DATA"} => c.st \in DOMAIN t /\ "SH" \in t[c.st]
           /\ c.v13 /\ c.st = "CR_SRVR_HELLO" => c.st \in DOMAIN t /\ "EE" \in t[c.st]
           /\ c.v13 /\ c.st = "CR_ENCRYPTED_EXTENSIONS" =>
                 /\ c.st \in DOMAIN t
                 /\ c.hit => "FIN" \in t[c.st]
                 /\ ~c.hit => "CR" \in t[c.st] /\ "CERT" \in t[c.st]
           /\ c.v13 /\ c.st = "CR_CERT_REQ" => c.st \in DOMAIN t /\ "CERT" \in t[c.st]
           /\ c.v13 /\ c.st = "CR_CERT" => c.st \in DOMAIN t /\ "CV" \in t[c.st]
           /\ c.v13 /\ c.st = "CR_CERT_VRFY" => c.st \in DOMAIN t /\ "FIN" \in t[c.st]
           /\ c.v13 /\ c.st = "OK" =>
                 /\ c.st \in DOMAIN t /\ "NST" \in t[c.st] /\ "KU" \in t[c.st]
                 /\ c.pha = "ext" => "CR" \in t[c.st]
<1>1. CASE c.v13
  <2>1. PICK t : t = ReadTable(c, "client")
    OBVIOUS
  <2>2. t = ClientRead13(c)
    BY <1>1, <2>1 DEF ReadTable
  <2> QED BY <1>1, <2>1, <2>2 DEF ClientRead13
<1>2. CASE ~c.v13
  <2>1. PICK t : t = ReadTable(c, "client")
    OBVIOUS
  <2>2. t = ClientRead12(c)
    BY <1>2, <2>1 DEF ReadTable
  <2>3. c.st \in {"CW_CLNT_HELLO", "EARLY_DATA"} => c.st \in DOMAIN t /\ "SH" \in t[c.st]
    BY <2>2 DEF ClientRead12
  <2> QED BY <1>2, <2>1, <2>3
<1> QED BY <1>1, <1>2

\* What the client drops.
LEMMA ClientDrops ==
    ASSUME NEW c, NEW m
    PROVE  /\ m.mt \notin {"CCS", "HR"} => ~Dropped(c, "client", m)
           /\ m.mt = "CCS" /\ (c.v13 \/ c.hrr = "pending") /\ ~c.finSent => Dropped(c, "client", m)
  BY DEF Dropped, IgnoresCcs, SkipsEarlyData, FirstHandshake

\* e is what the client is when it has taken the record between a and b.
ClientTook(c, e, a, b, wa, n) ==
    /\ Sound(e, "client") /\ e.st \notin {"OK", "EARLY_DATA"} /\ e.wk[3] = c.wk[3]
    /\ b.ku = e.rk[3] /\ b.d = a.d /\ b.k - Answered(e) = a.k - Answered(c)
    /\ ClientStage(e, b.at, wa, n)

\* A record the client drops, or a message it expects and takes.
ClientReadsOne(c, m, a, b, wa, n) ==
    \/ Dropped(c, "client", m) /\ b = a
    \/ /\ ~Dropped(c, "client", m) /\ m.key = c.rk /\ m.mt \notin {"ALERT", "DATA"}
       /\ Expects(c, "client", m)
       /\ \A hit : ClientTook(c, Taken(c, "client", m, hit), a, b, wa, n)

\* The ServerHello.
LEMMA ClientFirstReads ==
    ASSUME NEW c, NEW ra, NEW wa, NEW n, NEW q, q # <<>>, NEW m, m = Head(q), NEW d \in Nat,
           NEW k \in Nat, NEW a, a = At(ra, c.rk[3], d, k), NEW b, ToClient(a, m, b),
           opt \in OptionRecord, opt.ver = 13, Sound(c, "client"), ReadsOn(c, q), c.flow = "READING",
           ClientFirst(c, ra, wa, n)
    PROVE  ClientReadsOne(c, m, a, b, wa, n)
<1> USE Names
<1>1. DOMAIN c = Fields /\ ~c.reneg /\ c.keyUpdate \in {"none", "requested", "notRequested"}
  BY DEF Sound
<1>2. a.d = d /\ a.k = k /\ a.ku = c.rk[3] /\ a.at = ra
  BY DEF At
<1>3. CASE opt.hrr
  <2>1. /\ ~c.v13 /\ m.mt = "SH" /\ m.hrr /\ m.key = NoKey /\ c.rk = NoKey /\ b = At("sh2", c.rk[3], d, k)
        /\ c.st \in {"CW_CLNT_HELLO", "EARLY_DATA"} /\ c.ed = WroteEarly /\ (Early => c.wk = KE) /\ (~Early => c.wk = NoKey)
        /\ c.early = Offered /\ c.pha = Ext /\ wa = "retry" /\ n = opt.early
    BY <1>3, ToClientIs DEF ClientFirst, ClientHelloing, WroteEarly, AfterHello, Early, OptionRecord, Offered
  <2>2. b.at = ("sh2") /\ b.ku = c.rk[3] /\ b.d = d /\ b.k = k
    BY <2>1 DEF At
  <2>3. ~Dropped(c, "client", m) /\ m.key = c.rk /\ m.mt \notin {"ALERT", "DATA"}
    BY <1>3, <2>1, ClientDrops
  <2>4. Expects(c, "client", m)
    BY <2>1, ClientReadTable, <1>3 DEF Expects
  <2>5. ASSUME NEW hit PROVE ClientTook(c, Taken(c, "client", m, hit), a, b, wa, n)
    <3>1. PICK e : e = Taken(c, "client", m, hit)
      OBVIOUS
    <3>2. /\ Same(c, e, {"st", "v13", "finRead", "tr", "hrr", "wk", "flow", "ccs"})
          /\ e.st = "CR_SRVR_HELLO" /\ ~e.v13 /\ (e.finRead <=> c.finRead)
          /\ e.flow = "WRITING"
          /\ e.hrr = "pending" /\ e.tr = RetryTr
          /\ e.wk = (IF c.ed = "finishedWriting" THEN NoKey ELSE c.wk)
      BY <1>1, <1>3, <2>1, <3>1, TookRetry
    <3>9. Same(c, e, {"st", "v13", "finRead", "tr", "hrr", "wk", "flow", "ccs"})
      BY <3>2
    <3>3. /\ e.inInit = c.inInit /\ e.finSent = c.finSent /\ e.hit = c.hit /\ e.early = c.early /\ e.ed = c.ed
          /\ e.certReq = c.certReq /\ e.peerCert = c.peerCert /\ e.pha = c.pha /\ e.keyUpdate = c.keyUpdate /\ e.rk = c.rk
          /\ e.hsTr = c.hsTr /\ e.sfTr = c.sfTr /\ e.phaTr = c.phaTr /\ e.reneg = c.reneg /\ e.sentTickets = c.sentTickets
          /\ e.extraTickets = c.extraTickets
      BY <3>9, FieldsAre DEF Same
    <3>4. e.wk = NoKey /\ e.wk[3] = c.wk[3] /\ c.rk[3] = e.rk[3]
      BY <1>3, <2>1, <3>2, <3>3, KeyCounts DEF WroteEarly, Early
    <3>5. ClientStage(e, b.at, wa, n)
      <4>1. ClientRetry(e, "sh2", wa, n)
        BY <1>3, <2>1, <2>2, <3>2, <3>3, <3>4 DEF ClientFirst, ClientHelloing, ClientRetry
      <4> QED BY <2>2, <4>1 DEF ClientStage
    <3>6. e.keyUpdate \in {"none", "requested", "notRequested"} /\ ~e.reneg /\ e.st \notin {"OK", "EARLY_DATA"}
      BY <1>1, <3>2, <3>3
    <3>7. Sound(e, "client")
      BY <3>9, <3>6, SoundKept
    <3>8. b.k - Answered(e) = a.k - Answered(c) /\ e.wk[3] = c.wk[3] /\ b.ku = e.rk[3]
      <4>1. Answered(c) = 0 /\ Answered(e) = 0
        BY <1>3, <2>1, <3>2, <3>3 DEF Answered
      <4> QED BY <1>2, <2>2, <3>4, <4>1, <3>3
    <3> QED BY <1>2, <2>2, <3>1, <3>5, <3>6, <3>7, <3>8 DEF ClientTook
  <2> QED BY <2>3, <2>4, <2>5 DEF ClientReadsOne
<1>4. CASE ~opt.hrr
  <2>1. /\ ~c.v13 /\ m.mt = "SH" /\ ~m.hrr /\ m.hit = opt.hit /\ m.key = NoKey /\ c.rk = NoKey /\ b = At("ee", c.rk[3], d, k)
        /\ c.st \in {"CW_CLNT_HELLO", "EARLY_DATA"} /\ c.ed = WroteEarly /\ (Early => c.wk = KE) /\ (~Early => c.wk = NoKey)
        /\ c.early = Offered /\ c.pha = Ext /\ wa = "early" /\ n = opt.early /\ c.tr = FirstTr
    BY <1>4, ToClientIs DEF ClientFirst, ClientHelloing, WroteEarly, AfterHello, Early, OptionRecord, Offered
  <2>2. b.at = ("ee") /\ b.ku = c.rk[3] /\ b.d = d /\ b.k = k
    BY <2>1 DEF At
  <2>3. ~Dropped(c, "client", m) /\ m.key = c.rk /\ m.mt \notin {"ALERT", "DATA"}
    BY <1>4, <2>1, ClientDrops
  <2>4. Expects(c, "client", m)
    BY <2>1, ClientReadTable, <1>4 DEF Expects
  <2>5. ASSUME NEW hit PROVE ClientTook(c, Taken(c, "client", m, hit), a, b, wa, n)
    <3>1. PICK e : e = Taken(c, "client", m, hit)
      OBVIOUS
    <3>10. ~c.v13 /\ m.mt = "SH" /\ ~m.hrr
      BY <2>1
    <3>2. /\ Same(c, e, {"st", "v13", "finRead", "tr", "hit", "hsTr", "rk", "wk", "ccs"})
          /\ e.st = "CR_SRVR_HELLO" /\ e.v13 /\ (e.finRead <=> c.finRead)
          /\ e.hit = m.hit /\ e.tr = Append(c.tr, "SH") /\ e.hsTr = Append(c.tr, "SH")
          /\ e.rk = HandshakeKey(e)
          /\ c.ed # "none" \/ "client" \in opt.compat => e.wk = c.wk
          /\ ~(c.ed # "none" \/ "client" \in opt.compat) => e.wk = HandshakeKey(e)
      BY <1>1, <3>1, <3>10, TookServerHello
    <3>9. Same(c, e, {"st", "v13", "finRead", "tr", "hit", "hsTr", "rk", "wk", "ccs"})
      BY <3>2
    <3>3. /\ e.flow = c.flow /\ e.inInit = c.inInit /\ e.finSent = c.finSent /\ e.hrr = c.hrr /\ e.early = c.early
          /\ e.ed = c.ed /\ e.certReq = c.certReq /\ e.peerCert = c.peerCert /\ e.pha = c.pha /\ e.keyUpdate = c.keyUpdate
          /\ e.sfTr = c.sfTr /\ e.phaTr = c.phaTr /\ e.reneg = c.reneg /\ e.sentTickets = c.sentTickets /\ e.extraTickets = c.extraTickets
      BY <3>9, FieldsAre DEF Same
    <3>4. e.tr = HsTr /\ e.hsTr = HsTr /\ e.rk = KH /\ e.wk = DeferredKey /\ e.wk[3] = c.wk[3] /\ c.rk[3] = e.rk[3]
      BY <1>4, <2>1, <3>2, <3>3, KeyCounts DEF HsTr, HelloTr, FirstTr, KH, HandshakeKey, DeferredKey, WroteEarly, ClientCompat
    <3>5. ClientStage(e, b.at, wa, n)
      <4>1. ClientReads(e, "ee", wa, n)
        BY <1>4, <2>1, <2>2, <3>2, <3>3, <3>4 DEF ClientFirst, ClientHelloing, ClientReads, Client13
      <4> QED BY <2>2, <4>1 DEF ClientStage
    <3>6. e.keyUpdate \in {"none", "requested", "notRequested"} /\ ~e.reneg /\ e.st \notin {"OK", "EARLY_DATA"}
      BY <1>1, <3>2, <3>3
    <3>7. Sound(e, "client")
      BY <3>9, <3>6, SoundKept
    <3>8. b.k - Answered(e) = a.k - Answered(c) /\ e.wk[3] = c.wk[3] /\ b.ku = e.rk[3]
      <4>1. Answered(c) = 0 /\ Answered(e) = 0
        BY <1>4, <2>1, <3>2, <3>3 DEF Answered
      <4> QED BY <1>2, <2>2, <3>4, <4>1, <3>3
    <3> QED BY <1>2, <2>2, <3>1, <3>5, <3>6, <3>7, <3>8 DEF ClientTook
  <2> QED BY <2>3, <2>4, <2>5 DEF ClientReadsOne
<1> QED BY <1>3, <1>4, ToClientIs DEF ClientFirst, ClientHelloing

\* The ServerHello after a HelloRetryRequest.
LEMMA ClientRetryReads ==
    ASSUME NEW c, NEW ra, NEW wa, NEW n, NEW q, q # <<>>, NEW m, m = Head(q), NEW d \in Nat,
           NEW k \in Nat, NEW a, a = At(ra, c.rk[3], d, k), NEW b, ToClient(a, m, b),
           opt \in OptionRecord, opt.ver = 13, Sound(c, "client"), ReadsOn(c, q), c.flow = "READING",
           ClientRetry(c, ra, wa, n)
    PROVE  ClientReadsOne(c, m, a, b, wa, n)
<1> USE Names
<1>1. DOMAIN c = Fields /\ ~c.reneg /\ c.keyUpdate \in {"none", "requested", "notRequested"}
  BY DEF Sound
<1>2. a.d = d /\ a.k = k /\ a.ku = c.rk[3] /\ a.at = ra
  BY DEF At
<1>3. CASE m.mt = "CCS"
  <2>1. c.hrr = "pending" /\ ~c.finSent /\ b = a
    BY <1>3, ToClientIs DEF ClientRetry, ClientHelloing
  <2> QED BY <1>3, <2>1, ClientDrops DEF ClientReadsOne
<1>4. CASE m.mt # "CCS"
  <2>1. /\ ~c.v13 /\ m.mt = "SH" /\ ~m.hrr /\ m.hit = opt.hit /\ m.key = NoKey /\ c.rk = NoKey /\ b = At("ee", c.rk[3], d, k)
        /\ c.st \in {"CW_CLNT_HELLO", "EARLY_DATA"} /\ c.ed = WroteEarly /\ c.wk = NoKey
        /\ c.early = Offered /\ c.pha = Ext /\ wa = "early" /\ n = opt.early /\ c.tr = HelloTr /\ opt.hrr
    BY <1>4, ToClientIs DEF ClientRetry, ClientHelloing
  <2>2. b.at = ("ee") /\ b.ku = c.rk[3] /\ b.d = d /\ b.k = k
    BY <2>1 DEF At
  <2>3. ~Dropped(c, "client", m) /\ m.key = c.rk /\ m.mt \notin {"ALERT", "DATA"}
    BY <1>4, <2>1, ClientDrops
  <2>4. Expects(c, "client", m)
    BY <2>1, ClientReadTable, <1>4 DEF Expects
  <2>5. ASSUME NEW hit PROVE ClientTook(c, Taken(c, "client", m, hit), a, b, wa, n)
    <3>1. PICK e : e = Taken(c, "client", m, hit)
      OBVIOUS
    <3>10. ~c.v13 /\ m.mt = "SH" /\ ~m.hrr
      BY <2>1
    <3>2. /\ Same(c, e, {"st", "v13", "finRead", "tr", "hit", "hsTr", "rk", "wk", "ccs"})
          /\ e.st = "CR_SRVR_HELLO" /\ e.v13 /\ (e.finRead <=> c.finRead)
          /\ e.hit = m.hit /\ e.tr = Append(c.tr, "SH") /\ e.hsTr = Append(c.tr, "SH")
          /\ e.rk = HandshakeKey(e)
          /\ c.ed # "none" \/ "client" \in opt.compat => e.wk = c.wk
          /\ ~(c.ed # "none" \/ "client" \in opt.compat) => e.wk = HandshakeKey(e)
      BY <1>1, <3>1, <3>10, TookServerHello
    <3>9. Same(c, e, {"st", "v13", "finRead", "tr", "hit", "hsTr", "rk", "wk", "ccs"})
      BY <3>2
    <3>3. /\ e.flow = c.flow /\ e.inInit = c.inInit /\ e.finSent = c.finSent /\ e.hrr = c.hrr /\ e.early = c.early
          /\ e.ed = c.ed /\ e.certReq = c.certReq /\ e.peerCert = c.peerCert /\ e.pha = c.pha /\ e.keyUpdate = c.keyUpdate
          /\ e.sfTr = c.sfTr /\ e.phaTr = c.phaTr /\ e.reneg = c.reneg /\ e.sentTickets = c.sentTickets /\ e.extraTickets = c.extraTickets
      BY <3>9, FieldsAre DEF Same
    <3>4. e.tr = HsTr /\ e.hsTr = HsTr /\ e.rk = KH /\ e.wk = DeferredKey /\ e.wk[3] = c.wk[3] /\ c.rk[3] = e.rk[3]
      <4>1. e.tr = HsTr /\ e.hsTr = HsTr
        BY <2>1, <3>2 DEF HsTr
      <4>2. e.rk = KH
        BY <3>2, <4>1 DEF KH, HandshakeKey
      <4>3. CASE Early \/ ClientCompat
        <5>1. DeferredKey = NoKey
          BY <2>1, <4>3 DEF DeferredKey
        <5>2. e.wk = c.wk
          BY <2>1, <3>2, <4>3 DEF WroteEarly, ClientCompat
        <5>3. c.wk = NoKey /\ c.rk = NoKey
          BY <2>1
        <5> QED BY <4>1, <4>2, <5>1, <5>2, <5>3, KeyCounts
      <4>4. CASE ~(Early \/ ClientCompat)
        <5>1. DeferredKey = KH
          BY <2>1, <4>4 DEF DeferredKey
        <5>2. e.wk = HandshakeKey(e)
          BY <2>1, <3>2, <4>4 DEF WroteEarly, ClientCompat
        <5>3. e.wk = KH
          BY <3>2, <4>2, <5>2
        <5>4. c.wk = NoKey /\ c.rk = NoKey
          BY <2>1
        <5> QED BY <4>1, <4>2, <5>1, <5>3, <5>4, KeyCounts
      <4> QED BY <4>3, <4>4
    <3>5. ClientStage(e, b.at, wa, n)
      <4>1. ClientReads(e, "ee", wa, n)
        BY <1>4, <2>1, <2>2, <3>2, <3>3, <3>4 DEF ClientRetry, ClientHelloing, ClientReads, Client13
      <4> QED BY <2>2, <4>1 DEF ClientStage
    <3>6. e.keyUpdate \in {"none", "requested", "notRequested"} /\ ~e.reneg /\ e.st \notin {"OK", "EARLY_DATA"}
      BY <1>1, <3>2, <3>3
    <3>7. Sound(e, "client")
      BY <3>9, <3>6, SoundKept
    <3>8. b.k - Answered(e) = a.k - Answered(c) /\ e.wk[3] = c.wk[3] /\ b.ku = e.rk[3]
      <4>1. Answered(c) = 0 /\ Answered(e) = 0
        BY <1>4, <2>1, <3>2, <3>3 DEF Answered
      <4> QED BY <1>2, <2>2, <3>4, <4>1, <3>3
    <3> QED BY <1>2, <2>2, <3>1, <3>5, <3>6, <3>7, <3>8 DEF ClientTook
  <2> QED BY <2>3, <2>4, <2>5 DEF ClientReadsOne
<1> QED BY <1>3, <1>4, ToClientIs DEF ClientRetry, ClientHelloing

\* The flight of the server.
LEMMA ClientReadsReads ==
    ASSUME NEW c, NEW ra, NEW wa, NEW n, NEW q, q # <<>>, NEW m, m = Head(q), NEW d \in Nat,
           NEW k \in Nat, NEW a, a = At(ra, c.rk[3], d, k), NEW b, ToClient(a, m, b),
           opt \in OptionRecord, opt.ver = 13, Sound(c, "client"), ReadsOn(c, q), c.flow = "READING",
           ClientReads(c, ra, wa, n)
    PROVE  ClientReadsOne(c, m, a, b, wa, n)
<1> USE Names
<1>1. DOMAIN c = Fields /\ ~c.reneg /\ c.keyUpdate \in {"none", "requested", "notRequested"}
  BY DEF Sound
<1>2. a.d = d /\ a.k = k /\ a.ku = c.rk[3] /\ a.at = ra
  BY DEF At
<1>3. CASE m.mt = "CCS"
  <2>1. c.v13 /\ ~c.finSent /\ b = a
    BY <1>3, ToClientIs DEF ClientReads, Client13
  <2> QED BY <1>3, <2>1, ClientDrops DEF ClientReadsOne
<1>4. CASE c.st = "CR_SRVR_HELLO" /\ m.mt # "CCS"
  <2>1. c.v13 /\ c.pha # "requested" /\ m.key = KH /\ c.rk = KH /\ m.mt = "EE" /\ (m.early <=> Accepted) /\ c.tr = HsTr /\ c.early = Offered
        /\ b = At(IF opt.hit THEN "fin" ELSE "cr", c.rk[3], d, k)
    BY <1>4, ToClientIs DEF ClientReads, Client13
  <2>2. b.at = (IF opt.hit THEN "fin" ELSE "cr") /\ b.ku = c.rk[3] /\ b.d = d /\ b.k = k
    BY <2>1 DEF At
  <2>3. ~Dropped(c, "client", m) /\ m.key = c.rk /\ m.mt \notin {"ALERT", "DATA"}
    BY <1>4, <2>1, ClientDrops
  <2>4. Expects(c, "client", m)
    BY <2>1, ClientReadTable, <1>4 DEF Expects
  <2>5. ASSUME NEW hit PROVE ClientTook(c, Taken(c, "client", m, hit), a, b, wa, n)
    <3>1. PICK e : e = Taken(c, "client", m, hit)
      OBVIOUS
    <3>2. /\ Same(c, e, {"st", "v13", "finRead", "tr", "early", "ccs"})
          /\ e.st = "CR_ENCRYPTED_EXTENSIONS" /\ e.v13 /\ (e.finRead <=> c.finRead)
          /\ e.tr = Append(c.tr, "EE") /\ e.early = (IF m.early THEN "accepted" ELSE c.early)
      BY <1>1, <1>4, <2>1, <3>1, TookExtensions
    <3>9. Same(c, e, {"st", "v13", "finRead", "tr", "early", "ccs"})
      BY <3>2
    <3>3. /\ e.flow = c.flow /\ e.inInit = c.inInit /\ e.finSent = c.finSent /\ e.hit = c.hit /\ e.hrr = c.hrr
          /\ e.ed = c.ed /\ e.certReq = c.certReq /\ e.peerCert = c.peerCert /\ e.pha = c.pha /\ e.keyUpdate = c.keyUpdate
          /\ e.rk = c.rk /\ e.wk = c.wk /\ e.hsTr = c.hsTr /\ e.sfTr = c.sfTr /\ e.phaTr = c.phaTr
          /\ e.reneg = c.reneg /\ e.sentTickets = c.sentTickets /\ e.extraTickets = c.extraTickets
      BY <3>9, FieldsAre DEF Same
    <3>4. e.tr = EeTr /\ e.early = Fate /\ e.wk[3] = c.wk[3] /\ c.rk[3] = e.rk[3]
      BY <1>4, <2>1, <3>2, <3>3, KeyCounts DEF EeTr, Fate
    <3>5. ClientStage(e, b.at, wa, n)
      <4>1. ClientReads(e, b.at, wa, n)
        BY <1>4, <2>1, <2>2, <3>2, <3>3, <3>4 DEF ClientReads, Client13
      <4> QED BY <2>2, <4>1 DEF ClientStage
    <3>6. e.keyUpdate \in {"none", "requested", "notRequested"} /\ ~e.reneg /\ e.st \notin {"OK", "EARLY_DATA"}
      BY <1>1, <3>2, <3>3
    <3>7. Sound(e, "client")
      BY <3>9, <3>6, SoundKept
    <3>8. b.k - Answered(e) = a.k - Answered(c) /\ e.wk[3] = c.wk[3] /\ b.ku = e.rk[3]
      <4>1. Answered(c) = 0 /\ Answered(e) = 0
        BY <1>4, <2>1, <3>2, <3>3 DEF Answered
      <4> QED BY <1>2, <2>2, <3>4, <4>1, <3>3
    <3> QED BY <1>2, <2>2, <3>1, <3>5, <3>6, <3>7, <3>8 DEF ClientTook
  <2> QED BY <2>3, <2>4, <2>5 DEF ClientReadsOne
<1>5. CASE c.st = "CR_ENCRYPTED_EXTENSIONS" /\ m.mt = "CR"
  <2>1. c.v13 /\ c.pha # "requested" /\ m.key = KH /\ c.rk = KH /\ c.tr = EeTr /\ ~opt.hit /\ ~c.hit /\ opt.request /\ b = At("cert", c.rk[3], d, k)
    BY <1>5, ToClientIs DEF ClientReads, Client13
  <2>2. b.at = ("cert") /\ b.ku = c.rk[3] /\ b.d = d /\ b.k = k
    BY <2>1 DEF At
  <2>3. ~Dropped(c, "client", m) /\ m.key = c.rk /\ m.mt \notin {"ALERT", "DATA"}
    BY <1>5, <2>1, ClientDrops
  <2>4. Expects(c, "client", m)
    BY <2>1, ClientReadTable, <1>5 DEF Expects
  <2>5. ASSUME NEW hit PROVE ClientTook(c, Taken(c, "client", m, hit), a, b, wa, n)
    <3>1. PICK e : e = Taken(c, "client", m, hit)
      OBVIOUS
    <3>2. /\ Same(c, e, {"st", "v13", "finRead", "tr", "certReq", "ccs"})
          /\ e.st = "CR_CERT_REQ" /\ e.v13 /\ (e.finRead <=> c.finRead)
          /\ e.tr = Append(c.tr, "CR") /\ e.certReq = (IF opt.cert THEN "cert" ELSE "empty")
      BY <1>1, <1>5, <2>1, <3>1, TookCertRequest
    <3>9. Same(c, e, {"st", "v13", "finRead", "tr", "certReq", "ccs"})
      BY <3>2
    <3>3. /\ e.flow = c.flow /\ e.inInit = c.inInit /\ e.finSent = c.finSent /\ e.hit = c.hit /\ e.hrr = c.hrr
          /\ e.early = c.early /\ e.ed = c.ed /\ e.peerCert = c.peerCert /\ e.pha = c.pha /\ e.keyUpdate = c.keyUpdate
          /\ e.rk = c.rk /\ e.wk = c.wk /\ e.hsTr = c.hsTr /\ e.sfTr = c.sfTr /\ e.phaTr = c.phaTr
          /\ e.reneg = c.reneg /\ e.sentTickets = c.sentTickets /\ e.extraTickets = c.extraTickets
      BY <3>9, FieldsAre DEF Same
    <3>4. e.tr = ReqTr /\ e.certReq = OwnCert /\ e.wk[3] = c.wk[3] /\ c.rk[3] = e.rk[3]
      BY <1>5, <2>1, <3>2, <3>3, KeyCounts DEF ReqTr, OwnCert
    <3>5. ClientStage(e, b.at, wa, n)
      <4>1. ClientReads(e, b.at, wa, n)
        BY <1>5, <2>1, <2>2, <3>2, <3>3, <3>4 DEF ClientReads, Client13
      <4> QED BY <2>2, <4>1 DEF ClientStage
    <3>6. e.keyUpdate \in {"none", "requested", "notRequested"} /\ ~e.reneg /\ e.st \notin {"OK", "EARLY_DATA"}
      BY <1>1, <3>2, <3>3
    <3>7. Sound(e, "client")
      BY <3>9, <3>6, SoundKept
    <3>8. b.k - Answered(e) = a.k - Answered(c) /\ e.wk[3] = c.wk[3] /\ b.ku = e.rk[3]
      <4>1. Answered(c) = 0 /\ Answered(e) = 0
        BY <1>5, <2>1, <3>2, <3>3 DEF Answered
      <4> QED BY <1>2, <2>2, <3>4, <4>1, <3>3
    <3> QED BY <1>2, <2>2, <3>1, <3>5, <3>6, <3>7, <3>8 DEF ClientTook
  <2> QED BY <2>3, <2>4, <2>5 DEF ClientReadsOne
<1>6. CASE c.st \in {"CR_ENCRYPTED_EXTENSIONS", "CR_CERT_REQ"} /\ m.mt = "CERT"
  <2>1. c.v13 /\ c.pha # "requested" /\ m.key = KH /\ c.rk = KH /\ c.tr = ReqTr /\ ~opt.hit /\ ~c.hit /\ b = At("cv", c.rk[3], d, k)
        /\ c.certReq = (IF opt.request THEN OwnCert ELSE "none")
    BY <1>6, ToClientIs DEF ClientReads, Client13, ReqTr
  <2>2. b.at = ("cv") /\ b.ku = c.rk[3] /\ b.d = d /\ b.k = k
    BY <2>1 DEF At
  <2>3. ~Dropped(c, "client", m) /\ m.key = c.rk /\ m.mt \notin {"ALERT", "DATA"}
    BY <1>6, <2>1, ClientDrops
  <2>4. Expects(c, "client", m)
    BY <2>1, ClientReadTable, <1>6 DEF Expects
  <2>5. ASSUME NEW hit PROVE ClientTook(c, Taken(c, "client", m, hit), a, b, wa, n)
    <3>1. PICK e : e = Taken(c, "client", m, hit)
      OBVIOUS
    <3>2. /\ Same(c, e, {"st", "v13", "finRead", "tr", "ccs"})
          /\ e.st = "CR_CERT" /\ e.v13 /\ (e.finRead <=> c.finRead)
          /\ e.tr = Append(c.tr, "CERT")
      BY <1>1, <1>6, <2>1, <3>1, TookServerCert
    <3>9. Same(c, e, {"st", "v13", "finRead", "tr", "ccs"})
      BY <3>2
    <3>3. /\ e.flow = c.flow /\ e.inInit = c.inInit /\ e.finSent = c.finSent /\ e.hit = c.hit /\ e.hrr = c.hrr
          /\ e.early = c.early /\ e.ed = c.ed /\ e.certReq = c.certReq /\ e.peerCert = c.peerCert /\ e.pha = c.pha
          /\ e.keyUpdate = c.keyUpdate /\ e.rk = c.rk /\ e.wk = c.wk /\ e.hsTr = c.hsTr /\ e.sfTr = c.sfTr
          /\ e.phaTr = c.phaTr /\ e.reneg = c.reneg /\ e.sentTickets = c.sentTickets /\ e.extraTickets = c.extraTickets
      BY <3>9, FieldsAre DEF Same
    <3>4. e.tr = ServerCertTr /\ e.wk[3] = c.wk[3] /\ c.rk[3] = e.rk[3]
      BY <1>6, <2>1, <3>2, <3>3, KeyCounts DEF ServerCertTr
    <3>5. ClientStage(e, b.at, wa, n)
      <4>1. ClientReads(e, b.at, wa, n)
        BY <1>6, <2>1, <2>2, <3>2, <3>3, <3>4 DEF ClientReads, Client13
      <4> QED BY <2>2, <4>1 DEF ClientStage
    <3>6. e.keyUpdate \in {"none", "requested", "notRequested"} /\ ~e.reneg /\ e.st \notin {"OK", "EARLY_DATA"}
      BY <1>1, <3>2, <3>3
    <3>7. Sound(e, "client")
      BY <3>9, <3>6, SoundKept
    <3>8. b.k - Answered(e) = a.k - Answered(c) /\ e.wk[3] = c.wk[3] /\ b.ku = e.rk[3]
      <4>1. Answered(c) = 0 /\ Answered(e) = 0
        BY <1>6, <2>1, <3>2, <3>3 DEF Answered
      <4> QED BY <1>2, <2>2, <3>4, <4>1, <3>3
    <3> QED BY <1>2, <2>2, <3>1, <3>5, <3>6, <3>7, <3>8 DEF ClientTook
  <2> QED BY <2>3, <2>4, <2>5 DEF ClientReadsOne
<1>7. CASE c.st = "CR_CERT" /\ m.mt = "CV"
  <2>1. c.v13 /\ c.pha # "requested" /\ m.key = KH /\ c.rk = KH /\ c.tr = ServerCertTr /\ ~opt.hit /\ b = At("fin", c.rk[3], d, k)
    BY <1>7, ToClientIs DEF ClientReads, Client13
  <2>2. b.at = ("fin") /\ b.ku = c.rk[3] /\ b.d = d /\ b.k = k
    BY <2>1 DEF At
  <2>3. ~Dropped(c, "client", m) /\ m.key = c.rk /\ m.mt \notin {"ALERT", "DATA"}
    BY <1>7, <2>1, ClientDrops
  <2>4. Expects(c, "client", m)
    BY <2>1, ClientReadTable, <1>7 DEF Expects
  <2>5. ASSUME NEW hit PROVE ClientTook(c, Taken(c, "client", m, hit), a, b, wa, n)
    <3>1. PICK e : e = Taken(c, "client", m, hit)
      OBVIOUS
    <3>2. /\ Same(c, e, {"st", "v13", "finRead", "tr", "ccs"})
          /\ e.st = "CR_CERT_VRFY" /\ e.v13 /\ (e.finRead <=> c.finRead)
          /\ e.tr = Append(c.tr, "CV")
      BY <1>1, <1>7, <2>1, <3>1, TookServerVerify
    <3>9. Same(c, e, {"st", "v13", "finRead", "tr", "ccs"})
      BY <3>2
    <3>3. /\ e.flow = c.flow /\ e.inInit = c.inInit /\ e.finSent = c.finSent /\ e.hit = c.hit /\ e.hrr = c.hrr
          /\ e.early = c.early /\ e.ed = c.ed /\ e.certReq = c.certReq /\ e.peerCert = c.peerCert /\ e.pha = c.pha
          /\ e.keyUpdate = c.keyUpdate /\ e.rk = c.rk /\ e.wk = c.wk /\ e.hsTr = c.hsTr /\ e.sfTr = c.sfTr
          /\ e.phaTr = c.phaTr /\ e.reneg = c.reneg /\ e.sentTickets = c.sentTickets /\ e.extraTickets = c.extraTickets
      BY <3>9, FieldsAre DEF Same
    <3>4. e.tr = ServerVerifyTr /\ e.wk[3] = c.wk[3] /\ c.rk[3] = e.rk[3]
      BY <1>7, <2>1, <3>2, <3>3, KeyCounts DEF ServerVerifyTr
    <3>5. ClientStage(e, b.at, wa, n)
      <4>1. ClientReads(e, b.at, wa, n)
        BY <1>7, <2>1, <2>2, <3>2, <3>3, <3>4 DEF ClientReads, Client13
      <4> QED BY <2>2, <4>1 DEF ClientStage
    <3>6. e.keyUpdate \in {"none", "requested", "notRequested"} /\ ~e.reneg /\ e.st \notin {"OK", "EARLY_DATA"}
      BY <1>1, <3>2, <3>3
    <3>7. Sound(e, "client")
      BY <3>9, <3>6, SoundKept
    <3>8. b.k - Answered(e) = a.k - Answered(c) /\ e.wk[3] = c.wk[3] /\ b.ku = e.rk[3]
      <4>1. Answered(c) = 0 /\ Answered(e) = 0
        BY <1>7, <2>1, <3>2, <3>3 DEF Answered
      <4> QED BY <1>2, <2>2, <3>4, <4>1, <3>3
    <3> QED BY <1>2, <2>2, <3>1, <3>5, <3>6, <3>7, <3>8 DEF ClientTook
  <2> QED BY <2>3, <2>4, <2>5 DEF ClientReadsOne
<1>8. CASE c.st \in {"CR_ENCRYPTED_EXTENSIONS", "CR_CERT_VRFY"} /\ m.mt = "FIN"
  <2>1. c.v13 /\ c.pha # "requested" /\ m.key = KH /\ c.rk = KH /\ c.tr = ServerTr /\ m.digest = ServerTr /\ b = At("ok", c.rk[3], d, k) /\ (c.st = "CR_ENCRYPTED_EXTENSIONS" => c.hit)
        /\ c.certReq = (IF Asks THEN OwnCert ELSE "none")
    BY <1>8, ToClientIs DEF ClientReads, Client13, ServerTr, Asks
  <2>2. b.at = ("ok") /\ b.ku = c.rk[3] /\ b.d = d /\ b.k = k
    BY <2>1 DEF At
  <2>3. ~Dropped(c, "client", m) /\ m.key = c.rk /\ m.mt \notin {"ALERT", "DATA"}
    BY <1>8, <2>1, ClientDrops
  <2>4. Expects(c, "client", m)
    BY <2>1, ClientReadTable, <1>8 DEF Expects
  <2>5. ASSUME NEW hit PROVE ClientTook(c, Taken(c, "client", m, hit), a, b, wa, n)
    <3>1. PICK e : e = Taken(c, "client", m, hit)
      OBVIOUS
    <3>2. /\ Same(c, e, {"st", "v13", "finRead", "tr", "sfTr", "rk", "flow", "ccs"})
          /\ e.st = "CR_FINISHED" /\ e.v13 /\ e.finRead
          /\ e.flow = "WRITING"
          /\ e.tr = Append(c.tr, "FIN") /\ e.sfTr = Append(c.tr, "FIN") /\ e.rk = <<"app", Append(c.tr, "FIN"), 0>>
      BY <1>1, <1>8, <2>1, <3>1, TookServerFinished
    <3>9. Same(c, e, {"st", "v13", "finRead", "tr", "sfTr", "rk", "flow", "ccs"})
      BY <3>2
    <3>3. /\ e.inInit = c.inInit /\ e.finSent = c.finSent /\ e.hit = c.hit /\ e.hrr = c.hrr /\ e.early = c.early
          /\ e.ed = c.ed /\ e.certReq = c.certReq /\ e.peerCert = c.peerCert /\ e.pha = c.pha /\ e.keyUpdate = c.keyUpdate
          /\ e.wk = c.wk /\ e.hsTr = c.hsTr /\ e.phaTr = c.phaTr /\ e.reneg = c.reneg /\ e.sentTickets = c.sentTickets
          /\ e.extraTickets = c.extraTickets
      BY <3>9, FieldsAre DEF Same
    <3>4. e.tr = SfTr /\ e.sfTr = SfTr /\ e.rk = KA(0) /\ e.wk[3] = c.wk[3] /\ c.rk[3] = e.rk[3]
      BY <1>8, <2>1, <3>2, <3>3, KeyCounts DEF SfTr, KA
    <3>5. ClientStage(e, b.at, wa, n)
      <4>1. ClientAnswers(e, b.at, wa, n)
        BY <1>8, <2>1, <2>2, <3>2, <3>3, <3>4 DEF ClientReads, Client13, ClientAnswers
      <4> QED BY <2>2, <4>1 DEF ClientStage
    <3>6. e.keyUpdate \in {"none", "requested", "notRequested"} /\ ~e.reneg /\ e.st \notin {"OK", "EARLY_DATA"}
      BY <1>1, <3>2, <3>3
    <3>7. Sound(e, "client")
      BY <3>9, <3>6, SoundKept
    <3>8. b.k - Answered(e) = a.k - Answered(c) /\ e.wk[3] = c.wk[3] /\ b.ku = e.rk[3]
      <4>1. Answered(c) = 0 /\ Answered(e) = 0
        BY <1>8, <2>1, <3>2, <3>3 DEF Answered
      <4> QED BY <1>2, <2>2, <3>4, <4>1, <3>3
    <3> QED BY <1>2, <2>2, <3>1, <3>5, <3>6, <3>7, <3>8 DEF ClientTook
  <2> QED BY <2>3, <2>4, <2>5 DEF ClientReadsOne
<1> QED BY <1>3, <1>4, <1>5, <1>6, <1>7, <1>8, ToClientIs DEF ClientReads, Client13

\* Messages after the handshake.
LEMMA ClientDoneReads ==
    ASSUME NEW c, NEW ra, NEW wa, NEW n, NEW q, q # <<>>, NEW m, m = Head(q), NEW d \in Nat,
           NEW k \in Nat, NEW a, a = At(ra, c.rk[3], d, k), NEW b, ToClient(a, m, b),
           opt \in OptionRecord, opt.ver = 13, Sound(c, "client"), ReadsOn(c, q), c.flow = "READING",
           ClientDone(c, ra, wa)
    PROVE  ClientReadsOne(c, m, a, b, wa, n)
<1> USE Names
<1>1. DOMAIN c = Fields /\ ~c.reneg /\ c.keyUpdate \in {"none", "requested", "notRequested"}
  BY DEF Sound
<1>2. a.d = d /\ a.k = k /\ a.ku = c.rk[3] /\ a.at = ra
  BY DEF At
<1>3. CASE m.mt = "NST"
  <2>1. c.v13 /\ c.st = "OK" /\ m.key = c.rk /\ IsAppKey(c.rk) /\ IsAppKey(c.wk) /\ b = At("ok", c.rk[3], d, k)
    BY <1>3, ToClientIs DEF ClientDone, IsAppKey
  <2>2. b.at = ("ok") /\ b.ku = c.rk[3] /\ b.d = d /\ b.k = k
    BY <2>1 DEF At
  <2>3. ~Dropped(c, "client", m) /\ m.key = c.rk /\ m.mt \notin {"ALERT", "DATA"}
    BY <1>3, <2>1, ClientDrops
  <2>4. Expects(c, "client", m)
    BY <2>1, ClientReadTable, <1>3 DEF Expects
  <2>5. ASSUME NEW hit PROVE ClientTook(c, Taken(c, "client", m, hit), a, b, wa, n)
    <3>1. PICK e : e = Taken(c, "client", m, hit)
      OBVIOUS
    <3>2. /\ Same(c, e, {"st", "v13", "finRead", "tr", "flow", "ccs"})
          /\ e.st = "CR_SESSION_TICKET" /\ e.v13 /\ (e.finRead <=> c.finRead)
          /\ e.flow = "WRITING"
          /\ e.tr = c.tr
      BY <1>1, <1>3, <2>1, <3>1, TookTicket
    <3>9. Same(c, e, {"st", "v13", "finRead", "tr", "flow", "ccs"})
      BY <3>2
    <3>3. /\ e.inInit = c.inInit /\ e.finSent = c.finSent /\ e.hit = c.hit /\ e.hrr = c.hrr /\ e.early = c.early
          /\ e.ed = c.ed /\ e.certReq = c.certReq /\ e.peerCert = c.peerCert /\ e.pha = c.pha /\ e.keyUpdate = c.keyUpdate
          /\ e.rk = c.rk /\ e.wk = c.wk /\ e.hsTr = c.hsTr /\ e.sfTr = c.sfTr /\ e.phaTr = c.phaTr
          /\ e.reneg = c.reneg /\ e.sentTickets = c.sentTickets /\ e.extraTickets = c.extraTickets
      BY <3>9, FieldsAre DEF Same
    <3>4. c.rk[3] = e.rk[3] /\ IsAppKey(e.rk) /\ IsAppKey(e.wk)
      BY <1>3, <2>1, <3>2, <3>3, KeyCounts
    <3>5. ClientStage(e, b.at, wa, n)
      <4>1. ClientDone(e, b.at, wa)
        BY <1>3, <2>1, <2>2, <3>2, <3>3, <3>4 DEF ClientDone
      <4> QED BY <2>2, <4>1 DEF ClientStage
    <3>6. e.keyUpdate \in {"none", "requested", "notRequested"} /\ ~e.reneg /\ e.st \notin {"OK", "EARLY_DATA"}
      BY <1>1, <3>2, <3>3
    <3>7. Sound(e, "client")
      BY <3>9, <3>6, SoundKept
    <3>8. b.k - Answered(e) = a.k - Answered(c) /\ e.wk[3] = c.wk[3] /\ b.ku = e.rk[3]
      <4>1. Answered(c) = 0 /\ Answered(e) = 0
        BY <1>3, <2>1, <3>2, <3>3 DEF Answered
      <4> QED BY <1>2, <2>2, <3>4, <4>1, <3>3
    <3> QED BY <1>2, <2>2, <3>1, <3>5, <3>6, <3>7, <3>8 DEF ClientTook
  <2> QED BY <2>3, <2>4, <2>5 DEF ClientReadsOne
<1>4. CASE m.mt = "KU"
  <2>1. c.v13 /\ c.st = "OK" /\ m.key = c.rk /\ IsAppKey(c.rk) /\ IsAppKey(c.wk) /\ b = At("ok", c.rk[3] + 1, d, k)
    BY <1>4, ToClientIs DEF ClientDone, IsAppKey
  <2>2. b.at = ("ok") /\ b.ku = c.rk[3] + 1 /\ b.d = d /\ b.k = k
    BY <2>1 DEF At
  <2>3. ~Dropped(c, "client", m) /\ m.key = c.rk /\ m.mt \notin {"ALERT", "DATA"}
    BY <1>4, <2>1, ClientDrops
  <2>4. Expects(c, "client", m)
    BY <2>1, ClientReadTable, <1>4 DEF Expects
  <2>5. ASSUME NEW hit PROVE ClientTook(c, Taken(c, "client", m, hit), a, b, wa, n)
    <3>1. PICK e : e = Taken(c, "client", m, hit)
      OBVIOUS
    <3>2. /\ Same(c, e, {"st", "v13", "finRead", "tr", "rk", "keyUpdate", "flow", "ccs"})
          /\ e.st = "CR_KEY_UPDATE" /\ e.v13 /\ (e.finRead <=> c.finRead)
          /\ e.flow = "WRITING"
          /\ e.tr = c.tr /\ e.rk = UpdatedKey(c.rk)
          /\ e.keyUpdate = (IF m.request THEN "notRequested" ELSE c.keyUpdate)
      BY <1>1, <1>4, <2>1, <3>1, ClientTookKeyUpdate
    <3>9. Same(c, e, {"st", "v13", "finRead", "tr", "rk", "keyUpdate", "flow", "ccs"})
      BY <3>2
    <3>3. /\ e.inInit = c.inInit /\ e.finSent = c.finSent /\ e.hit = c.hit /\ e.hrr = c.hrr /\ e.early = c.early
          /\ e.ed = c.ed /\ e.certReq = c.certReq /\ e.peerCert = c.peerCert /\ e.pha = c.pha /\ e.wk = c.wk
          /\ e.hsTr = c.hsTr /\ e.sfTr = c.sfTr /\ e.phaTr = c.phaTr /\ e.reneg = c.reneg /\ e.sentTickets = c.sentTickets
          /\ e.extraTickets = c.extraTickets
      BY <3>9, FieldsAre DEF Same
    <3>4. c.rk[3] + 1 = e.rk[3] /\ IsAppKey(e.rk) /\ IsAppKey(e.wk)
      BY <1>4, <2>1, <3>2, <3>3, KeyCounts, KeyUpdates
    <3>5. ClientStage(e, b.at, wa, n)
      <4>1. ClientDone(e, b.at, wa)
        BY <1>4, <2>1, <2>2, <3>2, <3>3, <3>4 DEF ClientDone
      <4> QED BY <2>2, <4>1 DEF ClientStage
    <3>6. e.keyUpdate \in {"none", "requested", "notRequested"} /\ ~e.reneg /\ e.st \notin {"OK", "EARLY_DATA"}
      BY <1>1, <3>2, <3>3
    <3>7. Sound(e, "client")
      BY <3>9, <3>6, SoundKept
    <3>8. b.k - Answered(e) = a.k - Answered(c) /\ e.wk[3] = c.wk[3] /\ b.ku = e.rk[3]
      <4>1. Answered(c) = 0 /\ Answered(e) = 0
        BY <1>4, <2>1, <3>2, <3>3 DEF Answered
      <4> QED BY <1>2, <2>2, <3>4, <4>1, <3>3
    <3> QED BY <1>2, <2>2, <3>1, <3>5, <3>6, <3>7, <3>8 DEF ClientTook
  <2> QED BY <2>3, <2>4, <2>5 DEF ClientReadsOne
<1>5. CASE m.mt = "CR"
  <2>1. c.v13 /\ c.st = "OK" /\ m.key = c.rk /\ IsAppKey(c.rk) /\ IsAppKey(c.wk) /\ c.pha = "ext" /\ opt.pha /\ c.phaTr = PhaTr /\ b = At("ok", c.rk[3], d, k + 1)
    BY <1>5, ToClientIs DEF ClientDone, IsAppKey, Ext
  <2>2. b.at = ("ok") /\ b.ku = c.rk[3] /\ b.d = d /\ b.k = k + 1
    BY <2>1 DEF At
  <2>3. ~Dropped(c, "client", m) /\ m.key = c.rk /\ m.mt \notin {"ALERT", "DATA"}
    BY <1>5, <2>1, ClientDrops
  <2>4. Expects(c, "client", m)
    BY <2>1, ClientReadTable, <1>5 DEF Expects
  <2>5. ASSUME NEW hit PROVE ClientTook(c, Taken(c, "client", m, hit), a, b, wa, n)
    <3>1. PICK e : e = Taken(c, "client", m, hit)
      OBVIOUS
    <3>2. /\ Same(c, e, {"st", "v13", "finRead", "tr", "pha", "certReq", "flow", "ccs"})
          /\ e.st = "CR_CERT_REQ" /\ e.v13 /\ (e.finRead <=> c.finRead)
          /\ e.flow = "WRITING"
          /\ e.tr = Append(c.phaTr, "CR") /\ e.certReq = (IF opt.cert THEN "cert" ELSE "empty")
          /\ e.pha = "requested"
      BY <1>1, <1>5, <2>1, <3>1, TookPhaRequest
    <3>9. Same(c, e, {"st", "v13", "finRead", "tr", "pha", "certReq", "flow", "ccs"})
      BY <3>2
    <3>3. /\ e.inInit = c.inInit /\ e.finSent = c.finSent /\ e.hit = c.hit /\ e.hrr = c.hrr /\ e.early = c.early
          /\ e.ed = c.ed /\ e.peerCert = c.peerCert /\ e.keyUpdate = c.keyUpdate /\ e.rk = c.rk /\ e.wk = c.wk
          /\ e.hsTr = c.hsTr /\ e.sfTr = c.sfTr /\ e.phaTr = c.phaTr /\ e.reneg = c.reneg /\ e.sentTickets = c.sentTickets
          /\ e.extraTickets = c.extraTickets
      BY <3>9, FieldsAre DEF Same
    <3>4. c.rk[3] = e.rk[3] /\ e.tr = PhaReqTr /\ e.certReq = OwnCert /\ IsAppKey(e.rk) /\ IsAppKey(e.wk)
      BY <1>5, <2>1, <3>2, <3>3, KeyCounts DEF PhaReqTr, OwnCert
    <3>5. ClientStage(e, b.at, wa, n)
      <4>1. ClientDone(e, b.at, wa)
        BY <1>5, <2>1, <2>2, <3>2, <3>3, <3>4 DEF ClientDone
      <4> QED BY <2>2, <4>1 DEF ClientStage
    <3>6. e.keyUpdate \in {"none", "requested", "notRequested"} /\ ~e.reneg /\ e.st \notin {"OK", "EARLY_DATA"}
      BY <1>1, <3>2, <3>3
    <3>7. Sound(e, "client")
      BY <3>9, <3>6, SoundKept
    <3>8. b.k - Answered(e) = a.k - Answered(c) /\ e.wk[3] = c.wk[3] /\ b.ku = e.rk[3]
      <4>1. Answered(c) = 0 /\ Answered(e) = 1
        BY <1>5, <2>1, <3>2, <3>3 DEF Answered
      <4> QED BY <1>2, <2>2, <3>4, <4>1, <3>3
    <3> QED BY <1>2, <2>2, <3>1, <3>5, <3>6, <3>7, <3>8 DEF ClientTook
  <2> QED BY <2>3, <2>4, <2>5 DEF ClientReadsOne
<1> QED BY <1>3, <1>4, <1>5, ToClientIs DEF ClientDone, ReadsOn, MessageWaits

LEMMA ClientReadsRecord ==
    ASSUME NEW c, NEW ra, NEW wa, NEW n, NEW q, q # <<>>, NEW m, m = Head(q), NEW d \in Nat,
           NEW k \in Nat, NEW a, a = At(ra, c.rk[3], d, k), NEW b, ToClient(a, m, b),
           opt \in OptionRecord, opt.ver = 13, Sound(c, "client"), ReadsOn(c, q), c.flow = "READING",
           ClientStage(c, ra, wa, n)
    PROVE  ClientReadsOne(c, m, a, b, wa, n)
<1>1. CASE ClientFirst(c, ra, wa, n)
  BY <1>1, ClientFirstReads
<1>2. CASE ClientRetry(c, ra, wa, n)
  BY <1>2, ClientRetryReads
<1>3. CASE ClientReads(c, ra, wa, n)
  BY <1>3, ClientReadsReads
<1>4. CASE ClientAnswers(c, ra, wa, n)
  BY <1>4 DEF ClientAnswers
<1>5. CASE ClientDone(c, ra, wa)
  BY <1>5, ClientDoneReads
<1> QED BY <1>1, <1>2, <1>3, <1>4, <1>5 DEF ClientStage

-----------------------------------------------------------------------------
(* The server reads. *)

\* The records that may come next for the server, place by place.
LEMMA ToServerIs ==
    ASSUME NEW x, NEW u, NEW d, NEW k, NEW m, NEW b, ToServer(At(x, u, d, k), m, b)
    PROVE  /\ x = "hello" => /\ m.mt = "CH" /\ m.key = NoKey /\ (m.early <=> Early) /\ m.pha = opt.pha
                             /\ b = At(AfterHello, u, d, k)
           /\ x = "retry" => \/ m.mt = "CCS" /\ b = At("retry", u, d, k)
                             \/ m.mt = "DATA" /\ Early /\ b = At("retry", u, d + 1, k)
                             \/ /\ m.mt = "CH" /\ d = opt.early
                                /\ m.key = NoKey /\ ~m.early /\ m.pha = opt.pha
                                /\ b = At("early", u, d, k)
           /\ x = "early" => \/ m.mt = "CCS" /\ b = At("early", u, d, k)
                             \/ /\ m.mt = "DATA" /\ Early /\ ~opt.hrr /\ (Accepted => m.key = KE)
                                /\ b = At("early", u, d + 1, k)
                             \/ /\ m.mt = "EOED" /\ d = opt.early /\ Accepted /\ m.key = KE
                                /\ b = At("answer", u, d, k)
                             \/ /\ ~Accepted /\ Asks /\ m.mt = "CERT" /\ d = opt.early /\ m.key = KH
                                /\ m.full = opt.cert
                                /\ b = At(IF opt.cert THEN "cv" ELSE "fin", u, d, k)
                             \/ /\ ~Accepted /\ ~Asks /\ m.mt = "FIN" /\ d = opt.early /\ m.key = KH
                                /\ m.digest = ClientTr /\ b = At("ok", u, d, k)
           /\ x = "answer" => \/ Asks
                              \/ /\ ~Asks /\ m.mt = "FIN" /\ d = opt.early /\ m.key = KH
                                 /\ m.digest = ClientTr /\ b = At("ok", u, d, k)
           /\ x = "cv" => m.mt = "CV" /\ Asks /\ m.key = KH /\ b = At("fin", u, d, k)
           /\ x = "fin" => /\ m.mt = "FIN" /\ Asks /\ d = opt.early /\ m.key = KH /\ m.digest = ClientTr
                           /\ b = At("ok", u, d, k)
           /\ x = "ok" => /\ m.key = KA(u)
                          /\ \/ m.mt = "DATA" /\ b = At("ok", u, d + 1, k)
                             \/ m.mt = "KU" /\ b = At("ok", u + 1, d, k)
                             \/ /\ opt.pha /\ m.mt = "CERT" /\ m.full = opt.cert
                                /\ b = At(IF opt.cert THEN "pcv" ELSE "pfin", u, d, k + 1)
           /\ x = "pcv" => m.mt = "CV" /\ m.key = KA(u) /\ b = At("pfin", u, d, k)
           /\ x = "pfin" => /\ m.mt = "FIN" /\ m.key = KA(u) /\ m.digest = PhaAnswerTr
                            /\ b = At("ok", u, d, k)
<1>1. PICK a : a = At(x, u, d, k)
  OBVIOUS
<1>2. /\ a.at = x /\ a.ku = u /\ a.d = d
      /\ \A y : [a EXCEPT !.at = y] = At(y, u, d, k)
      /\ [a EXCEPT !.d = @ + 1] = At(x, u, d + 1, k)
      /\ [a EXCEPT !.ku = @ + 1] = At(x, u + 1, d, k)
  <2>1. a.at = x /\ a.ku = u /\ a.d = d
    BY <1>1 DEF At
  <2>2. ASSUME NEW y PROVE [a EXCEPT !.at = y] = At(y, u, d, k)
    BY <1>1 DEF At
  <2>3. [a EXCEPT !.d = @ + 1] = At(x, u, d + 1, k)
    BY <1>1 DEF At
  <2>4. [a EXCEPT !.ku = @ + 1] = At(x, u + 1, d, k)
    BY <1>1 DEF At
  <2> QED BY <2>1, <2>2, <2>3, <2>4
<1>3. ASSUME NEW y PROVE [a EXCEPT !.at = y, !.k = @ + 1] = At(y, u, d, k + 1)
  <2>1. PICK e, c, i : i = k + 1 /\ e = [a EXCEPT !.at = y, !.k = i] /\ c = At(y, u, d, i)
    OBVIOUS
  <2>2. DOMAIN a = {"at", "ku", "d", "k"} /\ DOMAIN c = {"at", "ku", "d", "k"} /\ a.k = k
    BY <1>1, <2>1 DEF At
  <2>3. DOMAIN e = {"at", "ku", "d", "k"}
    BY <2>1, <2>2
  <2>4. e.at = c.at /\ e.k = c.k /\ e.ku = c.ku /\ e.d = c.d
    BY <1>1, <2>1, <2>2 DEF At
  <2>5. e = [f \in DOMAIN e |-> e[f]] /\ c = [f \in DOMAIN c |-> c[f]]
    BY <1>1, <2>1 DEF At
  <2>6. \A f \in DOMAIN e : e[f] = c[f]
    BY <2>3, <2>4
  <2>7. e = c
    BY <2>2, <2>3, <2>5, <2>6
  <2> QED BY <2>1, <2>2, <2>7
<1>4. ToServer(a, m, b)
  BY <1>1
<1>5. AfterHello \in {"early", "retry"} /\ (AfterHello = "early" <=> ~opt.hrr)
  BY DEF AfterHello
<1>6. Answering \in {"early", "answer"} /\ (Answering = "early" <=> ~Accepted)
  BY DEF Answering
<1>7. CASE x \in {"hello", "retry"}
  BY <1>1, <1>2, <1>4, <1>5, <1>6, <1>7 DEF ToServer
<1>8. CASE x = "early"
  BY <1>1, <1>2, <1>4, <1>5, <1>6, <1>8 DEF ToServer
<1>9. CASE x \in {"answer", "cv", "fin"}
  BY <1>1, <1>2, <1>4, <1>5, <1>6, <1>9 DEF ToServer
<1>10. CASE x = "ok"
  BY <1>1, <1>2, <1>3, <1>4, <1>5, <1>6, <1>10 DEF ToServer
<1>11. CASE x \in {"pcv", "pfin"}
  BY <1>1, <1>2, <1>4, <1>5, <1>6, <1>11 DEF ToServer
<1>12. CASE x \notin {"hello", "retry", "early", "answer", "cv", "fin", "ok", "pcv", "pfin"}
  BY <1>12
<1> QED BY <1>7, <1>8, <1>9, <1>10, <1>11, <1>12

\* The server's read tables.
LEMMA ServerReadTable ==
    ASSUME NEW c
    PROVE  LET t == ReadTable(c, "server") IN
           /\ ~c.v13 /\ c.st = "BEFORE" => c.st \in DOMAIN t /\ "CH" \in t[c.st]
           /\ c.v13 /\ c.st = "EARLY_DATA" =>
                 /\ c.st \in DOMAIN t
                 /\ c.hrr = "pending" => "CH" \in t[c.st]
                 /\ c.hrr # "pending" /\ c.early = "accepted" => "EOED" \in t[c.st]
                 /\ c.hrr # "pending" /\ c.early # "accepted" /\ c.certReq = "sent" => "CERT" \in t[c.st]
                 /\ c.hrr # "pending" /\ c.early # "accepted" /\ c.certReq # "sent" => "FIN" \in t[c.st]
           /\ c.v13 /\ c.st = "SR_END_OF_EARLY_DATA" /\ c.certReq # "sent" =>
                 c.st \in DOMAIN t /\ "FIN" \in t[c.st]
           /\ c.v13 /\ c.st = "SR_CERT" =>
                 /\ c.st \in DOMAIN t
                 /\ c.peerCert => "CV" \in t[c.st]
                 /\ ~c.peerCert => "FIN" \in t[c.st]
           /\ c.v13 /\ c.st = "SR_CERT_VRFY" => c.st \in DOMAIN t /\ "FIN" \in t[c.st]
           /\ c.v13 /\ c.st = "OK" /\ c.ed # "reading" =>
                 /\ c.st \in DOMAIN t /\ "KU" \in t[c.st]
                 /\ c.pha = "requested" => "CERT" \in t[c.st]
<1>1. CASE c.v13
  <2>1. PICK t : t = ReadTable(c, "server")
    OBVIOUS
  <2>2. t = ServerRead13(c)
    BY <1>1, <2>1 DEF ReadTable
  <2> QED BY <1>1, <2>1, <2>2 DEF ServerRead13
<1>2. CASE ~c.v13
  <2>1. PICK t : t = ReadTable(c, "server")
    OBVIOUS
  <2>2. t = ServerRead12(c)
    BY <1>2, <2>1 DEF ReadTable
  <2>3. c.st = "BEFORE" => c.st \in DOMAIN t /\ "CH" \in t[c.st]
    BY <2>2 DEF ServerRead12
  <2> QED BY <1>2, <2>1, <2>3
<1> QED BY <1>1, <1>2

\* What the server drops.
LEMMA ServerDrops ==
    ASSUME NEW c, NEW m
    PROVE  /\ m.mt \notin {"CCS", "DATA"} => ~Dropped(c, "server", m)
           /\ m.mt = "CCS" /\ c.v13 /\ ~c.finRead => Dropped(c, "server", m)
           /\ m.mt = "DATA" /\ c.early = "rejected" /\ c.st = "EARLY_DATA" /\ c.hrr # "complete" =>
                 Dropped(c, "server", m)
  BY DEF Dropped, IgnoresCcs, SkipsEarlyData, FirstHandshake

\* A certificate lets the server send its tickets anew.
LEMMA SoundReset ==
    ASSUME NEW x, Sound(x, "server"), NEW e, opt \in OptionRecord, calls \in Nat,
           Same(x, e, {"st", "v13", "finRead", "tr", "peerCert", "sentTickets", "ccs"}),
           e.sentTickets = 0
    PROVE  Sound(e, "server")
<1>1. /\ e.err = x.err /\ e.sched = x.sched /\ e.keyUpdate = x.keyUpdate /\ DOMAIN e = Fields
      /\ e.reneg = x.reneg /\ e.extraTickets = x.extraTickets
  BY FieldsAre DEF Same
<1>2. opt.tickets \in Nat
  BY DEF OptionRecord
<1>3. e.extraTickets \in Nat /\ e.extraTickets <= calls
  BY <1>1 DEF Sound
<1>4. e.sentTickets + e.extraTickets <= opt.tickets + calls
  BY <1>2, <1>3
<1> QED BY <1>1, <1>3, <1>4 DEF Sound

LEMMA GivenDataIs ==
    ASSUME NEW x, NEW d
    PROVE  /\ Accepted => GivenData(x, d) = d
           /\ ~Accepted /\ x \in {"hello", "retry", "early"} => GivenData(x, d) = 0
           /\ ~Accepted /\ x \notin {"hello", "retry", "early"} => GivenData(x, d) = d - opt.early
  BY DEF GivenData

\* e is what the server is when it has taken the record between a and b.
ServerTook(c, e, a, b, wa) ==
    /\ Sound(e, "server") /\ e.st \notin {"OK", "EARLY_DATA"} /\ e.wk[3] = c.wk[3]
    /\ b.ku = e.rk[3] /\ b.k + Asked(e) = a.k + Asked(c)
    /\ GivenData(b.at, b.d) = GivenData(a.at, a.d)
    /\ ServerStage(e, b.at, wa)

\* A record the server drops, or a message it expects and takes.
ServerReadsOne(c, m, a, b, wa) ==
    \/ /\ Dropped(c, "server", m) /\ b.at = a.at /\ b.ku = a.ku /\ b.k = a.k
       /\ GivenData(b.at, b.d) = GivenData(a.at, a.d)
    \/ /\ ~Dropped(c, "server", m) /\ m.key = c.rk /\ m.mt \notin {"ALERT", "DATA"}
       /\ ~(m.mt = "CH" /\ RefusesRenegotiation(c))
       /\ Expects(c, "server", m)
       /\ \A hit : ServerTook(c, Taken(c, "server", m, hit), a, b, wa)

\* The ClientHello, and the second one.
LEMMA ServerFirstReads ==
    ASSUME NEW c, NEW ra, NEW wa, NEW q, q # <<>>, NEW m, m = Head(q), NEW d \in Nat,
           NEW k \in Nat, NEW a, a = At(ra, c.rk[3], d, k), NEW b, ToServer(a, m, b),
           opt \in OptionRecord, opt.ver = 13, calls \in Nat, Sound(c, "server"), ReadsOn(c, q),
           c.flow = "READING", ra = "ok" /\ m.mt = "CERT" => Asked(c) = 1,
           ServerFirst(c, ra, wa)
    PROVE  ServerReadsOne(c, m, a, b, wa)
<1> USE Names
<1>1. DOMAIN c = Fields /\ ~c.reneg /\ c.keyUpdate \in {"none", "requested", "notRequested"}
  BY DEF Sound
<1>2. a.d = d /\ a.k = k /\ a.ku = c.rk[3] /\ a.at = ra
  BY DEF At
<1>3. CASE c.st = "BEFORE" /\ ~Early
  <2>1. /\ ~c.v13 /\ c.st = "BEFORE" /\ m.mt = "CH" /\ m.key = NoKey /\ c.rk = NoKey /\ c.wk = NoKey /\ ra = "hello" /\ wa = "sh"
        /\ m.pha = opt.pha /\ b = At(AfterHello, c.rk[3], d, k) /\ AfterHello \in {"retry", "early"}
        /\ ~c.finSent /\ ~c.finRead /\ c.certReq = "none" /\ c.phaTr = <<>>
        /\ c.hrr = "none" /\ c.pha = "none" /\ c.early = "notSent" /\ c.tr = <<>> /\ c.ed = ServerStarts /\ ~m.early
    BY <1>3, ToServerIs DEF ServerFirst, AfterHello
  <2>2. b.at = (AfterHello) /\ b.ku = c.rk[3] /\ b.d = d /\ b.k = k
    BY <2>1 DEF At
  <2>3. /\ ~Dropped(c, "server", m) /\ m.key = c.rk /\ m.mt \notin {"ALERT", "DATA"}
        /\ ~(m.mt = "CH" /\ RefusesRenegotiation(c))
    BY <1>3, <2>1, ServerDrops DEF RefusesRenegotiation, FirstHandshake
  <2>4. Expects(c, "server", m)
    BY <2>1, ServerReadTable, <1>3 DEF Expects
  <2>5. ASSUME NEW hit PROVE ServerTook(c, Taken(c, "server", m, hit), a, b, wa)
    <3>1. PICK e : e = Taken(c, "server", m, hit)
      OBVIOUS
    <3>2. /\ Same(c, e, {"st", "v13", "finRead", "tr", "hit", "ticket", "pha", "hrr", "flow", "ccs"})
          /\ e.st = "SR_CLNT_HELLO" /\ e.v13 /\ (e.finRead <=> c.finRead)
          /\ e.flow = "WRITING"
          /\ e.hit = opt.hit /\ e.tr = Append(c.tr, "CH") /\ e.pha = (IF m.pha THEN "ext" ELSE c.pha)
          /\ e.hrr = (IF c.hrr = "pending" THEN "complete" ELSE IF c.hrr = "none" /\ opt.hrr THEN "pending" ELSE c.hrr)
      BY <1>1, <1>3, <2>1, <3>1, TookPlainHello
    <3>9. Same(c, e, {"st", "v13", "finRead", "tr", "hit", "ticket", "pha", "hrr", "flow", "ccs"})
      BY <3>2
    <3>3. /\ e.inInit = c.inInit /\ e.finSent = c.finSent /\ e.early = c.early /\ e.ed = c.ed /\ e.certReq = c.certReq
          /\ e.peerCert = c.peerCert /\ e.keyUpdate = c.keyUpdate /\ e.rk = c.rk /\ e.wk = c.wk /\ e.hsTr = c.hsTr
          /\ e.sfTr = c.sfTr /\ e.phaTr = c.phaTr /\ e.reneg = c.reneg /\ e.sentTickets = c.sentTickets /\ e.extraTickets = c.extraTickets
      BY <3>9, FieldsAre DEF Same
    <3>4. /\ e.tr = FirstTr /\ e.pha = Ext /\ e.hrr = (IF opt.hrr THEN "pending" ELSE "none") /\ e.early = Fate
        /\   e.rk = (IF Accepted THEN KE ELSE NoKey) /\ e.wk[3] = c.wk[3] /\ e.rk[3] = c.rk[3]
      BY <1>3, <2>1, <3>2, <3>3, KeyCounts DEF FirstTr, Ext, Fate, Offered, Accepted
    <3>5. ServerStage(e, b.at, wa)
      <4>1. ServerFirst(e, AfterHello, wa)
        BY <1>3, <2>1, <2>2, <3>2, <3>3, <3>4 DEF ServerFirst
      <4> QED BY <2>2, <4>1 DEF ServerStage
    <3>6. e.keyUpdate \in {"none", "requested", "notRequested"} /\ ~e.reneg /\ e.st \notin {"OK", "EARLY_DATA"}
      BY <1>1, <3>2, <3>3
    <3>7. Sound(e, "server")
      BY <3>9, <3>6, SoundKept
    <3>8. b.k + Asked(e) = a.k + Asked(c) /\ e.wk[3] = c.wk[3] /\ b.ku = e.rk[3]
      <4>1. Asked(c) = 0 /\ Asked(e) = 0
        BY <1>3, <2>1, <3>2, <3>3, <3>4 DEF Asked
      <4> QED BY <1>2, <2>2, <3>3, <3>4, <4>1
    <3>10. GivenData(b.at, b.d) = GivenData(a.at, a.d)
      BY <1>2, <1>3, <2>1, <2>2, GivenDataIs
    <3> QED BY <1>2, <2>2, <3>1, <3>5, <3>6, <3>7, <3>8, <3>10 DEF ServerTook
  <2> QED BY <2>3, <2>4, <2>5 DEF ServerReadsOne
<1>4. CASE c.st = "BEFORE" /\ Accepted
  <2>1. /\ ~c.v13 /\ c.st = "BEFORE" /\ m.mt = "CH" /\ m.key = NoKey /\ c.rk = NoKey /\ c.wk = NoKey /\ ra = "hello" /\ wa = "sh"
        /\ m.pha = opt.pha /\ b = At(AfterHello, c.rk[3], d, k) /\ AfterHello \in {"retry", "early"}
        /\ ~c.finSent /\ ~c.finRead /\ c.certReq = "none" /\ c.phaTr = <<>>
        /\ c.hrr = "none" /\ c.pha = "none" /\ c.early = "notSent" /\ c.tr = <<>> /\ c.ed = ServerStarts /\ m.early
        /\ opt.hit /\ c.ed = "accepting" /\ ~opt.hrr
    BY <1>4, ToServerIs DEF ServerFirst, AfterHello, Accepted, ServerStarts
  <2>2. b.at = (AfterHello) /\ b.ku = c.rk[3] /\ b.d = d /\ b.k = k
    BY <2>1 DEF At
  <2>3. /\ ~Dropped(c, "server", m) /\ m.key = c.rk /\ m.mt \notin {"ALERT", "DATA"}
        /\ ~(m.mt = "CH" /\ RefusesRenegotiation(c))
    BY <1>4, <2>1, ServerDrops DEF RefusesRenegotiation, FirstHandshake
  <2>4. Expects(c, "server", m)
    BY <2>1, ServerReadTable, <1>4 DEF Expects
  <2>5. ASSUME NEW hit PROVE ServerTook(c, Taken(c, "server", m, hit), a, b, wa)
    <3>1. PICK e : e = Taken(c, "server", m, hit)
      OBVIOUS
    <3>11. m.mt = "CH" /\ m.early /\ Accepted /\ c.ed = "accepting" /\ c.hrr = "none"
      BY <1>4, <2>1
    <3>2. /\ Same(c, e, {"st", "v13", "finRead", "tr", "hit", "ticket", "pha", "hrr", "early", "rk", "flow", "ccs"})
          /\ e.st = "SR_CLNT_HELLO" /\ e.v13 /\ (e.finRead <=> c.finRead)
          /\ e.flow = "WRITING"
          /\ e.hit = opt.hit /\ e.tr = Append(c.tr, "CH") /\ e.pha = (IF m.pha THEN "ext" ELSE c.pha)
          /\ e.hrr = "none"
          /\ e.early = "accepted" /\ e.rk = EarlyKey(e)
      BY <1>1, <3>11, <3>1, TookEarlyHello
    <3>9. Same(c, e, {"st", "v13", "finRead", "tr", "hit", "ticket", "pha", "hrr", "early", "rk", "flow", "ccs"})
      BY <3>2
    <3>3. /\ e.inInit = c.inInit /\ e.finSent = c.finSent /\ e.ed = c.ed /\ e.certReq = c.certReq /\ e.peerCert = c.peerCert
          /\ e.keyUpdate = c.keyUpdate /\ e.wk = c.wk /\ e.hsTr = c.hsTr /\ e.sfTr = c.sfTr /\ e.phaTr = c.phaTr
          /\ e.reneg = c.reneg /\ e.sentTickets = c.sentTickets /\ e.extraTickets = c.extraTickets
      BY <3>9, FieldsAre DEF Same
    <3>4. /\ e.tr = FirstTr /\ e.pha = Ext /\ e.hrr = (IF opt.hrr THEN "pending" ELSE "none") /\ e.early = Fate
        /\   e.rk = (IF Accepted THEN KE ELSE NoKey) /\ e.wk[3] = c.wk[3] /\ e.rk[3] = c.rk[3]
      BY <1>4, <2>1, <3>2, <3>3, KeyCounts DEF FirstTr, Ext, Fate, KE, EarlyKey, Accepted
    <3>5. ServerStage(e, b.at, wa)
      <4>1. ServerFirst(e, AfterHello, wa)
        BY <1>4, <2>1, <2>2, <3>2, <3>3, <3>4 DEF ServerFirst
      <4> QED BY <2>2, <4>1 DEF ServerStage
    <3>6. e.keyUpdate \in {"none", "requested", "notRequested"} /\ ~e.reneg /\ e.st \notin {"OK", "EARLY_DATA"}
      BY <1>1, <3>2, <3>3
    <3>7. Sound(e, "server")
      BY <3>9, <3>6, SoundKept
    <3>8. b.k + Asked(e) = a.k + Asked(c) /\ e.wk[3] = c.wk[3] /\ b.ku = e.rk[3]
      <4>1. Asked(c) = 0 /\ Asked(e) = 0
        BY <1>4, <2>1, <3>2, <3>3, <3>4 DEF Asked
      <4> QED BY <1>2, <2>2, <3>3, <3>4, <4>1
    <3>10. GivenData(b.at, b.d) = GivenData(a.at, a.d)
      BY <1>2, <1>4, <2>1, <2>2, GivenDataIs
    <3> QED BY <1>2, <2>2, <3>1, <3>5, <3>6, <3>7, <3>8, <3>10 DEF ServerTook
  <2> QED BY <2>3, <2>4, <2>5 DEF ServerReadsOne
<1>5. CASE c.st = "BEFORE" /\ Early /\ ~Accepted
  <2>1. /\ ~c.v13 /\ c.st = "BEFORE" /\ m.mt = "CH" /\ m.key = NoKey /\ c.rk = NoKey /\ c.wk = NoKey /\ ra = "hello" /\ wa = "sh"
        /\ m.pha = opt.pha /\ b = At(AfterHello, c.rk[3], d, k) /\ AfterHello \in {"retry", "early"}
        /\ ~c.finSent /\ ~c.finRead /\ c.certReq = "none" /\ c.phaTr = <<>>
        /\ c.hrr = "none" /\ c.pha = "none" /\ c.early = "notSent" /\ c.tr = <<>> /\ c.ed = ServerStarts /\ m.early
        /\ ~(opt.hit /\ c.ed = "accepting" /\ c.hrr = "none" /\ ~opt.hrr)
    BY <1>5, ToServerIs DEF ServerFirst, AfterHello, Accepted, ServerStarts
  <2>2. b.at = (AfterHello) /\ b.ku = c.rk[3] /\ b.d = d /\ b.k = k
    BY <2>1 DEF At
  <2>3. /\ ~Dropped(c, "server", m) /\ m.key = c.rk /\ m.mt \notin {"ALERT", "DATA"}
        /\ ~(m.mt = "CH" /\ RefusesRenegotiation(c))
    BY <1>5, <2>1, ServerDrops DEF RefusesRenegotiation, FirstHandshake
  <2>4. Expects(c, "server", m)
    BY <2>1, ServerReadTable, <1>5 DEF Expects
  <2>5. ASSUME NEW hit PROVE ServerTook(c, Taken(c, "server", m, hit), a, b, wa)
    <3>1. PICK e : e = Taken(c, "server", m, hit)
      OBVIOUS
    <3>2. /\ Same(c, e, {"st", "v13", "finRead", "tr", "hit", "ticket", "pha", "hrr", "early", "flow", "ccs"})
          /\ e.st = "SR_CLNT_HELLO" /\ e.v13 /\ (e.finRead <=> c.finRead)
          /\ e.flow = "WRITING"
          /\ e.hit = opt.hit /\ e.tr = Append(c.tr, "CH") /\ e.pha = (IF m.pha THEN "ext" ELSE c.pha)
          /\ e.hrr = (IF c.hrr = "pending" THEN "complete" ELSE IF c.hrr = "none" /\ opt.hrr THEN "pending" ELSE c.hrr)
          /\ e.early = "rejected"
      BY <1>1, <1>5, <2>1, <3>1, TookRefusedHello
    <3>9. Same(c, e, {"st", "v13", "finRead", "tr", "hit", "ticket", "pha", "hrr", "early", "flow", "ccs"})
      BY <3>2
    <3>3. /\ e.inInit = c.inInit /\ e.finSent = c.finSent /\ e.ed = c.ed /\ e.certReq = c.certReq /\ e.peerCert = c.peerCert
          /\ e.keyUpdate = c.keyUpdate /\ e.rk = c.rk /\ e.wk = c.wk /\ e.hsTr = c.hsTr /\ e.sfTr = c.sfTr
          /\ e.phaTr = c.phaTr /\ e.reneg = c.reneg /\ e.sentTickets = c.sentTickets /\ e.extraTickets = c.extraTickets
      BY <3>9, FieldsAre DEF Same
    <3>4. /\ e.tr = FirstTr /\ e.pha = Ext /\ e.hrr = (IF opt.hrr THEN "pending" ELSE "none") /\ e.early = Fate
        /\   e.rk = (IF Accepted THEN KE ELSE NoKey) /\ e.wk[3] = c.wk[3] /\ e.rk[3] = c.rk[3]
      BY <1>5, <2>1, <3>2, <3>3, KeyCounts DEF FirstTr, Ext, Fate, Offered
    <3>5. ServerStage(e, b.at, wa)
      <4>1. ServerFirst(e, AfterHello, wa)
        BY <1>5, <2>1, <2>2, <3>2, <3>3, <3>4 DEF ServerFirst
      <4> QED BY <2>2, <4>1 DEF ServerStage
    <3>6. e.keyUpdate \in {"none", "requested", "notRequested"} /\ ~e.reneg /\ e.st \notin {"OK", "EARLY_DATA"}
      BY <1>1, <3>2, <3>3
    <3>7. Sound(e, "server")
      BY <3>9, <3>6, SoundKept
    <3>8. b.k + Asked(e) = a.k + Asked(c) /\ e.wk[3] = c.wk[3] /\ b.ku = e.rk[3]
      <4>1. Asked(c) = 0 /\ Asked(e) = 0
        BY <1>5, <2>1, <3>2, <3>3, <3>4 DEF Asked
      <4> QED BY <1>2, <2>2, <3>3, <3>4, <4>1
    <3>10. GivenData(b.at, b.d) = GivenData(a.at, a.d)
      BY <1>2, <1>5, <2>1, <2>2, GivenDataIs
    <3> QED BY <1>2, <2>2, <3>1, <3>5, <3>6, <3>7, <3>8, <3>10 DEF ServerTook
  <2> QED BY <2>3, <2>4, <2>5 DEF ServerReadsOne
<1>6. CASE c.st = "EARLY_DATA" /\ m.mt = "CCS"
  <2>1. c.v13 /\ ~c.finRead /\ ra = "retry" /\ b = At("retry", c.rk[3], d, k)
    BY <1>6, ToServerIs DEF ServerFirst, AfterHello
  <2>2. b.at = ra /\ b.ku = c.rk[3] /\ b.k = k /\ b.d = d
    BY <2>1 DEF At
  <2>3. GivenData(b.at, b.d) = GivenData(ra, d)
    BY <1>6, <2>1, <2>2, GivenDataIs
  <2>4. Dropped(c, "server", m)
    BY <1>6, <2>1, ServerDrops
  <2> QED BY <1>2, <2>2, <2>3, <2>4 DEF ServerReadsOne
<1>7. CASE c.st = "EARLY_DATA" /\ m.mt = "DATA"
  <2>1. c.v13 /\ ~c.finRead /\ ra = "retry" /\ b = At("retry", c.rk[3], d + 1, k) /\ c.early = "rejected" /\ c.hrr = "pending" /\ ~Accepted
    BY <1>7, ToServerIs DEF ServerFirst, AfterHello, Fate, Offered, Accepted
  <2>2. b.at = ra /\ b.ku = c.rk[3] /\ b.k = k /\ b.d = d + 1
    BY <2>1 DEF At
  <2>3. GivenData(b.at, b.d) = GivenData(ra, d)
    BY <1>7, <2>1, <2>2, GivenDataIs
  <2>4. Dropped(c, "server", m)
    BY <1>7, <2>1, ServerDrops
  <2> QED BY <1>2, <2>2, <2>3, <2>4 DEF ServerReadsOne
<1>8. CASE c.st = "EARLY_DATA" /\ m.mt = "CH"
  <2>1. /\ c.v13 /\ ~m.early /\ c.hrr = "pending" /\ opt.hrr /\ m.pha = opt.pha /\ c.pha = Ext /\ m.key = NoKey /\ c.rk = NoKey /\ c.wk = NoKey
        /\ ~c.finSent /\ ~c.finRead /\ c.certReq = "none" /\ c.phaTr = <<>> /\ ra = "retry" /\ wa = "sh2"
        /\ c.tr = RetryTr /\ c.early = Fate /\ c.ed = ReadEarly /\ b = At("early", c.rk[3], d, k)
    BY <1>8, ToServerIs DEF ServerFirst, AfterHello, Accepted
  <2>2. b.at = ("early") /\ b.ku = c.rk[3] /\ b.d = d /\ b.k = k
    BY <2>1 DEF At
  <2>3. /\ ~Dropped(c, "server", m) /\ m.key = c.rk /\ m.mt \notin {"ALERT", "DATA"}
        /\ ~(m.mt = "CH" /\ RefusesRenegotiation(c))
    BY <1>8, <2>1, ServerDrops DEF RefusesRenegotiation, FirstHandshake
  <2>4. Expects(c, "server", m)
    BY <2>1, ServerReadTable, <1>8 DEF Expects
  <2>5. ASSUME NEW hit PROVE ServerTook(c, Taken(c, "server", m, hit), a, b, wa)
    <3>1. PICK e : e = Taken(c, "server", m, hit)
      OBVIOUS
    <3>2. /\ Same(c, e, {"st", "v13", "finRead", "tr", "hit", "ticket", "pha", "hrr", "flow", "ccs"})
          /\ e.st = "SR_CLNT_HELLO" /\ e.v13 /\ (e.finRead <=> c.finRead)
          /\ e.flow = "WRITING"
          /\ e.hit = opt.hit /\ e.tr = Append(c.tr, "CH") /\ e.pha = (IF m.pha THEN "ext" ELSE c.pha)
          /\ e.hrr = (IF c.hrr = "pending" THEN "complete" ELSE IF c.hrr = "none" /\ opt.hrr THEN "pending" ELSE c.hrr)
      BY <1>1, <1>8, <2>1, <3>1, TookPlainHello
    <3>9. Same(c, e, {"st", "v13", "finRead", "tr", "hit", "ticket", "pha", "hrr", "flow", "ccs"})
      BY <3>2
    <3>3. /\ e.inInit = c.inInit /\ e.finSent = c.finSent /\ e.early = c.early /\ e.ed = c.ed /\ e.certReq = c.certReq
          /\ e.peerCert = c.peerCert /\ e.keyUpdate = c.keyUpdate /\ e.rk = c.rk /\ e.wk = c.wk /\ e.hsTr = c.hsTr
          /\ e.sfTr = c.sfTr /\ e.phaTr = c.phaTr /\ e.reneg = c.reneg /\ e.sentTickets = c.sentTickets /\ e.extraTickets = c.extraTickets
      BY <3>9, FieldsAre DEF Same
    <3>4. e.tr = HelloTr /\ e.hrr = "complete" /\ e.pha = Ext /\ e.wk[3] = c.wk[3] /\ e.rk[3] = c.rk[3]
      BY <1>8, <2>1, <3>2, <3>3, KeyCounts DEF HelloTr, Ext
    <3>5. ServerStage(e, b.at, wa)
      <4>1. ServerRetried(e, "early", wa)
        BY <1>8, <2>1, <2>2, <3>2, <3>3, <3>4 DEF ServerFirst, ServerRetried
      <4> QED BY <2>2, <4>1 DEF ServerStage
    <3>6. e.keyUpdate \in {"none", "requested", "notRequested"} /\ ~e.reneg /\ e.st \notin {"OK", "EARLY_DATA"}
      BY <1>1, <3>2, <3>3
    <3>7. Sound(e, "server")
      BY <3>9, <3>6, SoundKept
    <3>8. b.k + Asked(e) = a.k + Asked(c) /\ e.wk[3] = c.wk[3] /\ b.ku = e.rk[3]
      <4>1. Asked(c) = 0 /\ Asked(e) = 0
        BY <1>8, <2>1, <3>2, <3>3, <3>4 DEF Asked
      <4> QED BY <1>2, <2>2, <3>3, <3>4, <4>1
    <3>10. GivenData(b.at, b.d) = GivenData(a.at, a.d)
      BY <1>2, <1>8, <2>1, <2>2, GivenDataIs
    <3> QED BY <1>2, <2>2, <3>1, <3>5, <3>6, <3>7, <3>8, <3>10 DEF ServerTook
  <2> QED BY <2>3, <2>4, <2>5 DEF ServerReadsOne
<1> QED BY <1>3, <1>4, <1>5, <1>6, <1>7, <1>8, ToServerIs DEF ServerFirst, AfterHello, Accepted

\* The answer of the client.
LEMMA ServerReadsReads ==
    ASSUME NEW c, NEW ra, NEW wa, NEW q, q # <<>>, NEW m, m = Head(q), NEW d \in Nat,
           NEW k \in Nat, NEW a, a = At(ra, c.rk[3], d, k), NEW b, ToServer(a, m, b),
           opt \in OptionRecord, opt.ver = 13, calls \in Nat, Sound(c, "server"), ReadsOn(c, q),
           c.flow = "READING", ra = "ok" /\ m.mt = "CERT" => Asked(c) = 1,
           ServerReads(c, ra, wa)
    PROVE  ServerReadsOne(c, m, a, b, wa)
<1> USE Names
<1>1. DOMAIN c = Fields /\ ~c.reneg /\ c.keyUpdate \in {"none", "requested", "notRequested"}
  BY DEF Sound
<1>2. a.d = d /\ a.k = k /\ a.ku = c.rk[3] /\ a.at = ra
  BY DEF At
<1>50. /\ c.v13 /\ c.finSent /\ ~c.finRead /\ c.phaTr = <<>> /\ c.pha = Ext /\ wa = "ok"
       /\ c.hrr = (IF opt.hrr THEN "complete" ELSE "none")
       /\ c.hit = opt.hit /\ c.early = Fate /\ c.hsTr = HsTr /\ c.sfTr = SfTr /\ c.wk = KA(0)
       /\ c.certReq = (IF Asks THEN "sent" ELSE "none")
       /\ \/ /\ c.st = "EARLY_DATA" /\ ra = "early" /\ c.rk = WaitingKey /\ c.tr = SfTr
             /\ Accepted => c.ed = "reading"
             /\ ~Accepted => c.ed = ReadEarly
          \/ /\ c.st = "SR_END_OF_EARLY_DATA" /\ ra = "answer" /\ Accepted /\ c.tr = AnswerTr
             /\ c.rk = KH /\ c.ed = ReadEarly
          \/ /\ c.st = "SR_CERT" /\ ra = (IF opt.cert THEN "cv" ELSE "fin") /\ c.tr = ClientCertTr
             /\ c.rk = KH /\ c.ed = ReadEarly /\ Asks /\ c.peerCert = opt.cert
          \/ /\ c.st = "SR_CERT_VRFY" /\ ra = "fin" /\ opt.cert /\ c.tr = ClientVerifyTr
             /\ c.rk = KH /\ c.ed = ReadEarly /\ Asks /\ c.peerCert = opt.cert
  BY DEF ServerReads, Server13
<1>52. ra \in {"early", "answer", "cv", "fin"}
  BY <1>50
<1>51. /\ ra = "early" => \/ m.mt = "CCS" /\ b = At("early", c.rk[3], d, k)
                          \/ /\ m.mt = "DATA" /\ Early /\ ~opt.hrr /\ ~Accepted
                             /\ b = At("early", c.rk[3], d + 1, k)
                          \/ /\ m.mt = "EOED" /\ d = opt.early /\ Accepted /\ m.key = KE
                             /\ b = At("answer", c.rk[3], d, k)
                          \/ /\ ~Accepted /\ Asks /\ m.mt = "CERT" /\ d = opt.early /\ m.key = KH
                             /\ m.full = opt.cert
                             /\ b = At(IF opt.cert THEN "cv" ELSE "fin", c.rk[3], d, k)
                          \/ /\ ~Accepted /\ ~Asks /\ m.mt = "FIN" /\ d = opt.early /\ m.key = KH
                             /\ m.digest = ClientTr /\ b = At("ok", c.rk[3], d, k)
       /\ ra = "answer" => /\ ~Asks /\ m.mt = "FIN" /\ d = opt.early /\ m.key = KH
                           /\ m.digest = ClientTr /\ b = At("ok", c.rk[3], d, k)
       /\ ra = "cv" => m.mt = "CV" /\ m.key = KH /\ b = At("fin", c.rk[3], d, k)
       /\ ra = "fin" => /\ m.mt = "FIN" /\ d = opt.early /\ m.key = KH /\ m.digest = ClientTr
                        /\ b = At("ok", c.rk[3], d, k)
  <2>1. CASE ra = "early"
    <3>1. Accepted => m.mt # "DATA"
      BY <1>50, <2>1 DEF ReadsOn, MessageWaits
    <3> QED BY <2>1, <3>1, ToServerIs
  <2>2. CASE ra = "answer"
    <3>1. ~Asks
      BY <1>50, <2>2 DEF Accepted, Asks
    <3> QED BY <2>2, <3>1, ToServerIs
  <2>3. CASE ra \in {"cv", "fin"}
    BY <2>3, ToServerIs
  <2> QED BY <1>52, <2>1, <2>2, <2>3
<1>3. CASE m.mt = "CCS"
  <2>1. c.v13 /\ ~c.finRead /\ b = At(ra, c.rk[3], d, k)
    BY <1>3, <1>50, <1>51
  <2>2. b.at = ra /\ b.ku = c.rk[3] /\ b.k = k /\ b.d = d
    BY <2>1 DEF At
  <2>3. GivenData(b.at, b.d) = GivenData(ra, d)
    BY <1>3, <2>1, <2>2, GivenDataIs
  <2>4. Dropped(c, "server", m)
    BY <1>3, <2>1, ServerDrops
  <2> QED BY <1>2, <2>2, <2>3, <2>4 DEF ServerReadsOne
<1>4. CASE m.mt = "DATA"
  <2>1. c.v13 /\ ~Accepted /\ c.st = "EARLY_DATA" /\ ra = "early" /\ c.early = "rejected" /\ c.hrr # "complete" /\ b = At(ra, c.rk[3], d + 1, k)
    BY <1>4, <1>50, <1>51 DEF Fate, Offered, ReadsOn, MessageWaits
  <2>2. b.at = ra /\ b.ku = c.rk[3] /\ b.k = k /\ b.d = d + 1
    BY <2>1 DEF At
  <2>3. GivenData(b.at, b.d) = GivenData(ra, d)
    BY <1>4, <2>1, <2>2, GivenDataIs
  <2>4. Dropped(c, "server", m)
    BY <1>4, <2>1, ServerDrops
  <2> QED BY <1>2, <2>2, <2>3, <2>4 DEF ServerReadsOne
<1>5. CASE m.mt = "EOED"
  <2>1. /\ c.v13 /\ c.st = "EARLY_DATA" /\ c.ed = "reading" /\ Accepted /\ c.early = "accepted" /\ c.hrr # "pending" /\ m.key = KE /\ c.rk = KE
        /\ c.pha = Ext /\ c.hsTr = HsTr /\ c.tr = SfTr /\ opt.readEarly /\ b = At("answer", c.rk[3], d, k)
    BY <1>5, <1>50, <1>51 DEF Fate, Accepted, WaitingKey
  <2>2. b.at = ("answer") /\ b.ku = c.rk[3] /\ b.d = d /\ b.k = k
    BY <2>1 DEF At
  <2>3. /\ ~Dropped(c, "server", m) /\ m.key = c.rk /\ m.mt \notin {"ALERT", "DATA"}
        /\ ~(m.mt = "CH" /\ RefusesRenegotiation(c))
    BY <1>5, <2>1, ServerDrops DEF RefusesRenegotiation, FirstHandshake
  <2>4. Expects(c, "server", m)
    BY <2>1, ServerReadTable, <1>5 DEF Expects
  <2>5. ASSUME NEW hit PROVE ServerTook(c, Taken(c, "server", m, hit), a, b, wa)
    <3>1. PICK e : e = Taken(c, "server", m, hit)
      OBVIOUS
    <3>2. /\ Same(c, e, {"st", "v13", "finRead", "tr", "ed", "rk", "ccs"})
          /\ e.st = "SR_END_OF_EARLY_DATA" /\ e.v13 /\ (e.finRead <=> c.finRead)
          /\ e.ed = "finishedReading" /\ e.rk = HandshakeKey(c) /\ e.tr = Append(c.tr, "EOED")
      BY <1>1, <1>5, <2>1, <3>1, TookEndOfEarlyData
    <3>9. Same(c, e, {"st", "v13", "finRead", "tr", "ed", "rk", "ccs"})
      BY <3>2
    <3>3. /\ e.flow = c.flow /\ e.inInit = c.inInit /\ e.finSent = c.finSent /\ e.hit = c.hit /\ e.hrr = c.hrr
          /\ e.early = c.early /\ e.certReq = c.certReq /\ e.peerCert = c.peerCert /\ e.pha = c.pha /\ e.keyUpdate = c.keyUpdate
          /\ e.wk = c.wk /\ e.hsTr = c.hsTr /\ e.sfTr = c.sfTr /\ e.phaTr = c.phaTr /\ e.reneg = c.reneg
          /\ e.sentTickets = c.sentTickets /\ e.extraTickets = c.extraTickets
      BY <3>9, FieldsAre DEF Same
    <3>4. e.rk = KH /\ e.ed = ReadEarly /\ e.tr = AnswerTr /\ e.wk[3] = c.wk[3] /\ e.rk[3] = c.rk[3]
      BY <1>5, <2>1, <3>2, <3>3, KeyCounts DEF KH, HandshakeKey, ReadEarly, AnswerTr
    <3>5. ServerStage(e, b.at, wa)
      <4>1. ServerReads(e, "answer", wa)
        BY <1>5, <2>1, <2>2, <3>2, <3>3, <3>4 DEF ServerReads, Server13
      <4> QED BY <2>2, <4>1 DEF ServerStage
    <3>6. e.keyUpdate \in {"none", "requested", "notRequested"} /\ ~e.reneg /\ e.st \notin {"OK", "EARLY_DATA"}
      BY <1>1, <3>2, <3>3
    <3>7. Sound(e, "server")
      BY <3>9, <3>6, SoundKept
    <3>8. b.k + Asked(e) = a.k + Asked(c) /\ e.wk[3] = c.wk[3] /\ b.ku = e.rk[3]
      <4>1. Asked(c) = 0 /\ Asked(e) = 0
        BY <1>5, <2>1, <3>2, <3>3, <3>4 DEF Asked
      <4> QED BY <1>2, <2>2, <3>3, <3>4, <4>1
    <3>10. GivenData(b.at, b.d) = GivenData(a.at, a.d)
      BY <1>2, <1>5, <2>1, <2>2, GivenDataIs
    <3> QED BY <1>2, <2>2, <3>1, <3>5, <3>6, <3>7, <3>8, <3>10 DEF ServerTook
  <2> QED BY <2>3, <2>4, <2>5 DEF ServerReadsOne
<1>6. CASE m.mt = "CERT"
  <2>1. /\ c.v13 /\ c.st = "EARLY_DATA" /\ ~Accepted /\ Asks /\ c.certReq = "sent" /\ c.early # "accepted" /\ c.hrr # "pending" /\ m.key = KH /\ c.rk = KH /\ m.full = opt.cert
        /\ c.pha = Ext /\ c.tr = SfTr /\ c.ed = ReadEarly /\ d = opt.early /\ ra = "early" /\ b = At(IF opt.cert THEN "cv" ELSE "fin", c.rk[3], d, k)
    BY <1>6, <1>50, <1>51 DEF Fate, Offered, WaitingKey, Asks, Accepted
  <2>2. b.at = (IF opt.cert THEN "cv" ELSE "fin") /\ b.ku = c.rk[3] /\ b.d = d /\ b.k = k
    BY <2>1 DEF At
  <2>3. /\ ~Dropped(c, "server", m) /\ m.key = c.rk /\ m.mt \notin {"ALERT", "DATA"}
        /\ ~(m.mt = "CH" /\ RefusesRenegotiation(c))
    BY <1>6, <2>1, ServerDrops DEF RefusesRenegotiation, FirstHandshake
  <2>4. Expects(c, "server", m)
    BY <2>1, ServerReadTable, <1>6 DEF Expects
  <2>5. ASSUME NEW hit PROVE ServerTook(c, Taken(c, "server", m, hit), a, b, wa)
    <3>1. PICK e : e = Taken(c, "server", m, hit)
      OBVIOUS
    <3>2. /\ Same(c, e, {"st", "v13", "finRead", "tr", "peerCert", "sentTickets", "ccs"})
          /\ e.st = "SR_CERT" /\ e.v13 /\ (e.finRead <=> c.finRead)
          /\ e.peerCert = m.full /\ e.sentTickets = 0 /\ e.tr = Append(c.tr, "CERT")
      BY <1>1, <1>6, <2>1, <3>1, TookClientCert
    <3>9. Same(c, e, {"st", "v13", "finRead", "tr", "peerCert", "sentTickets", "ccs"})
      BY <3>2
    <3>3. /\ e.flow = c.flow /\ e.inInit = c.inInit /\ e.finSent = c.finSent /\ e.hit = c.hit /\ e.hrr = c.hrr
          /\ e.early = c.early /\ e.ed = c.ed /\ e.certReq = c.certReq /\ e.pha = c.pha /\ e.keyUpdate = c.keyUpdate
          /\ e.rk = c.rk /\ e.wk = c.wk /\ e.hsTr = c.hsTr /\ e.sfTr = c.sfTr /\ e.phaTr = c.phaTr
          /\ e.reneg = c.reneg /\ e.extraTickets = c.extraTickets
      BY <3>9, FieldsAre DEF Same
    <3>4. e.tr = ClientCertTr /\ e.wk[3] = c.wk[3] /\ e.rk[3] = c.rk[3]
      BY <1>6, <2>1, <3>2, <3>3, KeyCounts DEF ClientCertTr, AnswerTr
    <3>5. ServerStage(e, b.at, wa)
      <4>1. ServerReads(e, IF opt.cert THEN "cv" ELSE "fin", wa)
        BY <1>6, <2>1, <2>2, <3>2, <3>3, <3>4 DEF ServerReads, Server13
      <4> QED BY <2>2, <4>1 DEF ServerStage
    <3>6. e.keyUpdate \in {"none", "requested", "notRequested"} /\ ~e.reneg /\ e.st \notin {"OK", "EARLY_DATA"}
      BY <1>1, <3>2, <3>3
    <3>7. Sound(e, "server")
      BY <3>2, <3>9, SoundReset
    <3>8. b.k + Asked(e) = a.k + Asked(c) /\ e.wk[3] = c.wk[3] /\ b.ku = e.rk[3]
      <4>1. Asked(c) = 0 /\ Asked(e) = 0
        BY <1>6, <2>1, <3>2, <3>3, <3>4 DEF Asked
      <4> QED BY <1>2, <2>2, <3>3, <3>4, <4>1
    <3>10. GivenData(b.at, b.d) = GivenData(a.at, a.d)
      BY <1>2, <1>6, <2>1, <2>2, GivenDataIs DEF OptionRecord
    <3> QED BY <1>2, <2>2, <3>1, <3>5, <3>6, <3>7, <3>8, <3>10 DEF ServerTook
  <2> QED BY <2>3, <2>4, <2>5 DEF ServerReadsOne
<1>7. CASE m.mt = "CV"
  <2>1. /\ c.v13 /\ c.st = "SR_CERT" /\ Asks /\ c.peerCert /\ opt.cert /\ m.key = KH /\ c.rk = KH /\ c.pha = Ext /\ c.tr = ClientCertTr /\ ra = "cv"
        /\ b = At("fin", c.rk[3], d, k)
    BY <1>7, <1>50, <1>51
  <2>2. b.at = ("fin") /\ b.ku = c.rk[3] /\ b.d = d /\ b.k = k
    BY <2>1 DEF At
  <2>3. /\ ~Dropped(c, "server", m) /\ m.key = c.rk /\ m.mt \notin {"ALERT", "DATA"}
        /\ ~(m.mt = "CH" /\ RefusesRenegotiation(c))
    BY <1>7, <2>1, ServerDrops DEF RefusesRenegotiation, FirstHandshake
  <2>4. Expects(c, "server", m)
    BY <2>1, ServerReadTable, <1>7 DEF Expects
  <2>5. ASSUME NEW hit PROVE ServerTook(c, Taken(c, "server", m, hit), a, b, wa)
    <3>1. PICK e : e = Taken(c, "server", m, hit)
      OBVIOUS
    <3>2. /\ Same(c, e, {"st", "v13", "finRead", "tr", "ccs"})
          /\ e.st = "SR_CERT_VRFY" /\ e.v13 /\ (e.finRead <=> c.finRead)
          /\ e.tr = Append(c.tr, "CV")
      BY <1>1, <1>7, <2>1, <3>1, TookClientVerify
    <3>9. Same(c, e, {"st", "v13", "finRead", "tr", "ccs"})
      BY <3>2
    <3>3. /\ e.flow = c.flow /\ e.inInit = c.inInit /\ e.finSent = c.finSent /\ e.hit = c.hit /\ e.hrr = c.hrr
          /\ e.early = c.early /\ e.ed = c.ed /\ e.certReq = c.certReq /\ e.peerCert = c.peerCert /\ e.pha = c.pha
          /\ e.keyUpdate = c.keyUpdate /\ e.rk = c.rk /\ e.wk = c.wk /\ e.hsTr = c.hsTr /\ e.sfTr = c.sfTr
          /\ e.phaTr = c.phaTr /\ e.reneg = c.reneg /\ e.sentTickets = c.sentTickets /\ e.extraTickets = c.extraTickets
      BY <3>9, FieldsAre DEF Same
    <3>4. e.tr = ClientVerifyTr /\ e.wk[3] = c.wk[3] /\ e.rk[3] = c.rk[3]
      BY <1>7, <2>1, <3>2, <3>3, KeyCounts DEF ClientVerifyTr
    <3>5. ServerStage(e, b.at, wa)
      <4>1. ServerReads(e, "fin", wa)
        BY <1>7, <2>1, <2>2, <3>2, <3>3, <3>4 DEF ServerReads, Server13
      <4> QED BY <2>2, <4>1 DEF ServerStage
    <3>6. e.keyUpdate \in {"none", "requested", "notRequested"} /\ ~e.reneg /\ e.st \notin {"OK", "EARLY_DATA"}
      BY <1>1, <3>2, <3>3
    <3>7. Sound(e, "server")
      BY <3>9, <3>6, SoundKept
    <3>8. b.k + Asked(e) = a.k + Asked(c) /\ e.wk[3] = c.wk[3] /\ b.ku = e.rk[3]
      <4>1. Asked(c) = 0 /\ Asked(e) = 0
        BY <1>7, <2>1, <3>2, <3>3, <3>4 DEF Asked
      <4> QED BY <1>2, <2>2, <3>3, <3>4, <4>1
    <3>10. GivenData(b.at, b.d) = GivenData(a.at, a.d)
      BY <1>2, <1>7, <2>1, <2>2, GivenDataIs
    <3> QED BY <1>2, <2>2, <3>1, <3>5, <3>6, <3>7, <3>8, <3>10 DEF ServerTook
  <2> QED BY <2>3, <2>4, <2>5 DEF ServerReadsOne
<1>8. CASE m.mt = "FIN" /\ c.st = "EARLY_DATA"
  <2>1. /\ m.mt = "FIN" /\ m.digest = ClientTr /\ c.tr = ClientTr /\ m.key = KH /\ c.rk = KH /\ d = opt.early /\ b = At("ok", c.rk[3], d, k)
        /\ c.v13 /\ c.pha = Ext /\ c.finSent /\ c.phaTr = <<>> /\ wa = "ok" /\ c.wk = KA(0) /\ c.sfTr = SfTr
        /\ c.ed = ReadEarly /\ c.hit = opt.hit /\ c.early = Fate /\ (c.certReq = "sent" => c.peerCert = opt.cert)
        /\ c.pha # "requested" /\ c.certReq # "sent" /\ c.early # "accepted" /\ c.hrr # "pending" /\ ~Accepted /\ ra = "early"
    BY <1>8, <1>50, <1>51 DEF Ext, WaitingKey, ClientTr, AnswerTr, Fate, Offered, Asks
  <2>2. b.at = ("ok") /\ b.ku = c.rk[3] /\ b.d = d /\ b.k = k
    BY <2>1 DEF At
  <2>3. /\ ~Dropped(c, "server", m) /\ m.key = c.rk /\ m.mt \notin {"ALERT", "DATA"}
        /\ ~(m.mt = "CH" /\ RefusesRenegotiation(c))
    BY <1>8, <2>1, ServerDrops DEF RefusesRenegotiation, FirstHandshake
  <2>4. Expects(c, "server", m)
    BY <2>1, ServerReadTable, <1>8 DEF Expects
  <2>5. ASSUME NEW hit PROVE ServerTook(c, Taken(c, "server", m, hit), a, b, wa)
    <3>1. PICK e : e = Taken(c, "server", m, hit)
      OBVIOUS
    <3>11. m.mt = "FIN" /\ c.v13 /\ c.pha # "requested"
      BY <1>8, <2>1
    <3>2. /\ Same(c, e, {"st", "v13", "finRead", "tr", "phaTr", "cleanup", "rk", "flow", "ccs"})
          /\ e.st = "SR_FINISHED" /\ e.v13 /\ e.finRead
          /\ e.flow = "WRITING"
          /\ e.tr = Append(c.tr, "FIN") /\ e.rk = AppKey(c)
          /\ e.phaTr = (IF c.phaTr = <<>> THEN Append(c.tr, "FIN") ELSE c.phaTr)
      BY <1>1, <3>11, <3>1, TookClientFinished
    <3>9. Same(c, e, {"st", "v13", "finRead", "tr", "phaTr", "cleanup", "rk", "flow", "ccs"})
      BY <3>2
    <3>3. /\ e.inInit = c.inInit /\ e.finSent = c.finSent /\ e.hit = c.hit /\ e.hrr = c.hrr /\ e.early = c.early
          /\ e.ed = c.ed /\ e.certReq = c.certReq /\ e.peerCert = c.peerCert /\ e.pha = c.pha /\ e.keyUpdate = c.keyUpdate
          /\ e.wk = c.wk /\ e.hsTr = c.hsTr /\ e.sfTr = c.sfTr /\ e.reneg = c.reneg /\ e.sentTickets = c.sentTickets
          /\ e.extraTickets = c.extraTickets
      BY <3>9, FieldsAre DEF Same
    <3>4. /\ e.phaTr = PhaTr /\ e.rk = KA(0) /\ IsAppKey(e.rk) /\ IsAppKey(e.wk)
          /\ e.wk[3] = c.wk[3] /\ e.rk[3] = c.rk[3]
      <4>1. e.phaTr = PhaTr
        BY <2>1, <3>2 DEF PhaTr
      <4>2. e.rk = KA(0)
        BY <2>1, <3>2 DEF KA, AppKey
      <4>3. e.wk = KA(0) /\ c.wk = KA(0) /\ c.rk = KH
        BY <2>1, <3>3
      <4> QED BY <4>1, <4>2, <4>3, KeyCounts
    <3>5. ServerStage(e, b.at, wa)
      <4>1. ServerDone(e, "ok", wa)
        BY <1>8, <2>1, <2>2, <3>2, <3>3, <3>4 DEF ServerReads, Server13, ServerDone
      <4> QED BY <2>2, <4>1 DEF ServerStage
    <3>6. e.keyUpdate \in {"none", "requested", "notRequested"} /\ ~e.reneg /\ e.st \notin {"OK", "EARLY_DATA"}
      BY <1>1, <3>2, <3>3
    <3>7. Sound(e, "server")
      BY <3>9, <3>6, SoundKept
    <3>8. b.k + Asked(e) = a.k + Asked(c) /\ e.wk[3] = c.wk[3] /\ b.ku = e.rk[3]
      <4>1. Asked(c) = 0 /\ Asked(e) = 0
        BY <1>8, <2>1, <3>2, <3>3, <3>4 DEF Asked
      <4> QED BY <1>2, <2>2, <3>3, <3>4, <4>1
    <3>10. GivenData(b.at, b.d) = GivenData(a.at, a.d)
      BY <1>2, <1>8, <2>1, <2>2, GivenDataIs DEF OptionRecord
    <3> QED BY <1>2, <2>2, <3>1, <3>5, <3>6, <3>7, <3>8, <3>10 DEF ServerTook
  <2> QED BY <2>3, <2>4, <2>5 DEF ServerReadsOne
<1>9. CASE m.mt = "FIN" /\ c.st = "SR_END_OF_EARLY_DATA"
  <2>1. /\ m.mt = "FIN" /\ m.digest = ClientTr /\ c.tr = ClientTr /\ m.key = KH /\ c.rk = KH /\ d = opt.early /\ b = At("ok", c.rk[3], d, k)
        /\ c.v13 /\ c.pha = Ext /\ c.finSent /\ c.phaTr = <<>> /\ wa = "ok" /\ c.wk = KA(0) /\ c.sfTr = SfTr
        /\ c.ed = ReadEarly /\ c.hit = opt.hit /\ c.early = Fate /\ (c.certReq = "sent" => c.peerCert = opt.cert)
        /\ c.pha # "requested" /\ c.certReq # "sent" /\ Accepted
    BY <1>9, <1>50, <1>51 DEF Ext, ClientTr, Accepted, Asks
  <2>2. b.at = ("ok") /\ b.ku = c.rk[3] /\ b.d = d /\ b.k = k
    BY <2>1 DEF At
  <2>3. /\ ~Dropped(c, "server", m) /\ m.key = c.rk /\ m.mt \notin {"ALERT", "DATA"}
        /\ ~(m.mt = "CH" /\ RefusesRenegotiation(c))
    BY <1>9, <2>1, ServerDrops DEF RefusesRenegotiation, FirstHandshake
  <2>4. Expects(c, "server", m)
    BY <2>1, ServerReadTable, <1>9 DEF Expects
  <2>5. ASSUME NEW hit PROVE ServerTook(c, Taken(c, "server", m, hit), a, b, wa)
    <3>1. PICK e : e = Taken(c, "server", m, hit)
      OBVIOUS
    <3>11. m.mt = "FIN" /\ c.v13 /\ c.pha # "requested"
      BY <1>9, <2>1
    <3>2. /\ Same(c, e, {"st", "v13", "finRead", "tr", "phaTr", "cleanup", "rk", "flow", "ccs"})
          /\ e.st = "SR_FINISHED" /\ e.v13 /\ e.finRead
          /\ e.flow = "WRITING"
          /\ e.tr = Append(c.tr, "FIN") /\ e.rk = AppKey(c)
          /\ e.phaTr = (IF c.phaTr = <<>> THEN Append(c.tr, "FIN") ELSE c.phaTr)
      BY <1>1, <3>11, <3>1, TookClientFinished
    <3>9. Same(c, e, {"st", "v13", "finRead", "tr", "phaTr", "cleanup", "rk", "flow", "ccs"})
      BY <3>2
    <3>3. /\ e.inInit = c.inInit /\ e.finSent = c.finSent /\ e.hit = c.hit /\ e.hrr = c.hrr /\ e.early = c.early
          /\ e.ed = c.ed /\ e.certReq = c.certReq /\ e.peerCert = c.peerCert /\ e.pha = c.pha /\ e.keyUpdate = c.keyUpdate
          /\ e.wk = c.wk /\ e.hsTr = c.hsTr /\ e.sfTr = c.sfTr /\ e.reneg = c.reneg /\ e.sentTickets = c.sentTickets
          /\ e.extraTickets = c.extraTickets
      BY <3>9, FieldsAre DEF Same
    <3>4. /\ e.phaTr = PhaTr /\ e.rk = KA(0) /\ IsAppKey(e.rk) /\ IsAppKey(e.wk)
          /\ e.wk[3] = c.wk[3] /\ e.rk[3] = c.rk[3]
      <4>1. e.phaTr = PhaTr
        BY <2>1, <3>2 DEF PhaTr
      <4>2. e.rk = KA(0)
        BY <2>1, <3>2 DEF KA, AppKey
      <4>3. e.wk = KA(0) /\ c.wk = KA(0) /\ c.rk = KH
        BY <2>1, <3>3
      <4> QED BY <4>1, <4>2, <4>3, KeyCounts
    <3>5. ServerStage(e, b.at, wa)
      <4>1. ServerDone(e, "ok", wa)
        BY <1>9, <2>1, <2>2, <3>2, <3>3, <3>4 DEF ServerReads, Server13, ServerDone
      <4> QED BY <2>2, <4>1 DEF ServerStage
    <3>6. e.keyUpdate \in {"none", "requested", "notRequested"} /\ ~e.reneg /\ e.st \notin {"OK", "EARLY_DATA"}
      BY <1>1, <3>2, <3>3
    <3>7. Sound(e, "server")
      BY <3>9, <3>6, SoundKept
    <3>8. b.k + Asked(e) = a.k + Asked(c) /\ e.wk[3] = c.wk[3] /\ b.ku = e.rk[3]
      <4>1. Asked(c) = 0 /\ Asked(e) = 0
        BY <1>9, <2>1, <3>2, <3>3, <3>4 DEF Asked
      <4> QED BY <1>2, <2>2, <3>3, <3>4, <4>1
    <3>10. GivenData(b.at, b.d) = GivenData(a.at, a.d)
      BY <1>2, <1>9, <2>1, <2>2, GivenDataIs DEF OptionRecord
    <3> QED BY <1>2, <2>2, <3>1, <3>5, <3>6, <3>7, <3>8, <3>10 DEF ServerTook
  <2> QED BY <2>3, <2>4, <2>5 DEF ServerReadsOne
<1>10. CASE m.mt = "FIN" /\ c.st = "SR_CERT"
  <2>1. /\ m.mt = "FIN" /\ m.digest = ClientTr /\ c.tr = ClientTr /\ m.key = KH /\ c.rk = KH /\ d = opt.early /\ b = At("ok", c.rk[3], d, k)
        /\ c.v13 /\ c.pha = Ext /\ c.finSent /\ c.phaTr = <<>> /\ wa = "ok" /\ c.wk = KA(0) /\ c.sfTr = SfTr
        /\ c.ed = ReadEarly /\ c.hit = opt.hit /\ c.early = Fate /\ (c.certReq = "sent" => c.peerCert = opt.cert)
        /\ c.pha # "requested" /\ ~c.peerCert /\ ra = "fin"
    BY <1>10, <1>50, <1>51 DEF Ext, ClientTr, ClientVerifyTr
  <2>2. b.at = ("ok") /\ b.ku = c.rk[3] /\ b.d = d /\ b.k = k
    BY <2>1 DEF At
  <2>3. /\ ~Dropped(c, "server", m) /\ m.key = c.rk /\ m.mt \notin {"ALERT", "DATA"}
        /\ ~(m.mt = "CH" /\ RefusesRenegotiation(c))
    BY <1>10, <2>1, ServerDrops DEF RefusesRenegotiation, FirstHandshake
  <2>4. Expects(c, "server", m)
    BY <2>1, ServerReadTable, <1>10 DEF Expects
  <2>5. ASSUME NEW hit PROVE ServerTook(c, Taken(c, "server", m, hit), a, b, wa)
    <3>1. PICK e : e = Taken(c, "server", m, hit)
      OBVIOUS
    <3>11. m.mt = "FIN" /\ c.v13 /\ c.pha # "requested"
      BY <1>10, <2>1
    <3>2. /\ Same(c, e, {"st", "v13", "finRead", "tr", "phaTr", "cleanup", "rk", "flow", "ccs"})
          /\ e.st = "SR_FINISHED" /\ e.v13 /\ e.finRead
          /\ e.flow = "WRITING"
          /\ e.tr = Append(c.tr, "FIN") /\ e.rk = AppKey(c)
          /\ e.phaTr = (IF c.phaTr = <<>> THEN Append(c.tr, "FIN") ELSE c.phaTr)
      BY <1>1, <3>11, <3>1, TookClientFinished
    <3>9. Same(c, e, {"st", "v13", "finRead", "tr", "phaTr", "cleanup", "rk", "flow", "ccs"})
      BY <3>2
    <3>3. /\ e.inInit = c.inInit /\ e.finSent = c.finSent /\ e.hit = c.hit /\ e.hrr = c.hrr /\ e.early = c.early
          /\ e.ed = c.ed /\ e.certReq = c.certReq /\ e.peerCert = c.peerCert /\ e.pha = c.pha /\ e.keyUpdate = c.keyUpdate
          /\ e.wk = c.wk /\ e.hsTr = c.hsTr /\ e.sfTr = c.sfTr /\ e.reneg = c.reneg /\ e.sentTickets = c.sentTickets
          /\ e.extraTickets = c.extraTickets
      BY <3>9, FieldsAre DEF Same
    <3>4. /\ e.phaTr = PhaTr /\ e.rk = KA(0) /\ IsAppKey(e.rk) /\ IsAppKey(e.wk)
          /\ e.wk[3] = c.wk[3] /\ e.rk[3] = c.rk[3]
      <4>1. e.phaTr = PhaTr
        BY <2>1, <3>2 DEF PhaTr
      <4>2. e.rk = KA(0)
        BY <2>1, <3>2 DEF KA, AppKey
      <4>3. e.wk = KA(0) /\ c.wk = KA(0) /\ c.rk = KH
        BY <2>1, <3>3
      <4> QED BY <4>1, <4>2, <4>3, KeyCounts
    <3>5. ServerStage(e, b.at, wa)
      <4>1. ServerDone(e, "ok", wa)
        BY <1>10, <2>1, <2>2, <3>2, <3>3, <3>4 DEF ServerReads, Server13, ServerDone
      <4> QED BY <2>2, <4>1 DEF ServerStage
    <3>6. e.keyUpdate \in {"none", "requested", "notRequested"} /\ ~e.reneg /\ e.st \notin {"OK", "EARLY_DATA"}
      BY <1>1, <3>2, <3>3
    <3>7. Sound(e, "server")
      BY <3>9, <3>6, SoundKept
    <3>8. b.k + Asked(e) = a.k + Asked(c) /\ e.wk[3] = c.wk[3] /\ b.ku = e.rk[3]
      <4>1. Asked(c) = 0 /\ Asked(e) = 0
        BY <1>10, <2>1, <3>2, <3>3, <3>4 DEF Asked
      <4> QED BY <1>2, <2>2, <3>3, <3>4, <4>1
    <3>10. GivenData(b.at, b.d) = GivenData(a.at, a.d)
      BY <1>2, <1>10, <2>1, <2>2, GivenDataIs DEF OptionRecord
    <3> QED BY <1>2, <2>2, <3>1, <3>5, <3>6, <3>7, <3>8, <3>10 DEF ServerTook
  <2> QED BY <2>3, <2>4, <2>5 DEF ServerReadsOne
<1>11. CASE m.mt = "FIN" /\ c.st = "SR_CERT_VRFY"
  <2>1. /\ m.mt = "FIN" /\ m.digest = ClientTr /\ c.tr = ClientTr /\ m.key = KH /\ c.rk = KH /\ d = opt.early /\ b = At("ok", c.rk[3], d, k)
        /\ c.v13 /\ c.pha = Ext /\ c.finSent /\ c.phaTr = <<>> /\ wa = "ok" /\ c.wk = KA(0) /\ c.sfTr = SfTr
        /\ c.ed = ReadEarly /\ c.hit = opt.hit /\ c.early = Fate /\ (c.certReq = "sent" => c.peerCert = opt.cert)
        /\ c.pha # "requested" /\ ra = "fin"
    BY <1>11, <1>50, <1>51 DEF Ext, ClientTr
  <2>2. b.at = ("ok") /\ b.ku = c.rk[3] /\ b.d = d /\ b.k = k
    BY <2>1 DEF At
  <2>3. /\ ~Dropped(c, "server", m) /\ m.key = c.rk /\ m.mt \notin {"ALERT", "DATA"}
        /\ ~(m.mt = "CH" /\ RefusesRenegotiation(c))
    BY <1>11, <2>1, ServerDrops DEF RefusesRenegotiation, FirstHandshake
  <2>4. Expects(c, "server", m)
    BY <2>1, ServerReadTable, <1>11 DEF Expects
  <2>5. ASSUME NEW hit PROVE ServerTook(c, Taken(c, "server", m, hit), a, b, wa)
    <3>1. PICK e : e = Taken(c, "server", m, hit)
      OBVIOUS
    <3>11. m.mt = "FIN" /\ c.v13 /\ c.pha # "requested"
      BY <1>11, <2>1
    <3>2. /\ Same(c, e, {"st", "v13", "finRead", "tr", "phaTr", "cleanup", "rk", "flow", "ccs"})
          /\ e.st = "SR_FINISHED" /\ e.v13 /\ e.finRead
          /\ e.flow = "WRITING"
          /\ e.tr = Append(c.tr, "FIN") /\ e.rk = AppKey(c)
          /\ e.phaTr = (IF c.phaTr = <<>> THEN Append(c.tr, "FIN") ELSE c.phaTr)
      BY <1>1, <3>11, <3>1, TookClientFinished
    <3>9. Same(c, e, {"st", "v13", "finRead", "tr", "phaTr", "cleanup", "rk", "flow", "ccs"})
      BY <3>2
    <3>3. /\ e.inInit = c.inInit /\ e.finSent = c.finSent /\ e.hit = c.hit /\ e.hrr = c.hrr /\ e.early = c.early
          /\ e.ed = c.ed /\ e.certReq = c.certReq /\ e.peerCert = c.peerCert /\ e.pha = c.pha /\ e.keyUpdate = c.keyUpdate
          /\ e.wk = c.wk /\ e.hsTr = c.hsTr /\ e.sfTr = c.sfTr /\ e.reneg = c.reneg /\ e.sentTickets = c.sentTickets
          /\ e.extraTickets = c.extraTickets
      BY <3>9, FieldsAre DEF Same
    <3>4. /\ e.phaTr = PhaTr /\ e.rk = KA(0) /\ IsAppKey(e.rk) /\ IsAppKey(e.wk)
          /\ e.wk[3] = c.wk[3] /\ e.rk[3] = c.rk[3]
      <4>1. e.phaTr = PhaTr
        BY <2>1, <3>2 DEF PhaTr
      <4>2. e.rk = KA(0)
        BY <2>1, <3>2 DEF KA, AppKey
      <4>3. e.wk = KA(0) /\ c.wk = KA(0) /\ c.rk = KH
        BY <2>1, <3>3
      <4> QED BY <4>1, <4>2, <4>3, KeyCounts
    <3>5. ServerStage(e, b.at, wa)
      <4>1. ServerDone(e, "ok", wa)
        BY <1>11, <2>1, <2>2, <3>2, <3>3, <3>4 DEF ServerReads, Server13, ServerDone
      <4> QED BY <2>2, <4>1 DEF ServerStage
    <3>6. e.keyUpdate \in {"none", "requested", "notRequested"} /\ ~e.reneg /\ e.st \notin {"OK", "EARLY_DATA"}
      BY <1>1, <3>2, <3>3
    <3>7. Sound(e, "server")
      BY <3>9, <3>6, SoundKept
    <3>8. b.k + Asked(e) = a.k + Asked(c) /\ e.wk[3] = c.wk[3] /\ b.ku = e.rk[3]
      <4>1. Asked(c) = 0 /\ Asked(e) = 0
        BY <1>11, <2>1, <3>2, <3>3, <3>4 DEF Asked
      <4> QED BY <1>2, <2>2, <3>3, <3>4, <4>1
    <3>10. GivenData(b.at, b.d) = GivenData(a.at, a.d)
      BY <1>2, <1>11, <2>1, <2>2, GivenDataIs DEF OptionRecord
    <3> QED BY <1>2, <2>2, <3>1, <3>5, <3>6, <3>7, <3>8, <3>10 DEF ServerTook
  <2> QED BY <2>3, <2>4, <2>5 DEF ServerReadsOne
<1> QED BY <1>3, <1>4, <1>5, <1>6, <1>7, <1>8, <1>9, <1>10, <1>11, <1>50, <1>51

\* Messages after the handshake.
LEMMA ServerDoneReads ==
    ASSUME NEW c, NEW ra, NEW wa, NEW q, q # <<>>, NEW m, m = Head(q), NEW d \in Nat,
           NEW k \in Nat, NEW a, a = At(ra, c.rk[3], d, k), NEW b, ToServer(a, m, b),
           opt \in OptionRecord, opt.ver = 13, calls \in Nat, Sound(c, "server"), ReadsOn(c, q),
           c.flow = "READING", ra = "ok" /\ m.mt = "CERT" => Asked(c) = 1,
           ServerDone(c, ra, wa)
    PROVE  ServerReadsOne(c, m, a, b, wa)
<1> USE Names
<1>1. DOMAIN c = Fields /\ ~c.reneg /\ c.keyUpdate \in {"none", "requested", "notRequested"}
  BY DEF Sound
<1>2. a.d = d /\ a.k = k /\ a.ku = c.rk[3] /\ a.at = ra
  BY DEF At
<1>3. CASE c.st = "OK" /\ m.mt = "KU"
  <2>1. c.v13 /\ m.key = c.rk /\ IsAppKey(c.rk) /\ IsAppKey(c.wk) /\ c.phaTr = PhaTr /\ c.ed # "reading" /\ ra = "ok" /\ b = At("ok", c.rk[3] + 1, d, k)
    BY <1>3, ToServerIs DEF ServerDone, IsAppKey, ReadEarly
  <2>2. b.at = ("ok") /\ b.ku = c.rk[3] + 1 /\ b.d = d /\ b.k = k
    BY <2>1 DEF At
  <2>3. /\ ~Dropped(c, "server", m) /\ m.key = c.rk /\ m.mt \notin {"ALERT", "DATA"}
        /\ ~(m.mt = "CH" /\ RefusesRenegotiation(c))
    BY <1>3, <2>1, ServerDrops DEF RefusesRenegotiation, FirstHandshake
  <2>4. Expects(c, "server", m)
    BY <2>1, ServerReadTable, <1>3 DEF Expects
  <2>5. ASSUME NEW hit PROVE ServerTook(c, Taken(c, "server", m, hit), a, b, wa)
    <3>1. PICK e : e = Taken(c, "server", m, hit)
      OBVIOUS
    <3>2. /\ Same(c, e, {"st", "v13", "finRead", "tr", "rk", "keyUpdate", "flow", "ccs"})
          /\ e.st = "SR_KEY_UPDATE" /\ e.v13 /\ (e.finRead <=> c.finRead)
          /\ e.flow = "WRITING"
          /\ e.tr = c.tr /\ e.rk = UpdatedKey(c.rk)
          /\ e.keyUpdate = (IF m.request THEN "notRequested" ELSE c.keyUpdate)
      BY <1>1, <1>3, <2>1, <3>1, ServerTookKeyUpdate
    <3>9. Same(c, e, {"st", "v13", "finRead", "tr", "rk", "keyUpdate", "flow", "ccs"})
      BY <3>2
    <3>3. /\ e.inInit = c.inInit /\ e.finSent = c.finSent /\ e.hit = c.hit /\ e.hrr = c.hrr /\ e.early = c.early
          /\ e.ed = c.ed /\ e.certReq = c.certReq /\ e.peerCert = c.peerCert /\ e.pha = c.pha /\ e.wk = c.wk
          /\ e.hsTr = c.hsTr /\ e.sfTr = c.sfTr /\ e.phaTr = c.phaTr /\ e.reneg = c.reneg /\ e.sentTickets = c.sentTickets
          /\ e.extraTickets = c.extraTickets
      BY <3>9, FieldsAre DEF Same
    <3>4. c.rk[3] + 1 = e.rk[3] /\ IsAppKey(e.rk) /\ IsAppKey(e.wk)
      BY <1>3, <2>1, <3>2, <3>3, KeyCounts, KeyUpdates
    <3>5. ServerStage(e, b.at, wa)
      <4>1. ServerDone(e, "ok", wa)
        BY <1>3, <2>1, <2>2, <3>2, <3>3, <3>4 DEF ServerDone, AboutToAsk
      <4> QED BY <2>2, <4>1 DEF ServerStage
    <3>6. e.keyUpdate \in {"none", "requested", "notRequested"} /\ ~e.reneg /\ e.st \notin {"OK", "EARLY_DATA"}
      BY <1>1, <3>2, <3>3
    <3>7. Sound(e, "server")
      BY <3>9, <3>6, SoundKept
    <3>8. b.k + Asked(e) = a.k + Asked(c) /\ e.wk[3] = c.wk[3] /\ b.ku = e.rk[3]
      <4>1. Asked(c) = Asked(e) /\ Asked(c) \in {0, 1}
        BY <1>3, <2>1, <3>2, <3>3, <3>4 DEF Asked
      <4> QED BY <1>2, <2>2, <3>3, <3>4, <4>1
    <3>10. GivenData(b.at, b.d) = GivenData(a.at, a.d)
      BY <1>2, <1>3, <2>1, <2>2, GivenDataIs
    <3> QED BY <1>2, <2>2, <3>1, <3>5, <3>6, <3>7, <3>8, <3>10 DEF ServerTook
  <2> QED BY <2>3, <2>4, <2>5 DEF ServerReadsOne
<1>4. CASE c.st = "OK" /\ m.mt = "CERT"
  <2>1. c.v13 /\ m.key = c.rk /\ IsAppKey(c.rk) /\ IsAppKey(c.wk) /\ c.phaTr = PhaTr /\ c.ed # "reading" /\ ra = "ok" /\ c.pha = "requested" /\ opt.pha /\ c.tr = PhaReqTr
        /\ m.full = opt.cert /\ b = At(IF opt.cert THEN "pcv" ELSE "pfin", c.rk[3], d, k + 1)
    BY <1>4, ToServerIs DEF ServerDone, IsAppKey, ReadEarly, Asked
  <2>2. b.at = (IF opt.cert THEN "pcv" ELSE "pfin") /\ b.ku = c.rk[3] /\ b.d = d /\ b.k = k + 1
    BY <2>1 DEF At
  <2>3. /\ ~Dropped(c, "server", m) /\ m.key = c.rk /\ m.mt \notin {"ALERT", "DATA"}
        /\ ~(m.mt = "CH" /\ RefusesRenegotiation(c))
    BY <1>4, <2>1, ServerDrops DEF RefusesRenegotiation, FirstHandshake
  <2>4. Expects(c, "server", m)
    BY <2>1, ServerReadTable, <1>4 DEF Expects
  <2>5. ASSUME NEW hit PROVE ServerTook(c, Taken(c, "server", m, hit), a, b, wa)
    <3>1. PICK e : e = Taken(c, "server", m, hit)
      OBVIOUS
    <3>2. /\ Same(c, e, {"st", "v13", "finRead", "tr", "peerCert", "sentTickets", "ccs"})
          /\ e.st = "SR_CERT" /\ e.v13 /\ (e.finRead <=> c.finRead)
          /\ e.peerCert = m.full /\ e.sentTickets = 0 /\ e.tr = Append(c.tr, "CERT")
      BY <1>1, <1>4, <2>1, <3>1, TookClientCert
    <3>9. Same(c, e, {"st", "v13", "finRead", "tr", "peerCert", "sentTickets", "ccs"})
      BY <3>2
    <3>3. /\ e.flow = c.flow /\ e.inInit = c.inInit /\ e.finSent = c.finSent /\ e.hit = c.hit /\ e.hrr = c.hrr
          /\ e.early = c.early /\ e.ed = c.ed /\ e.certReq = c.certReq /\ e.pha = c.pha /\ e.keyUpdate = c.keyUpdate
          /\ e.rk = c.rk /\ e.wk = c.wk /\ e.hsTr = c.hsTr /\ e.sfTr = c.sfTr /\ e.phaTr = c.phaTr
          /\ e.reneg = c.reneg /\ e.extraTickets = c.extraTickets
      BY <3>9, FieldsAre DEF Same
    <3>4. c.rk[3] = e.rk[3] /\ e.tr = PhaCertTr /\ IsAppKey(e.rk) /\ IsAppKey(e.wk)
      BY <1>4, <2>1, <3>2, <3>3, KeyCounts DEF PhaCertTr
    <3>5. ServerStage(e, b.at, wa)
      <4>1. ServerDone(e, IF opt.cert THEN "pcv" ELSE "pfin", wa)
        BY <1>4, <2>1, <2>2, <3>2, <3>3, <3>4 DEF ServerDone
      <4> QED BY <2>2, <4>1 DEF ServerStage
    <3>6. e.keyUpdate \in {"none", "requested", "notRequested"} /\ ~e.reneg /\ e.st \notin {"OK", "EARLY_DATA"}
      BY <1>1, <3>2, <3>3
    <3>7. Sound(e, "server")
      BY <3>2, <3>9, SoundReset
    <3>8. b.k + Asked(e) = a.k + Asked(c) /\ e.wk[3] = c.wk[3] /\ b.ku = e.rk[3]
      <4>1. Asked(c) = 1 /\ Asked(e) = 0
        BY <1>4, <2>1, <3>2, <3>3, <3>4 DEF Asked
      <4> QED BY <1>2, <2>2, <3>3, <3>4, <4>1
    <3>10. GivenData(b.at, b.d) = GivenData(a.at, a.d)
      BY <1>2, <1>4, <2>1, <2>2, GivenDataIs
    <3> QED BY <1>2, <2>2, <3>1, <3>5, <3>6, <3>7, <3>8, <3>10 DEF ServerTook
  <2> QED BY <2>3, <2>4, <2>5 DEF ServerReadsOne
<1>5. CASE m.mt = "CV"
  <2>1. c.v13 /\ m.key = c.rk /\ IsAppKey(c.rk) /\ IsAppKey(c.wk) /\ c.phaTr = PhaTr /\ c.st = "SR_CERT" /\ c.peerCert /\ opt.cert /\ ra = "pcv" /\ c.pha = "requested" /\ opt.pha /\ c.tr = PhaCertTr
        /\ b = At("pfin", c.rk[3], d, k)
    BY <1>5, ToServerIs DEF ServerDone, IsAppKey
  <2>2. b.at = ("pfin") /\ b.ku = c.rk[3] /\ b.d = d /\ b.k = k
    BY <2>1 DEF At
  <2>3. /\ ~Dropped(c, "server", m) /\ m.key = c.rk /\ m.mt \notin {"ALERT", "DATA"}
        /\ ~(m.mt = "CH" /\ RefusesRenegotiation(c))
    BY <1>5, <2>1, ServerDrops DEF RefusesRenegotiation, FirstHandshake
  <2>4. Expects(c, "server", m)
    BY <2>1, ServerReadTable, <1>5 DEF Expects
  <2>5. ASSUME NEW hit PROVE ServerTook(c, Taken(c, "server", m, hit), a, b, wa)
    <3>1. PICK e : e = Taken(c, "server", m, hit)
      OBVIOUS
    <3>2. /\ Same(c, e, {"st", "v13", "finRead", "tr", "ccs"})
          /\ e.st = "SR_CERT_VRFY" /\ e.v13 /\ (e.finRead <=> c.finRead)
          /\ e.tr = Append(c.tr, "CV")
      BY <1>1, <1>5, <2>1, <3>1, TookClientVerify
    <3>9. Same(c, e, {"st", "v13", "finRead", "tr", "ccs"})
      BY <3>2
    <3>3. /\ e.flow = c.flow /\ e.inInit = c.inInit /\ e.finSent = c.finSent /\ e.hit = c.hit /\ e.hrr = c.hrr
          /\ e.early = c.early /\ e.ed = c.ed /\ e.certReq = c.certReq /\ e.peerCert = c.peerCert /\ e.pha = c.pha
          /\ e.keyUpdate = c.keyUpdate /\ e.rk = c.rk /\ e.wk = c.wk /\ e.hsTr = c.hsTr /\ e.sfTr = c.sfTr
          /\ e.phaTr = c.phaTr /\ e.reneg = c.reneg /\ e.sentTickets = c.sentTickets /\ e.extraTickets = c.extraTickets
      BY <3>9, FieldsAre DEF Same
    <3>4. c.rk[3] = e.rk[3] /\ e.tr = PhaAnswerTr /\ IsAppKey(e.rk) /\ IsAppKey(e.wk)
      BY <1>5, <2>1, <3>2, <3>3, KeyCounts DEF PhaAnswerTr
    <3>5. ServerStage(e, b.at, wa)
      <4>1. ServerDone(e, "pfin", wa)
        BY <1>5, <2>1, <2>2, <3>2, <3>3, <3>4 DEF ServerDone
      <4> QED BY <2>2, <4>1 DEF ServerStage
    <3>6. e.keyUpdate \in {"none", "requested", "notRequested"} /\ ~e.reneg /\ e.st \notin {"OK", "EARLY_DATA"}
      BY <1>1, <3>2, <3>3
    <3>7. Sound(e, "server")
      BY <3>9, <3>6, SoundKept
    <3>8. b.k + Asked(e) = a.k + Asked(c) /\ e.wk[3] = c.wk[3] /\ b.ku = e.rk[3]
      <4>1. Asked(c) = 0 /\ Asked(e) = 0
        BY <1>5, <2>1, <3>2, <3>3, <3>4 DEF Asked
      <4> QED BY <1>2, <2>2, <3>3, <3>4, <4>1
    <3>10. GivenData(b.at, b.d) = GivenData(a.at, a.d)
      BY <1>2, <1>5, <2>1, <2>2, GivenDataIs
    <3> QED BY <1>2, <2>2, <3>1, <3>5, <3>6, <3>7, <3>8, <3>10 DEF ServerTook
  <2> QED BY <2>3, <2>4, <2>5 DEF ServerReadsOne
<1>6. CASE m.mt = "FIN"
  <2>1. c.v13 /\ m.key = c.rk /\ IsAppKey(c.rk) /\ IsAppKey(c.wk) /\ c.phaTr = PhaTr /\ c.st \in {"SR_CERT", "SR_CERT_VRFY"} /\ (c.st = "SR_CERT" => ~c.peerCert) /\ ra = "pfin" /\ c.pha = "requested" /\ opt.pha
        /\ c.tr = PhaAnswerTr /\ m.digest = PhaAnswerTr /\ b = At("ok", c.rk[3], d, k)
    BY <1>6, ToServerIs DEF ServerDone, IsAppKey, PhaAnswerTr
  <2>2. b.at = ("ok") /\ b.ku = c.rk[3] /\ b.d = d /\ b.k = k
    BY <2>1 DEF At
  <2>3. /\ ~Dropped(c, "server", m) /\ m.key = c.rk /\ m.mt \notin {"ALERT", "DATA"}
        /\ ~(m.mt = "CH" /\ RefusesRenegotiation(c))
    BY <1>6, <2>1, ServerDrops DEF RefusesRenegotiation, FirstHandshake
  <2>4. Expects(c, "server", m)
    BY <2>1, ServerReadTable, <1>6 DEF Expects
  <2>5. ASSUME NEW hit PROVE ServerTook(c, Taken(c, "server", m, hit), a, b, wa)
    <3>1. PICK e : e = Taken(c, "server", m, hit)
      OBVIOUS
    <3>2. /\ Same(c, e, {"st", "v13", "finRead", "tr", "phaTr", "flow", "ccs"})
          /\ e.st = "SR_FINISHED" /\ e.v13 /\ e.finRead
          /\ e.flow = "WRITING"
          /\ e.tr = Append(c.tr, "FIN") /\ e.phaTr = (IF c.phaTr = <<>> THEN Append(c.tr, "FIN") ELSE c.phaTr)
      BY <1>1, <1>6, <2>1, <3>1, TookPhaFinished
    <3>9. Same(c, e, {"st", "v13", "finRead", "tr", "phaTr", "flow", "ccs"})
      BY <3>2
    <3>3. /\ e.inInit = c.inInit /\ e.finSent = c.finSent /\ e.hit = c.hit /\ e.hrr = c.hrr /\ e.early = c.early
          /\ e.ed = c.ed /\ e.certReq = c.certReq /\ e.peerCert = c.peerCert /\ e.pha = c.pha /\ e.keyUpdate = c.keyUpdate
          /\ e.rk = c.rk /\ e.wk = c.wk /\ e.hsTr = c.hsTr /\ e.sfTr = c.sfTr /\ e.reneg = c.reneg
          /\ e.sentTickets = c.sentTickets /\ e.extraTickets = c.extraTickets
      BY <3>9, FieldsAre DEF Same
    <3>4. c.rk[3] = e.rk[3] /\ e.phaTr = PhaTr /\ IsAppKey(e.rk) /\ IsAppKey(e.wk)
      BY <1>6, <2>1, <3>2, <3>3, KeyCounts, TranscriptKept
    <3>5. ServerStage(e, b.at, wa)
      <4>1. ServerDone(e, "ok", wa)
        BY <1>6, <2>1, <2>2, <3>2, <3>3, <3>4 DEF ServerDone
      <4> QED BY <2>2, <4>1 DEF ServerStage
    <3>6. e.keyUpdate \in {"none", "requested", "notRequested"} /\ ~e.reneg /\ e.st \notin {"OK", "EARLY_DATA"}
      BY <1>1, <3>2, <3>3
    <3>7. Sound(e, "server")
      BY <3>9, <3>6, SoundKept
    <3>8. b.k + Asked(e) = a.k + Asked(c) /\ e.wk[3] = c.wk[3] /\ b.ku = e.rk[3]
      <4>1. Asked(c) = 0 /\ Asked(e) = 0
        BY <1>6, <2>1, <3>2, <3>3, <3>4 DEF Asked
      <4> QED BY <1>2, <2>2, <3>3, <3>4, <4>1
    <3>10. GivenData(b.at, b.d) = GivenData(a.at, a.d)
      BY <1>2, <1>6, <2>1, <2>2, GivenDataIs
    <3> QED BY <1>2, <2>2, <3>1, <3>5, <3>6, <3>7, <3>8, <3>10 DEF ServerTook
  <2> QED BY <2>3, <2>4, <2>5 DEF ServerReadsOne
<1> QED BY <1>3, <1>4, <1>5, <1>6, ToServerIs DEF ServerDone, ReadsOn, MessageWaits

LEMMA ServerReadsRecord ==
    ASSUME NEW c, NEW ra, NEW wa, NEW q, q # <<>>, NEW m, m = Head(q), NEW d \in Nat,
           NEW k \in Nat, NEW a, a = At(ra, c.rk[3], d, k), NEW b, ToServer(a, m, b),
           opt \in OptionRecord, opt.ver = 13, calls \in Nat, Sound(c, "server"), ReadsOn(c, q),
           c.flow = "READING", ra = "ok" /\ m.mt = "CERT" => Asked(c) = 1,
           ServerStage(c, ra, wa)
    PROVE  ServerReadsOne(c, m, a, b, wa)
<1>1. CASE ServerFirst(c, ra, wa)
  BY <1>1, ServerFirstReads
<1>2. CASE ServerRetried(c, ra, wa)
  BY <1>2 DEF ServerRetried
<1>3. CASE ServerWrites(c, ra, wa)
  BY <1>3 DEF ServerWrites
<1>4. CASE ServerReads(c, ra, wa)
  BY <1>4, ServerReadsReads
<1>5. CASE ServerDone(c, ra, wa)
  BY <1>5, ServerDoneReads
<1> QED BY <1>1, <1>2, <1>3, <1>4, <1>5 DEF ServerStage


-----------------------------------------------------------------------------
(* A step keeps the configuration, and with it what each position and stage is. *)

LEMMA KeptNames ==
    ASSUME opt' = opt
    PROVE  /\ Early' <=> Early
           /\ ClientCompat' <=> ClientCompat
           /\ ServerCompat' <=> ServerCompat
           /\ Accepted' <=> Accepted
           /\ Asks' <=> Asks
           /\ Ext' = Ext /\ Offered' = Offered /\ Fate' = Fate /\ OwnCert' = OwnCert
           /\ WroteEarly' = WroteEarly /\ ServerStarts' = ServerStarts
           /\ ReadEarly' = ReadEarly /\ ServerAnswers' = ServerAnswers
           /\ AfterHello' = AfterHello /\ Answering' = Answering
<1>1. /\ Early' <=> Early
      /\ ClientCompat' <=> ClientCompat
      /\ ServerCompat' <=> ServerCompat
      /\ Asks' <=> Asks
  BY DEF Early, ClientCompat, ServerCompat, Asks
<1>2. Accepted' <=> Accepted
  BY <1>1 DEF Accepted
<1>3. Ext' = Ext /\ Offered' = Offered /\ OwnCert' = OwnCert
  BY <1>1 DEF Ext, Offered, OwnCert
<1>4. Fate' = Fate
  BY <1>2, <1>3 DEF Fate
<1>5. WroteEarly' = WroteEarly /\ ServerStarts' = ServerStarts /\ ReadEarly' = ReadEarly
  BY <1>1 DEF WroteEarly, ServerStarts, ReadEarly
<1>6. ServerAnswers' = ServerAnswers
  BY <1>5 DEF ServerAnswers
<1>7. AfterHello' = AfterHello /\ Answering' = Answering
  BY <1>2 DEF AfterHello, Answering
<1> QED BY <1>1, <1>2, <1>3, <1>4, <1>5, <1>6, <1>7

LEMMA KeptTranscripts ==
    ASSUME opt' = opt
    PROVE  /\ HelloTr' = HelloTr /\ HsTr' = HsTr /\ EeTr' = EeTr /\ ReqTr' = ReqTr
           /\ ServerCertTr' = ServerCertTr /\ ServerVerifyTr' = ServerVerifyTr
           /\ ServerTr' = ServerTr /\ SfTr' = SfTr /\ AnswerTr' = AnswerTr
           /\ ClientCertTr' = ClientCertTr /\ ClientVerifyTr' = ClientVerifyTr
           /\ ClientTr' = ClientTr /\ PhaTr' = PhaTr /\ PhaReqTr' = PhaReqTr
           /\ PhaCertTr' = PhaCertTr /\ PhaAnswerTr' = PhaAnswerTr
<1>1. HelloTr' = HelloTr
  BY DEF HelloTr, RetryTr
<1>2. HsTr' = HsTr
  BY <1>1 DEF HsTr
<1>3. EeTr' = EeTr
  BY <1>2 DEF EeTr
<1>4. ReqTr' = ReqTr
  BY <1>3 DEF ReqTr
<1>5. ServerCertTr' = ServerCertTr
  BY <1>4 DEF ServerCertTr
<1>6. ServerVerifyTr' = ServerVerifyTr
  BY <1>5 DEF ServerVerifyTr
<1>7. ServerTr' = ServerTr
  BY <1>3, <1>6 DEF ServerTr
<1>8. SfTr' = SfTr
  BY <1>7 DEF SfTr
<1>9. AnswerTr' = AnswerTr
  BY <1>8, KeptNames DEF AnswerTr
<1>10. ClientCertTr' = ClientCertTr
  BY <1>9 DEF ClientCertTr
<1>11. ClientVerifyTr' = ClientVerifyTr
  BY <1>10 DEF ClientVerifyTr
<1>12. ClientTr' = ClientTr
  BY <1>9, <1>11, KeptNames DEF ClientTr
<1>13. PhaTr' = PhaTr
  BY <1>12 DEF PhaTr
<1>14. PhaReqTr' = PhaReqTr
  BY <1>13 DEF PhaReqTr
<1>15. PhaCertTr' = PhaCertTr
  BY <1>14 DEF PhaCertTr
<1>16. PhaAnswerTr' = PhaAnswerTr
  BY <1>15 DEF PhaAnswerTr
<1> QED BY <1>1, <1>2, <1>3, <1>4, <1>5, <1>6, <1>7, <1>8, <1>9, <1>10, <1>11, <1>12, <1>13,
           <1>14, <1>15, <1>16

LEMMA KeptKeys ==
    ASSUME opt' = opt
    PROVE  /\ KH' = KH /\ DeferredKey' = DeferredKey /\ WaitingKey' = WaitingKey
           /\ \A n : KA(n)' = KA(n)
           /\ \A k : IsAppKey(k)' <=> IsAppKey(k)
<1>1. HsTr' = HsTr /\ SfTr' = SfTr
  BY KeptTranscripts
<1>2. KH' = KH /\ \A n : KA(n)' = KA(n)
  BY <1>1 DEF KH, KA
<1>3. Early' <=> Early
  BY KeptNames
<1>3a. ClientCompat' <=> ClientCompat
  BY KeptNames
<1>3b. Accepted' <=> Accepted
  BY KeptNames
<1>4. DeferredKey' = DeferredKey
  BY <1>2, <1>3, <1>3a DEF DeferredKey, KE, FirstTr, NoKey
<1>5. WaitingKey' = WaitingKey
  BY <1>2, <1>3b DEF WaitingKey, KE, FirstTr
<1>6. \A k : IsAppKey(k)' <=> IsAppKey(k)
  BY <1>2 DEF IsAppKey
<1> QED BY <1>2, <1>4, <1>5, <1>6

LEMMA KeptArrivals ==
    ASSUME opt' = opt, NEW r, NEW a, NEW m, NEW b
    PROVE  Arrives(r, a, m, b)' <=> Arrives(r, a, m, b)
<1>1. ToServer(a, m, b)' <=> ToServer(a, m, b)
  BY KeptNames, KeptTranscripts, KeptKeys DEF ToServer
<1>2. ToClient(a, m, b)' <=> ToClient(a, m, b)
  BY KeptNames, KeptTranscripts, KeptKeys DEF ToClient
<1> QED BY <1>1, <1>2 DEF Arrives

LEMMA KeptPaths ==
    ASSUME opt' = opt, NEW r, NEW a, NEW q, NEW b
    PROVE  Path(r, a, q, b)' <=> Path(r, a, q, b)
  BY KeptArrivals DEF Path

LEMMA KeptClient ==
    ASSUME opt' = opt, NEW c, NEW ra, NEW wa, NEW n
    PROVE  ClientStage(c, ra, wa, n)' <=> ClientStage(c, ra, wa, n)
<1>1. ClientFirst(c, ra, wa, n)' <=> ClientFirst(c, ra, wa, n)
  BY KeptNames, KeptTranscripts, KeptKeys DEF ClientFirst, ClientHelloing
<1>2. ClientRetry(c, ra, wa, n)' <=> ClientRetry(c, ra, wa, n)
  BY KeptNames, KeptTranscripts, KeptKeys DEF ClientRetry, ClientHelloing
<1>3. ClientReads(c, ra, wa, n)' <=> ClientReads(c, ra, wa, n)
  BY KeptNames, KeptTranscripts, KeptKeys DEF ClientReads, Client13
<1>4. ClientAnswers(c, ra, wa, n)' <=> ClientAnswers(c, ra, wa, n)
  BY KeptNames, KeptTranscripts, KeptKeys DEF ClientAnswers, Client13
<1>5. ClientDone(c, ra, wa)' <=> ClientDone(c, ra, wa)
  BY KeptNames, KeptTranscripts, KeptKeys DEF ClientDone
<1> QED BY <1>1, <1>2, <1>3, <1>4, <1>5 DEF ClientStage

LEMMA KeptServer ==
    ASSUME opt' = opt, NEW s, NEW ra, NEW wa
    PROVE  ServerStage(s, ra, wa)' <=> ServerStage(s, ra, wa)
<1>1. ServerFirst(s, ra, wa)' <=> ServerFirst(s, ra, wa)
  BY KeptNames, KeptTranscripts, KeptKeys DEF ServerFirst
<1>2. ServerRetried(s, ra, wa)' <=> ServerRetried(s, ra, wa)
  BY KeptNames, KeptTranscripts, KeptKeys DEF ServerRetried
<1>3. ServerWrites(s, ra, wa)' <=> ServerWrites(s, ra, wa)
  BY KeptNames, KeptTranscripts, KeptKeys DEF ServerWrites, Server13
<1>4. ServerReads(s, ra, wa)' <=> ServerReads(s, ra, wa)
  BY KeptNames, KeptTranscripts, KeptKeys DEF ServerReads, Server13
<1>5. ServerDone(s, ra, wa)' <=> ServerDone(s, ra, wa)
  BY KeptNames, KeptTranscripts, KeptKeys DEF ServerDone
<1> QED BY <1>1, <1>2, <1>3, <1>4, <1>5 DEF ServerStage

LEMMA KeptTogether ==
    ASSUME opt' = opt, NEW c, NEW s, NEW qc, NEW qs, NEW nc, NEW ns, NEW gc, NEW gs,
           Together(c, s, qc, qs, nc, ns, gc, gs)
    PROVE  Together(c, s, qc, qs, nc, ns, gc, gs)'
<1>1. \A x, d : GivenData(x, d)' = GivenData(x, d)
  BY KeptNames DEF GivenData
<1> QED BY <1>1, KeptClient, KeptServer, KeptPaths DEF Together

-----------------------------------------------------------------------------
(* The steps. *)

LEMMA TwoIs ==
    ASSUME NEW x, NEW y, NEW z
    PROVE  /\ Two(x, y)["client"] = x /\ Two(x, y)["server"] = y
           /\ Two(x, y) = [r \in Role |-> Two(x, y)[r]]
           /\ [Two(x, y) EXCEPT !["client"] = z] = Two(z, y)
           /\ [Two(x, y) EXCEPT !["server"] = z] = Two(x, z)
  BY DEF Two, Role

LEMMA SoundLater ==
    ASSUME NEW c, NEW r, Sound(c, r), opt \in OptionRecord, opt' = opt,
           calls \in Nat, calls' \in Nat, calls <= calls'
    PROVE  Sound(c, r)'
<1>1. opt.tickets \in Nat
  BY DEF OptionRecord
<1>2. c.extraTickets \in Nat /\ c.sentTickets \in Nat /\ c.extraTickets <= calls
      /\ c.sentTickets + c.extraTickets <= opt.tickets + calls
  BY DEF Sound
<1>3. c.extraTickets <= calls' /\ c.sentTickets + c.extraTickets <= opt.tickets + calls'
  BY <1>1, <1>2
<1> QED BY <1>2, <1>3 DEF Sound, Fields

\* A step that leads to the client c, the server s and what belongs to them.
Leads(c, s, qc, qs, nc, ns, gc, gs) ==
    /\ conn' = Two(c, s) /\ inbox' = Two(qc, qs) /\ sent' = Two(nc, ns) /\ read' = Two(gc, gs)
    /\ nc \in Nat /\ ns \in Nat /\ gc \in Nat /\ gs \in Nat
    /\ ReadsOn(c, qc) /\ ReadsOn(s, qs)
    /\ Together(c, s, qc, qs, nc, ns, gc, gs)

LEMMA LeadsCall ==
    ASSUME opt \in OptionRecord, opt.ver = 13, opt' = opt,
           calls' \in Nat, calls' <= opt.calls,
           NEW c, NEW s, NEW qc, NEW qs, NEW nc, NEW ns, NEW gc, NEW gs,
           Leads(c, s, qc, qs, nc, ns, gc, gs), Sound(c, "client")', Sound(s, "server")'
    PROVE  Inv'
<1>1. Together(c, s, qc, qs, nc, ns, gc, gs)'
  BY KeptTogether DEF Leads
<1>2. ReadsOn(c, qc)' /\ ReadsOn(s, qs)'
  BY DEF Leads, ReadsOn, Reason, MessageWaits
<1>3. Named(c, s, qc, qs, nc, ns, gc, gs)'
  BY <1>1, <1>2 DEF Leads, Named, OptionRecord, Two
<1> QED BY <1>3 DEF Inv

LEMMA LeadsStep ==
    ASSUME opt \in OptionRecord, opt.ver = 13, opt' = opt,
           calls \in Nat, calls <= opt.calls, calls' = calls,
           NEW c, NEW s, NEW qc, NEW qs, NEW nc, NEW ns, NEW gc, NEW gs,
           Leads(c, s, qc, qs, nc, ns, gc, gs), Sound(c, "client"), Sound(s, "server")
    PROVE  Inv'
<1>1. Sound(c, "client")' /\ Sound(s, "server")'
  BY SoundLater
<1> QED BY <1>1, LeadsCall

\* What a step begins with, the positions named.
Stands(c, s, qc, qs, nc, ns, gc, gs, rc, wc, rs, ws, kc, ks, d) ==
    /\ opt \in OptionRecord /\ opt.ver = 13
    /\ calls \in Nat /\ calls <= opt.calls
    /\ conn = Two(c, s) /\ inbox = Two(qc, qs) /\ sent = Two(nc, ns) /\ read = Two(gc, gs)
    /\ nc \in Nat /\ ns \in Nat /\ gc \in Nat /\ gs \in Nat
    /\ Sound(c, "client") /\ Sound(s, "server") /\ ReadsOn(c, qc) /\ ReadsOn(s, qs)
    /\ kc \in Nat /\ ks \in Nat /\ d \in Nat
    /\ ClientStage(c, rc, wc, nc) /\ ServerStage(s, rs, ws) /\ gs = GivenData(rs, d)
    /\ Path("server", At(rs, s.rk[3], d, ks - Asked(s)), qs,
                      At(wc, c.wk[3], nc, kc - Answered(c)))
    /\ Path("client", At(rc, c.rk[3], gc, kc), qc, At(ws, s.wk[3], ns, ks))

LEMMA InvStands ==
    ASSUME Inv
    PROVE  \E c, s, qc, qs, nc, ns, gc, gs, rc, wc, rs, ws, kc, ks, d :
              Stands(c, s, qc, qs, nc, ns, gc, gs, rc, wc, rs, ws, kc, ks, d)
<1>1. PICK c, s, qc, qs, nc, ns, gc, gs : Named(c, s, qc, qs, nc, ns, gc, gs)
  BY DEF Inv
<1>2. PICK rc, wc, rs, ws : \E kc, ks, d \in Nat :
       /\ ClientStage(c, rc, wc, nc) /\ ServerStage(s, rs, ws) /\ gs = GivenData(rs, d)
       /\ Path("server", At(rs, s.rk[3], d, ks - Asked(s)), qs,
                         At(wc, c.wk[3], nc, kc - Answered(c)))
       /\ Path("client", At(rc, c.rk[3], gc, kc), qc, At(ws, s.wk[3], ns, ks))
  BY <1>1, Zenon DEF Named, Together
<1>3. PICK kc \in Nat, ks \in Nat, d \in Nat :
       /\ ClientStage(c, rc, wc, nc) /\ ServerStage(s, rs, ws) /\ gs = GivenData(rs, d)
       /\ Path("server", At(rs, s.rk[3], d, ks - Asked(s)), qs,
                         At(wc, c.wk[3], nc, kc - Answered(c)))
       /\ Path("client", At(rc, c.rk[3], gc, kc), qc, At(ws, s.wk[3], ns, ks))
  BY <1>2
<1>4. Stands(c, s, qc, qs, nc, ns, gc, gs, rc, wc, rs, ws, kc, ks, d)
  BY <1>1, <1>3 DEF Named, Stands
<1> QED BY <1>4, Zenon

\* What waits for a side is not changed by what comes after it.
LEMMA ReadsOnAppend ==
    ASSUME NEW r, NEW a, NEW q, NEW b, Path(r, a, q, b), NEW c, ReadsOn(c, q), NEW m
    PROVE  ReadsOn(c, Append(q, m))
<1>1. PICK R : q \in Seq(R)
  BY DEF Path
<1>2. q # <<>> => Append(q, m) # <<>> /\ Head(Append(q, m)) = Head(q)
  BY <1>1
<1>3. MessageWaits(q) => MessageWaits(Append(q, m))
  BY <1>2 DEF MessageWaits
<1> QED BY <1>3 DEF ReadsOn, Reason

LEMMA ReadsOnTold ==
    ASSUME NEW r, NEW x, NEW q, NEW a, Path(r, x, q, a), NEW c, ReadsOn(c, q), NEW b, NEW q2,
           Told(r, a, q, q2, b)
    PROVE  ReadsOn(c, q2)
  BY ReadsOnAppend DEF Told

\* A record that is dropped is none a side waits for.
LEMMA ReadsOnDrop ==
    ASSUME NEW c, NEW q, ReadsOn(c, q), q # <<>>, Head(q).mt \in {"CCS", "DATA"}, NEW p
    PROVE  ReadsOn(c, p)
  BY DEF ReadsOn, Reason, MessageWaits

\* The way from the parts of a state to the whole.
LEMMA Joined ==
    ASSUME NEW c, NEW s, NEW qc, NEW qs, NEW nc, NEW ns, NEW gc, NEW gs, NEW rc, NEW wc, NEW rs,
           NEW ws, NEW kc \in Nat, NEW ks \in Nat, NEW d \in Nat,
           ClientStage(c, rc, wc, nc), ServerStage(s, rs, ws), gs = GivenData(rs, d),
           Path("server", At(rs, s.rk[3], d, ks - Asked(s)), qs,
                          At(wc, c.wk[3], nc, kc - Answered(c))),
           Path("client", At(rc, c.rk[3], gc, kc), qc, At(ws, s.wk[3], ns, ks))
    PROVE  Together(c, s, qc, qs, nc, ns, gc, gs)
  BY Zenon DEF Together

LEMMA WriteByClient ==
    ASSUME NEW c, NEW s, NEW qc, NEW qs, NEW nc, NEW ns, NEW gc, NEW gs,
           NEW rc, NEW wc, NEW rs, NEW ws, NEW kc, NEW ks, NEW d,
           Stands(c, s, qc, qs, nc, ns, gc, gs, rc, wc, rs, ws, kc, ks, d),
           Write("client")
    PROVE  Inv'
<1>1. /\ conn = Two(c, s) /\ inbox = Two(qc, qs) /\ sent = Two(nc, ns) /\ read = Two(gc, gs)
      /\ opt \in OptionRecord /\ opt.ver = 13 /\ calls \in Nat /\ calls <= opt.calls
      /\ nc \in Nat /\ ns \in Nat /\ gc \in Nat /\ gs \in Nat
      /\ kc \in Nat /\ ks \in Nat /\ d \in Nat /\ gs = GivenData(rs, d)
      /\ Sound(c, "client") /\ Sound(s, "server") /\ ReadsOn(c, qc) /\ ReadsOn(s, qs)
  BY DEF Stands
<1>2. ClientStage(c, rc, wc, nc) /\ ServerStage(s, rs, ws)
  BY DEF Stands
<1>3. Path("server", At(rs, s.rk[3], d, ks - Asked(s)), qs, At(wc, c.wk[3], nc, kc - Answered(c)))
  BY DEF Stands
<1>4. Path("client", At(rc, c.rk[3], gc, kc), qc, At(ws, s.wk[3], ns, ks))
  BY DEF Stands
<1>5. conn["client"] = c /\ conn["server"] = s /\ inbox["client"] = qc /\ inbox["server"] = qs
  BY <1>1, TwoIs
<1>6. c.flow = "WRITING" /\ opt' = opt /\ calls' = calls /\ sent' = sent /\ read' = read
  BY <1>5 DEF Write
<1>7. conn = [x \in Role |-> conn[x]] /\ inbox = [x \in Role |-> inbox[x]]
  BY <1>1, TwoIs
<1>8. "client" \in Role /\ "server" \in Role /\ Peer("client") = "server"
  BY DEF Role, Peer
<1>9. PICK ck, e, q2 :
              /\ conn' = [conn EXCEPT !["client"] = e]
              /\ inbox' = [inbox EXCEPT ![Peer("client")] = q2]
              /\ Writes(conn["client"], "client", ck, e, inbox[Peer("client")], q2)
  BY <1>7, <1>8, WriteTakenApart, Zenon
<1>10. Writes(c, "client", ck, e, qs, q2)
  BY <1>5, <1>8, <1>9
<1>11. conn' = Two(e, s) /\ inbox' = Two(qc, q2)
  BY <1>1, <1>8, <1>9, TwoIs
<1>12. ClientWrote(c, e, rc, wc, nc, kc, qs, q2, qc)
  BY <1>1, <1>2, <1>6, <1>10, ClientWrites
<1>13. Sound(e, "client") /\ ReadsOn(e, qc) /\ e.rk[3] = c.rk[3]
  BY <1>12 DEF ClientWrote
<1>14. PICK wc2 : /\ ClientStage(e, rc, wc2, nc)
                  /\ Told("server", At(wc, c.wk[3], nc, kc - Answered(c)), qs, q2,
                          At(wc2, e.wk[3], nc, kc - Answered(e)))
  BY <1>12, Zenon DEF ClientWrote
<1>15. Path("server", At(rs, s.rk[3], d, ks - Asked(s)), q2, At(wc2, e.wk[3], nc, kc - Answered(e)))
  BY <1>3, <1>8, <1>14, PathTold
<1>16. Path("client", At(rc, e.rk[3], gc, kc), qc, At(ws, s.wk[3], ns, ks))
  BY <1>4, <1>13
<1>17. Together(e, s, qc, q2, nc, ns, gc, gs)
  BY <1>1, <1>2, <1>14, <1>15, <1>16, Joined
<1>18. ReadsOn(s, q2)
  BY <1>1, <1>3, <1>14, ReadsOnTold
<1>19. Leads(e, s, qc, q2, nc, ns, gc, gs)
  BY <1>1, <1>6, <1>11, <1>13, <1>17, <1>18 DEF Leads
<1> QED BY <1>1, <1>6, <1>13, <1>19, LeadsStep

LEMMA WriteByServer ==
    ASSUME NEW c, NEW s, NEW qc, NEW qs, NEW nc, NEW ns, NEW gc, NEW gs,
           NEW rc, NEW wc, NEW rs, NEW ws, NEW kc, NEW ks, NEW d,
           Stands(c, s, qc, qs, nc, ns, gc, gs, rc, wc, rs, ws, kc, ks, d),
           Write("server")
    PROVE  Inv'
<1>1. /\ conn = Two(c, s) /\ inbox = Two(qc, qs) /\ sent = Two(nc, ns) /\ read = Two(gc, gs)
      /\ opt \in OptionRecord /\ opt.ver = 13 /\ calls \in Nat /\ calls <= opt.calls
      /\ nc \in Nat /\ ns \in Nat /\ gc \in Nat /\ gs \in Nat
      /\ kc \in Nat /\ ks \in Nat /\ d \in Nat /\ gs = GivenData(rs, d)
      /\ Sound(c, "client") /\ Sound(s, "server") /\ ReadsOn(c, qc) /\ ReadsOn(s, qs)
  BY DEF Stands
<1>2. ClientStage(c, rc, wc, nc) /\ ServerStage(s, rs, ws)
  BY DEF Stands
<1>3. Path("server", At(rs, s.rk[3], d, ks - Asked(s)), qs, At(wc, c.wk[3], nc, kc - Answered(c)))
  BY DEF Stands
<1>4. Path("client", At(rc, c.rk[3], gc, kc), qc, At(ws, s.wk[3], ns, ks))
  BY DEF Stands
<1>5. conn["client"] = c /\ conn["server"] = s /\ inbox["client"] = qc /\ inbox["server"] = qs
  BY <1>1, TwoIs
<1>6. s.flow = "WRITING" /\ opt' = opt /\ calls' = calls /\ sent' = sent /\ read' = read
  BY <1>5 DEF Write
<1>7. conn = [x \in Role |-> conn[x]] /\ inbox = [x \in Role |-> inbox[x]]
  BY <1>1, TwoIs
<1>8. "client" \in Role /\ "server" \in Role /\ Peer("server") = "client"
  BY DEF Role, Peer
<1>9. PICK ck, e, q2 :
              /\ conn' = [conn EXCEPT !["server"] = e]
              /\ inbox' = [inbox EXCEPT ![Peer("server")] = q2]
              /\ Writes(conn["server"], "server", ck, e, inbox[Peer("server")], q2)
  BY <1>7, <1>8, WriteTakenApart, Zenon
<1>10. Writes(s, "server", ck, e, qc, q2)
  BY <1>5, <1>8, <1>9
<1>11. conn' = Two(c, e) /\ inbox' = Two(q2, qs)
  BY <1>1, <1>8, <1>9, TwoIs
<1>12. ServerWrote(s, e, rs, ws, ns, ks, qc, q2, qs)
  BY <1>1, <1>2, <1>6, <1>10, ServerWritesAny
<1>13. Sound(e, "server") /\ ReadsOn(e, qs) /\ e.rk[3] = s.rk[3]
  BY <1>12 DEF ServerWrote
<1>14. PICK ws2, ks2 :
         /\ ks2 \in Nat /\ ServerStage(e, rs, ws2) /\ ks2 - Asked(e) = ks - Asked(s)
         /\ Told("client", At(ws, s.wk[3], ns, ks), qc, q2, At(ws2, e.wk[3], ns, ks2))
  BY <1>12, Zenon DEF ServerWrote
<1>15. Path("client", At(rc, c.rk[3], gc, kc), q2, At(ws2, e.wk[3], ns, ks2))
  BY <1>4, <1>8, <1>14, PathTold
<1>16. Path("server", At(rs, e.rk[3], d, ks2 - Asked(e)), qs, At(wc, c.wk[3], nc, kc - Answered(c)))
  BY <1>3, <1>13, <1>14
<1>17. Together(c, e, q2, qs, nc, ns, gc, gs)
  BY <1>1, <1>2, <1>14, <1>15, <1>16, Joined
<1>18. ReadsOn(c, q2)
  BY <1>1, <1>4, <1>14, ReadsOnTold
<1>19. Leads(c, e, q2, qs, nc, ns, gc, gs)
  BY <1>1, <1>6, <1>11, <1>13, <1>17, <1>18 DEF Leads
<1> QED BY <1>1, <1>6, <1>13, <1>19, LeadsStep

LEMMA ReadByClient ==
    ASSUME NEW c, NEW s, NEW qc, NEW qs, NEW nc, NEW ns, NEW gc, NEW gs,
           NEW rc, NEW wc, NEW rs, NEW ws, NEW kc, NEW ks, NEW d,
           Stands(c, s, qc, qs, nc, ns, gc, gs, rc, wc, rs, ws, kc, ks, d),
           Read("client")
    PROVE  Inv'
<1>1. /\ conn = Two(c, s) /\ inbox = Two(qc, qs) /\ sent = Two(nc, ns) /\ read = Two(gc, gs)
      /\ opt \in OptionRecord /\ opt.ver = 13 /\ calls \in Nat /\ calls <= opt.calls
      /\ nc \in Nat /\ ns \in Nat /\ gc \in Nat /\ gs \in Nat
      /\ kc \in Nat /\ ks \in Nat /\ d \in Nat /\ gs = GivenData(rs, d)
      /\ Sound(c, "client") /\ Sound(s, "server") /\ ReadsOn(c, qc) /\ ReadsOn(s, qs)
  BY DEF Stands
<1>2. ClientStage(c, rc, wc, nc) /\ ServerStage(s, rs, ws)
  BY DEF Stands
<1>3. Path("server", At(rs, s.rk[3], d, ks - Asked(s)), qs, At(wc, c.wk[3], nc, kc - Answered(c)))
  BY DEF Stands
<1>4. Path("client", At(rc, c.rk[3], gc, kc), qc, At(ws, s.wk[3], ns, ks))
  BY DEF Stands
<1>5. conn["client"] = c /\ conn["server"] = s /\ inbox["client"] = qc /\ inbox["server"] = qs
  BY <1>1, TwoIs
<1>6. c.flow = "READING" /\ qc # <<>> /\ opt' = opt /\ calls' = calls /\ sent' = sent
  BY <1>5 DEF Read
<1>7. conn = [x \in Role |-> conn[x]] /\ inbox = [x \in Role |-> inbox[x]]
  BY <1>1, TwoIs
<1>8. "client" \in Role /\ "server" \in Role
  BY DEF Role
<1>9. PICK m : m = Head(qc)
  OBVIOUS
<1>10. PICK a, w : a = At(rc, c.rk[3], gc, kc) /\ w = At(ws, s.wk[3], ns, ks)
  OBVIOUS
<1>11. PICK b : Arrives("client", a, m, b) /\ Path("client", b, Tail(qc), w)
  BY <1>4, <1>6, <1>8, <1>9, <1>10, PathPop
<1>12. ToClient(a, m, b)
  BY <1>11 DEF Arrives
<1>13. ClientReadsOne(c, m, a, b, wc, nc)
  BY <1>1, <1>2, <1>6, <1>9, <1>10, <1>12, ClientReadsRecord
<1>14. b = At(b.at, b.ku, b.d, b.k) /\ b.k \in Nat
  BY <1>11, PathEnds, PosFields
<1>15. a.d = gc /\ a.k = kc
  BY <1>10 DEF At
<1>16. CASE Dropped(c, "client", m) /\ b = a
  <2>1. conn' = conn /\ inbox' = [inbox EXCEPT !["client"] = Tail(inbox["client"])] /\ read' = read
    BY <1>5, <1>7, <1>8, <1>9, <1>16, ReadTakenApart
  <2>2. inbox' = Two(Tail(qc), qs)
    <3>1. PICK p : p = Tail(qc)
      OBVIOUS
    <3>2. inbox' = [Two(qc, qs) EXCEPT !["client"] = p]
      BY <1>1, <1>5, <2>1, <3>1
    <3>3. inbox' = Two(p, qs)
      BY <3>2 DEF Two, Role
    <3> QED BY <3>1, <3>3
  <2>3. Path("client", At(rc, c.rk[3], gc, kc), Tail(qc), At(ws, s.wk[3], ns, ks))
    BY <1>10, <1>11, <1>16
  <2>4. Together(c, s, Tail(qc), qs, nc, ns, gc, gs)
    BY <1>1, <1>2, <1>3, <2>3, Joined
  <2>5. m.mt \in {"CCS", "DATA"}
    BY <1>12, <1>16 DEF ToClient, Dropped, IgnoresCcs
  <2>6. ReadsOn(c, Tail(qc))
    BY <1>1, <1>6, <1>9, <2>5, ReadsOnDrop
  <2>7. Leads(c, s, Tail(qc), qs, nc, ns, gc, gs)
    BY <1>1, <1>6, <2>1, <2>2, <2>4, <2>6 DEF Leads
  <2> QED BY <1>1, <1>6, <2>7, LeadsStep
<1>17. CASE /\ ~Dropped(c, "client", m) /\ m.key = c.rk /\ m.mt \notin {"ALERT", "DATA"}
            /\ Expects(c, "client", m)
            /\ \A hit : ClientTook(c, Taken(c, "client", m, hit), a, b, wc, nc)
  <2>1. PICK hit : /\ conn' = [conn EXCEPT !["client"] = HandshakeMessage(c, "client", m, hit)]
                   /\ inbox' = [inbox EXCEPT !["client"] = Tail(inbox["client"])] /\ read' = read
    BY <1>5, <1>7, <1>8, <1>9, <1>17, ReadTakenApart
  <2>2. PICK e : e = Taken(c, "client", m, hit)
    OBVIOUS
  <2>3. e = HandshakeMessage(c, "client", m, hit)
    BY <1>17, <2>2, HandshakeMessageIs
  <2>4. ClientTook(c, e, a, b, wc, nc)
    BY <1>17, <2>2
  <2>5. conn' = Two(e, s) /\ inbox' = Two(Tail(qc), qs)
    <3>1. PICK p : p = Tail(qc)
      OBVIOUS
    <3>2. conn' = [Two(c, s) EXCEPT !["client"] = e] /\ inbox' = [Two(qc, qs) EXCEPT !["client"] = p]
      BY <1>1, <1>5, <2>1, <2>3, <3>1
    <3>3. conn' = Two(e, s) /\ inbox' = Two(p, qs)
      BY <3>2 DEF Two, Role
    <3> QED BY <3>1, <3>3
  <2>6. Sound(e, "client") /\ ReadsOn(e, Tail(qc))
    BY <2>4 DEF ClientTook, ReadsOn
  <2>7. b = At(b.at, e.rk[3], gc, b.k)
    BY <1>14, <1>15, <2>4 DEF ClientTook
  <2>8. Path("client", At(b.at, e.rk[3], gc, b.k), Tail(qc), At(ws, s.wk[3], ns, ks))
    BY <1>10, <1>11, <2>7
  <2>9. e.wk[3] = c.wk[3] /\ b.k - Answered(e) = kc - Answered(c) /\ ClientStage(e, b.at, wc, nc)
    BY <1>15, <2>4 DEF ClientTook
  <2>10. Path("server", At(rs, s.rk[3], d, ks - Asked(s)), qs, At(wc, e.wk[3], nc, b.k - Answered(e)))
    BY <1>3, <2>9
  <2>11. Together(e, s, Tail(qc), qs, nc, ns, gc, gs)
    BY <1>1, <1>2, <1>14, <2>8, <2>9, <2>10, Joined
  <2>12. Leads(e, s, Tail(qc), qs, nc, ns, gc, gs)
    BY <1>1, <1>6, <2>1, <2>5, <2>6, <2>11 DEF Leads
  <2> QED BY <1>1, <1>6, <2>6, <2>12, LeadsStep
<1> QED BY <1>13, <1>16, <1>17 DEF ClientReadsOne

LEMMA ReadByServer ==
    ASSUME NEW c, NEW s, NEW qc, NEW qs, NEW nc, NEW ns, NEW gc, NEW gs,
           NEW rc, NEW wc, NEW rs, NEW ws, NEW kc, NEW ks, NEW d,
           Stands(c, s, qc, qs, nc, ns, gc, gs, rc, wc, rs, ws, kc, ks, d),
           Read("server")
    PROVE  Inv'
<1>1. /\ conn = Two(c, s) /\ inbox = Two(qc, qs) /\ sent = Two(nc, ns) /\ read = Two(gc, gs)
      /\ opt \in OptionRecord /\ opt.ver = 13 /\ calls \in Nat /\ calls <= opt.calls
      /\ nc \in Nat /\ ns \in Nat /\ gc \in Nat /\ gs \in Nat
      /\ kc \in Nat /\ ks \in Nat /\ d \in Nat /\ gs = GivenData(rs, d)
      /\ Sound(c, "client") /\ Sound(s, "server") /\ ReadsOn(c, qc) /\ ReadsOn(s, qs)
  BY DEF Stands
<1>2. ClientStage(c, rc, wc, nc) /\ ServerStage(s, rs, ws)
  BY DEF Stands
<1>3. Path("server", At(rs, s.rk[3], d, ks - Asked(s)), qs, At(wc, c.wk[3], nc, kc - Answered(c)))
  BY DEF Stands
<1>4. Path("client", At(rc, c.rk[3], gc, kc), qc, At(ws, s.wk[3], ns, ks))
  BY DEF Stands
<1>5. conn["client"] = c /\ conn["server"] = s /\ inbox["client"] = qc /\ inbox["server"] = qs
  BY <1>1, TwoIs
<1>6. s.flow = "READING" /\ qs # <<>> /\ opt' = opt /\ calls' = calls /\ sent' = sent
  BY <1>5 DEF Read
<1>7. conn = [x \in Role |-> conn[x]] /\ inbox = [x \in Role |-> inbox[x]]
  BY <1>1, TwoIs
<1>8. "client" \in Role /\ "server" \in Role
  BY DEF Role
<1>9. PICK m : m = Head(qs)
  OBVIOUS
<1>10. PICK k, v : k = ks - Asked(s) /\ v = kc - Answered(c)
  OBVIOUS
<1>10a. PICK a, w : a = At(rs, s.rk[3], d, k) /\ w = At(wc, c.wk[3], nc, v)
  OBVIOUS
<1>11. PICK b : Arrives("server", a, m, b) /\ Path("server", b, Tail(qs), w)
  BY <1>3, <1>6, <1>8, <1>9, <1>10, <1>10a, PathPop
<1>12. ToServer(a, m, b)
  BY <1>11 DEF Arrives
<1>13. a \in Pos /\ a.at = rs /\ a.ku = s.rk[3] /\ a.d = d /\ a.k = k /\ k \in Nat
  <2>1. a \in Pos
    BY <1>3, <1>10, <1>10a, PathEnds
  <2>2. a.at = rs /\ a.ku = s.rk[3] /\ a.d = d /\ a.k = k
    BY <1>10a DEF At
  <2> QED BY <2>1, <2>2 DEF Pos
<1>14. /\ b \in Pos /\ b = At(b.at, b.ku, b.d, b.k) /\ b.k \in Nat /\ b.d \in Nat
       /\ b.k <= v
  <2>1. b \in Pos /\ w \in Pos /\ b.k <= w.k
    BY <1>11, PathEnds
  <2>2. w.k = v
    BY <1>10a DEF At
  <2> QED BY <2>1, <2>2, PosFields
<1>15. Asked(s) \in {0, 1} /\ Answered(c) \in {0, 1}
  BY DEF Asked, Answered
<1>16. kc <= ks
  <2>1. PICK x, y : x = At(rc, c.rk[3], gc, kc) /\ y = At(ws, s.wk[3], ns, ks)
    OBVIOUS
  <2>2. x.k <= y.k
    BY <1>4, <2>1, PathEnds
  <2> QED BY <2>1, <2>2 DEF At
<1>17. rs = "ok" /\ m.mt = "CERT" => Asked(s) = 1
  <2>1. SUFFICES ASSUME rs = "ok", m.mt = "CERT" PROVE Asked(s) = 1
    OBVIOUS
  <2>2. b.k = k + 1
    BY <1>12, <1>13, <2>1 DEF ToServer, Pos, Answering
  <2> QED BY <1>1, <1>10, <1>14, <1>15, <1>16, <2>2
<1>18. ServerReadsOne(s, m, a, b, ws)
  BY <1>1, <1>2, <1>6, <1>9, <1>10a, <1>12, <1>13, <1>17, ServerReadsRecord
<1>19. CASE /\ Dropped(s, "server", m) /\ b.at = a.at /\ b.ku = a.ku /\ b.k = a.k
            /\ GivenData(b.at, b.d) = GivenData(a.at, a.d)
  <2>1. conn' = conn /\ inbox' = [inbox EXCEPT !["server"] = Tail(inbox["server"])] /\ read' = read
    BY <1>5, <1>7, <1>8, <1>9, <1>19, ReadTakenApart
  <2>2. inbox' = Two(qc, Tail(qs))
    <3>1. PICK p : p = Tail(qs)
      OBVIOUS
    <3>2. inbox' = [Two(qc, qs) EXCEPT !["server"] = p]
      BY <1>1, <1>5, <2>1, <3>1
    <3>3. inbox' = Two(qc, p)
      BY <3>2 DEF Two, Role
    <3> QED BY <3>1, <3>3
  <2>3. b = At(rs, s.rk[3], b.d, ks - Asked(s)) /\ gs = GivenData(rs, b.d)
    BY <1>1, <1>10, <1>13, <1>14, <1>19
  <2>4. Path("server", At(rs, s.rk[3], b.d, ks - Asked(s)), Tail(qs), At(wc, c.wk[3], nc, kc - Answered(c)))
    BY <1>10, <1>10a, <1>11, <2>3
  <2>5. Together(c, s, qc, Tail(qs), nc, ns, gc, gs)
    BY <1>1, <1>2, <1>4, <1>14, <2>3, <2>4, Joined
  <2>6. m.mt \in {"CCS", "DATA"}
    BY <1>19 DEF Dropped, IgnoresCcs
  <2>7. ReadsOn(s, Tail(qs))
    BY <1>1, <1>6, <1>9, <2>6, ReadsOnDrop
  <2>8. Leads(c, s, qc, Tail(qs), nc, ns, gc, gs)
    BY <1>1, <1>6, <2>1, <2>2, <2>5, <2>7 DEF Leads
  <2> QED BY <1>1, <1>6, <2>8, LeadsStep
<1>20. CASE /\ ~Dropped(s, "server", m) /\ m.key = s.rk /\ m.mt \notin {"ALERT", "DATA"}
            /\ ~(m.mt = "CH" /\ RefusesRenegotiation(s))
            /\ Expects(s, "server", m)
            /\ \A hit : ServerTook(s, Taken(s, "server", m, hit), a, b, ws)
  <2>1. PICK hit : /\ conn' = [conn EXCEPT !["server"] = HandshakeMessage(s, "server", m, hit)]
                   /\ inbox' = [inbox EXCEPT !["server"] = Tail(inbox["server"])] /\ read' = read
    BY <1>5, <1>7, <1>8, <1>9, <1>20, ReadTakenApart
  <2>2. PICK e : e = Taken(s, "server", m, hit)
    OBVIOUS
  <2>3. e = HandshakeMessage(s, "server", m, hit)
    BY <1>20, <2>2, HandshakeMessageIs
  <2>4. ServerTook(s, e, a, b, ws)
    BY <1>20, <2>2
  <2>5. conn' = Two(c, e) /\ inbox' = Two(qc, Tail(qs))
    <3>1. PICK p : p = Tail(qs)
      OBVIOUS
    <3>2. conn' = [Two(c, s) EXCEPT !["server"] = e] /\ inbox' = [Two(qc, qs) EXCEPT !["server"] = p]
      BY <1>1, <1>5, <2>1, <2>3, <3>1
    <3>3. conn' = Two(c, e) /\ inbox' = Two(qc, p)
      BY <3>2 DEF Two, Role
    <3> QED BY <3>1, <3>3
  <2>6. Sound(e, "server") /\ ReadsOn(e, Tail(qs))
    BY <2>4 DEF ServerTook, ReadsOn
  <2>7. /\ b.ku = e.rk[3] /\ b.k + Asked(e) = k + Asked(s) /\ e.wk[3] = s.wk[3]
        /\ gs = GivenData(b.at, b.d) /\ ServerStage(e, b.at, ws)
    BY <1>1, <1>13, <2>4 DEF ServerTook
  <2>8. b.k = ks - Asked(e)
    <3>1. Asked(e) \in {0, 1}
      BY DEF Asked
    <3> QED BY <1>1, <1>10, <1>14, <1>15, <2>7, <3>1
  <2>9. b = At(b.at, e.rk[3], b.d, ks - Asked(e))
    BY <1>14, <2>7, <2>8
  <2>10. Path("server", At(b.at, e.rk[3], b.d, ks - Asked(e)), Tail(qs), At(wc, c.wk[3], nc, kc - Answered(c)))
    BY <1>10, <1>10a, <1>11, <2>9
  <2>11. Path("client", At(rc, c.rk[3], gc, kc), qc, At(ws, e.wk[3], ns, ks))
    BY <1>4, <2>7
  <2>12. Together(c, e, qc, Tail(qs), nc, ns, gc, gs)
    BY <1>1, <1>2, <1>14, <2>7, <2>10, <2>11, Joined
  <2>13. Leads(c, e, qc, Tail(qs), nc, ns, gc, gs)
    BY <1>1, <1>6, <2>1, <2>5, <2>6, <2>12 DEF Leads
  <2> QED BY <1>1, <1>6, <2>6, <2>13, LeadsStep
<1> QED BY <1>18, <1>19, <1>20 DEF ServerReadsOne


\* Steps of one side that send and read nothing.
LEMMA ClientTurns ==
    ASSUME NEW c, NEW s, NEW qc, NEW qs, NEW nc, NEW ns, NEW gc, NEW gs,
           NEW rc, NEW wc, NEW rs, NEW ws, NEW kc, NEW ks, NEW d,
           Stands(c, s, qc, qs, nc, ns, gc, gs, rc, wc, rs, ws, kc, ks, d),
           NEW e, conn' = Two(e, s), inbox' = inbox, sent' = sent, read' = read, opt' = opt,
           calls' \in Nat, calls <= calls', calls' <= opt.calls, Sound(e, "client")',
           ReadsOn(e, qc), ClientStage(e, rc, wc, nc), e.rk[3] = c.rk[3], e.wk[3] = c.wk[3],
           Answered(e) = Answered(c)
    PROVE  Inv'
<1>1. /\ conn = Two(c, s) /\ inbox = Two(qc, qs) /\ sent = Two(nc, ns) /\ read = Two(gc, gs)
      /\ opt \in OptionRecord /\ opt.ver = 13 /\ calls \in Nat /\ calls <= opt.calls
      /\ nc \in Nat /\ ns \in Nat /\ gc \in Nat /\ gs \in Nat
      /\ kc \in Nat /\ ks \in Nat /\ d \in Nat /\ gs = GivenData(rs, d)
      /\ Sound(c, "client") /\ Sound(s, "server") /\ ReadsOn(c, qc) /\ ReadsOn(s, qs)
  BY DEF Stands
<1>2. ClientStage(c, rc, wc, nc) /\ ServerStage(s, rs, ws)
  BY DEF Stands
<1>3. Path("server", At(rs, s.rk[3], d, ks - Asked(s)), qs, At(wc, c.wk[3], nc, kc - Answered(c)))
  BY DEF Stands
<1>4. Path("client", At(rc, c.rk[3], gc, kc), qc, At(ws, s.wk[3], ns, ks))
  BY DEF Stands
<1>5. conn["client"] = c /\ conn["server"] = s /\ inbox["client"] = qc /\ inbox["server"] = qs
  BY <1>1, TwoIs
<1>6. /\ Path("server", At(rs, s.rk[3], d, ks - Asked(s)), qs, At(wc, e.wk[3], nc, kc - Answered(e)))
      /\ Path("client", At(rc, e.rk[3], gc, kc), qc, At(ws, s.wk[3], ns, ks))
  BY <1>3, <1>4
<1>7. Together(e, s, qc, qs, nc, ns, gc, gs)
  BY <1>1, <1>2, <1>6, Joined
<1>8. Leads(e, s, qc, qs, nc, ns, gc, gs)
  BY <1>1, <1>7 DEF Leads
<1>9. Sound(s, "server")'
  BY <1>1, SoundLater
<1> QED BY <1>1, <1>8, <1>9, LeadsCall

LEMMA ServerTurns ==
    ASSUME NEW c, NEW s, NEW qc, NEW qs, NEW nc, NEW ns, NEW gc, NEW gs,
           NEW rc, NEW wc, NEW rs, NEW ws, NEW kc, NEW ks, NEW d,
           Stands(c, s, qc, qs, nc, ns, gc, gs, rc, wc, rs, ws, kc, ks, d),
           NEW e, conn' = Two(c, e), inbox' = inbox, sent' = sent, read' = read, opt' = opt,
           calls' \in Nat, calls <= calls', calls' <= opt.calls, Sound(e, "server")',
           ReadsOn(e, qs), ServerStage(e, rs, ws), e.rk[3] = s.rk[3], e.wk[3] = s.wk[3],
           Asked(e) = Asked(s)
    PROVE  Inv'
<1>1. /\ conn = Two(c, s) /\ inbox = Two(qc, qs) /\ sent = Two(nc, ns) /\ read = Two(gc, gs)
      /\ opt \in OptionRecord /\ opt.ver = 13 /\ calls \in Nat /\ calls <= opt.calls
      /\ nc \in Nat /\ ns \in Nat /\ gc \in Nat /\ gs \in Nat
      /\ kc \in Nat /\ ks \in Nat /\ d \in Nat /\ gs = GivenData(rs, d)
      /\ Sound(c, "client") /\ Sound(s, "server") /\ ReadsOn(c, qc) /\ ReadsOn(s, qs)
  BY DEF Stands
<1>2. ClientStage(c, rc, wc, nc) /\ ServerStage(s, rs, ws)
  BY DEF Stands
<1>3. Path("server", At(rs, s.rk[3], d, ks - Asked(s)), qs, At(wc, c.wk[3], nc, kc - Answered(c)))
  BY DEF Stands
<1>4. Path("client", At(rc, c.rk[3], gc, kc), qc, At(ws, s.wk[3], ns, ks))
  BY DEF Stands
<1>5. conn["client"] = c /\ conn["server"] = s /\ inbox["client"] = qc /\ inbox["server"] = qs
  BY <1>1, TwoIs
<1>6. /\ Path("server", At(rs, e.rk[3], d, ks - Asked(e)), qs, At(wc, c.wk[3], nc, kc - Answered(c)))
      /\ Path("client", At(rc, c.rk[3], gc, kc), qc, At(ws, e.wk[3], ns, ks))
  BY <1>3, <1>4
<1>7. Together(c, e, qc, qs, nc, ns, gc, gs)
  BY <1>1, <1>2, <1>6, Joined
<1>8. Leads(c, e, qc, qs, nc, ns, gc, gs)
  BY <1>1, <1>7 DEF Leads
<1>9. Sound(c, "client")'
  BY <1>1, SoundLater
<1> QED BY <1>1, <1>8, <1>9, LeadsCall

LEMMA SoundFlags ==
    ASSUME NEW c, NEW r, Sound(c, r), NEW e, NEW S, Same(c, e, S),
           S \cap {"err", "sched", "sentTickets", "extraTickets"} = {},
           e.keyUpdate \in {"none", "requested", "notRequested"}, ~e.reneg,
           opt \in OptionRecord, opt' = opt, calls \in Nat, calls' \in Nat, calls <= calls'
    PROVE  Sound(e, r)'
  BY SoundKept, SoundLater

\* A side that is set up keeps its stage when its flags change.
Flags == {"inInit", "keyUpdate", "extraTickets"}

LEMMA ClientDoneKept ==
    ASSUME NEW c, NEW ra, NEW wa, NEW e, ClientDone(c, ra, wa),
           Same(c, e, Flags)
    PROVE  /\ ClientDone(e, ra, wa) /\ Answered(e) = Answered(c) /\ e.rk = c.rk /\ e.wk = c.wk
           /\ e.st = c.st /\ e.flow = c.flow /\ e.pha = c.pha /\ e.reneg = c.reneg
<1>1. /\ e.st = c.st /\ e.flow = c.flow /\ e.v13 = c.v13 /\ e.finSent = c.finSent
      /\ e.finRead = c.finRead /\ e.hit = c.hit /\ e.hrr = c.hrr /\ e.early = c.early
      /\ e.ed = c.ed /\ e.certReq = c.certReq /\ e.peerCert = c.peerCert /\ e.pha = c.pha
      /\ e.rk = c.rk /\ e.wk = c.wk /\ e.tr = c.tr /\ e.hsTr = c.hsTr
      /\ e.sfTr = c.sfTr /\ e.phaTr = c.phaTr /\ e.reneg = c.reneg
  BY FieldsAre DEF Same, Flags
<1>2. ClientDone(e, ra, wa)
  BY <1>1 DEF ClientDone
<1> QED BY <1>1, <1>2 DEF Answered

LEMMA ServerDoneKept ==
    ASSUME NEW c, NEW ra, NEW wa, NEW e, ServerDone(c, ra, wa),
           Same(c, e, Flags),
           \/ c.pha # "requestPending" \/ opt.eager
           \/ e.keyUpdate = c.keyUpdate /\ (c.inInit => e.inInit)
    PROVE  /\ ServerDone(e, ra, wa) /\ Asked(e) = Asked(c) /\ e.rk = c.rk /\ e.wk = c.wk
           /\ e.st = c.st /\ e.flow = c.flow /\ e.pha = c.pha /\ e.reneg = c.reneg
<1>1. /\ e.st = c.st /\ e.flow = c.flow /\ e.v13 = c.v13 /\ e.finSent = c.finSent
      /\ e.finRead = c.finRead /\ e.hit = c.hit /\ e.hrr = c.hrr /\ e.early = c.early
      /\ e.ed = c.ed /\ e.certReq = c.certReq /\ e.peerCert = c.peerCert /\ e.pha = c.pha
      /\ e.rk = c.rk /\ e.wk = c.wk /\ e.tr = c.tr /\ e.hsTr = c.hsTr
      /\ e.sfTr = c.sfTr /\ e.phaTr = c.phaTr /\ e.reneg = c.reneg
  BY FieldsAre DEF Same, Flags
<1>2. ServerDone(e, ra, wa)
  BY <1>1 DEF ServerDone, AboutToAsk
<1> QED BY <1>1, <1>2 DEF Asked

\* A side whose handshake is over.
LEMMA ClientIsDone ==
    ASSUME NEW c, NEW ra, NEW wa, NEW n, ClientStage(c, ra, wa, n), c.st = "OK"
    PROVE  ClientDone(c, ra, wa) /\ ra = "ok" /\ wa = "ok" /\ c.rk = KA(c.rk[3]) /\ c.wk = KA(c.wk[3])
<1>1. ClientDone(c, ra, wa)
  BY DEF ClientStage, ClientFirst, ClientRetry, ClientReads, ClientAnswers
<1> QED BY <1>1 DEF ClientDone, IsAppKey

LEMMA ServerIsDone ==
    ASSUME NEW c, NEW ra, NEW wa, ServerStage(c, ra, wa), c.st = "OK"
    PROVE  /\ ServerDone(c, ra, wa) /\ ra = "ok" /\ wa = "ok" /\ c.rk = KA(c.rk[3])
           /\ c.wk = KA(c.wk[3]) /\ c.ed = ReadEarly
<1>1. ServerDone(c, ra, wa)
  BY DEF ServerStage, ServerFirst, ServerRetried, ServerWrites, ServerReads
<1> QED BY <1>1 DEF ServerDone, IsAppKey

LEMMA KeyUpdateByClient ==
    ASSUME NEW c, NEW s, NEW qc, NEW qs, NEW nc, NEW ns, NEW gc, NEW gs,
           NEW rc, NEW wc, NEW rs, NEW ws, NEW kc, NEW ks, NEW d,
           Stands(c, s, qc, qs, nc, ns, gc, gs, rc, wc, rs, ws, kc, ks, d),
           KeyUpdate("client")
    PROVE  Inv'
<1>1. /\ conn = Two(c, s) /\ inbox = Two(qc, qs) /\ sent = Two(nc, ns) /\ read = Two(gc, gs)
      /\ opt \in OptionRecord /\ opt.ver = 13 /\ calls \in Nat /\ calls <= opt.calls
      /\ nc \in Nat /\ ns \in Nat /\ gc \in Nat /\ gs \in Nat
      /\ kc \in Nat /\ ks \in Nat /\ d \in Nat /\ gs = GivenData(rs, d)
      /\ Sound(c, "client") /\ Sound(s, "server") /\ ReadsOn(c, qc) /\ ReadsOn(s, qs)
  BY DEF Stands
<1>2. ClientStage(c, rc, wc, nc) /\ ServerStage(s, rs, ws)
  BY DEF Stands
<1>3. Path("server", At(rs, s.rk[3], d, ks - Asked(s)), qs, At(wc, c.wk[3], nc, kc - Answered(c)))
  BY DEF Stands
<1>4. Path("client", At(rc, c.rk[3], gc, kc), qc, At(ws, s.wk[3], ns, ks))
  BY DEF Stands
<1>5. conn["client"] = c /\ conn["server"] = s /\ inbox["client"] = qc /\ inbox["server"] = qs
  BY <1>1, TwoIs
<1>6. /\ c.flow = "FINISHED" /\ c.st = "OK" /\ ~c.inInit
      /\ opt' = opt /\ inbox' = inbox /\ sent' = sent /\ read' = read
      /\ calls < opt.calls /\ calls' = calls + 1
  BY <1>5 DEF KeyUpdate, InitFinished, Call
<1>7. PICK type \in {"requested", "notRequested"} :
         conn' = [conn EXCEPT !["client"].keyUpdate = type, !["client"].inInit = TRUE]
  BY DEF KeyUpdate
<1>8. PICK e : e = [c EXCEPT !.keyUpdate = type, !.inInit = TRUE]
  OBVIOUS
<1>9. conn' = Two(e, s)
  BY <1>1, <1>7, <1>8 DEF Two, Role
<1>10. Same(c, e, Flags) /\ e.keyUpdate = type
  BY <1>1, <1>8, FieldsAre DEF Same, Sound, Flags
<1>11. opt.calls \in Nat
  BY <1>1 DEF OptionRecord
<1>12. calls' \in Nat /\ calls <= calls' /\ calls' <= opt.calls
  BY <1>1, <1>6, <1>11
<1>13. ClientDone(c, rc, wc)
  BY <1>2, <1>6, ClientIsDone
<1>14. PICK S : S = {"inInit", "keyUpdate"}
  OBVIOUS
<1>15. Same(c, e, S) /\ S \cap {"err", "sched", "sentTickets", "extraTickets"} = {}
  BY <1>1, <1>8, <1>14, FieldsAre DEF Same, Sound
<1>16. ~e.reneg
  <2>1. "reneg" \in DOMAIN c /\ ~c.reneg
    BY <1>1, FieldsAre DEF Sound
  <2> QED BY <1>8, <2>1
<1>17. Sound(e, "client")'
  BY <1>1, <1>6, <1>7, <1>10, <1>12, <1>15, <1>16, SoundFlags
<1>18. /\ ClientDone(e, rc, wc) /\ e.rk[3] = c.rk[3] /\ e.wk[3] = c.wk[3] /\ e.st = "OK" /\ e.flow = "FINISHED"
       /\ Answered(e) = Answered(c)
  BY <1>6, <1>10, <1>13, ClientDoneKept
<1>19. ReadsOn(e, qc)
  BY <1>7, <1>10, <1>18 DEF ReadsOn, Reason
<1>20. ClientStage(e, rc, wc, nc)
  BY <1>18 DEF ClientStage
<1> QED BY <1>6, <1>9, <1>12, <1>17, <1>18, <1>19, <1>20, ClientTurns

LEMMA KeyUpdateByServer ==
    ASSUME NEW c, NEW s, NEW qc, NEW qs, NEW nc, NEW ns, NEW gc, NEW gs,
           NEW rc, NEW wc, NEW rs, NEW ws, NEW kc, NEW ks, NEW d,
           Stands(c, s, qc, qs, nc, ns, gc, gs, rc, wc, rs, ws, kc, ks, d),
           KeyUpdate("server")
    PROVE  Inv'
<1>1. /\ conn = Two(c, s) /\ inbox = Two(qc, qs) /\ sent = Two(nc, ns) /\ read = Two(gc, gs)
      /\ opt \in OptionRecord /\ opt.ver = 13 /\ calls \in Nat /\ calls <= opt.calls
      /\ nc \in Nat /\ ns \in Nat /\ gc \in Nat /\ gs \in Nat
      /\ kc \in Nat /\ ks \in Nat /\ d \in Nat /\ gs = GivenData(rs, d)
      /\ Sound(c, "client") /\ Sound(s, "server") /\ ReadsOn(c, qc) /\ ReadsOn(s, qs)
  BY DEF Stands
<1>2. ClientStage(c, rc, wc, nc) /\ ServerStage(s, rs, ws)
  BY DEF Stands
<1>3. Path("server", At(rs, s.rk[3], d, ks - Asked(s)), qs, At(wc, c.wk[3], nc, kc - Answered(c)))
  BY DEF Stands
<1>4. Path("client", At(rc, c.rk[3], gc, kc), qc, At(ws, s.wk[3], ns, ks))
  BY DEF Stands
<1>5. conn["client"] = c /\ conn["server"] = s /\ inbox["client"] = qc /\ inbox["server"] = qs
  BY <1>1, TwoIs
<1>6. /\ s.flow = "FINISHED" /\ s.st = "OK" /\ ~s.inInit
      /\ opt' = opt /\ inbox' = inbox /\ sent' = sent /\ read' = read
      /\ calls < opt.calls /\ calls' = calls + 1
  BY <1>5 DEF KeyUpdate, InitFinished, Call
<1>7. PICK type \in {"requested", "notRequested"} :
         conn' = [conn EXCEPT !["server"].keyUpdate = type, !["server"].inInit = TRUE]
  BY DEF KeyUpdate
<1>8. PICK e : e = [s EXCEPT !.keyUpdate = type, !.inInit = TRUE]
  OBVIOUS
<1>9. conn' = Two(c, e)
  BY <1>1, <1>7, <1>8 DEF Two, Role
<1>10. Same(s, e, Flags) /\ e.keyUpdate = type
  BY <1>1, <1>8, FieldsAre DEF Same, Sound, Flags
<1>11. opt.calls \in Nat
  BY <1>1 DEF OptionRecord
<1>12. calls' \in Nat /\ calls <= calls' /\ calls' <= opt.calls
  BY <1>1, <1>6, <1>11
<1>13. ServerDone(s, rs, ws)
  BY <1>2, <1>6, ServerIsDone
<1>14. PICK S : S = {"inInit", "keyUpdate"}
  OBVIOUS
<1>15. Same(s, e, S) /\ S \cap {"err", "sched", "sentTickets", "extraTickets"} = {}
  BY <1>1, <1>8, <1>14, FieldsAre DEF Same, Sound
<1>16. ~e.reneg
  <2>1. "reneg" \in DOMAIN s /\ ~s.reneg
    BY <1>1, FieldsAre DEF Sound
  <2> QED BY <1>8, <2>1
<1>17. Sound(e, "server")'
  BY <1>1, <1>6, <1>7, <1>10, <1>12, <1>15, <1>16, SoundFlags
<1>21. s.pha # "requestPending" \/ opt.eager
  BY <1>6, <1>13 DEF ServerDone, AboutToAsk, Ext
<1>18. /\ ServerDone(e, rs, ws) /\ e.rk[3] = s.rk[3] /\ e.wk[3] = s.wk[3] /\ e.st = "OK" /\ e.flow = "FINISHED"
       /\ Asked(e) = Asked(s)
  BY <1>6, <1>10, <1>13, <1>21, ServerDoneKept
<1>19. ReadsOn(e, qs)
  BY <1>7, <1>10, <1>18 DEF ReadsOn, Reason
<1>20. ServerStage(e, rs, ws)
  BY <1>18 DEF ServerStage
<1> QED BY <1>6, <1>9, <1>12, <1>17, <1>18, <1>19, <1>20, ServerTurns


LEMMA VerifyByServer ==
    ASSUME NEW c, NEW s, NEW qc, NEW qs, NEW nc, NEW ns, NEW gc, NEW gs,
           NEW rc, NEW wc, NEW rs, NEW ws, NEW kc, NEW ks, NEW d,
           Stands(c, s, qc, qs, nc, ns, gc, gs, rc, wc, rs, ws, kc, ks, d),
           VerifyClientPostHandshake
    PROVE  Inv'
<1>1. /\ conn = Two(c, s) /\ inbox = Two(qc, qs) /\ sent = Two(nc, ns) /\ read = Two(gc, gs)
      /\ opt \in OptionRecord /\ opt.ver = 13 /\ calls \in Nat /\ calls <= opt.calls
      /\ nc \in Nat /\ ns \in Nat /\ gc \in Nat /\ gs \in Nat
      /\ kc \in Nat /\ ks \in Nat /\ d \in Nat /\ gs = GivenData(rs, d)
      /\ Sound(c, "client") /\ Sound(s, "server") /\ ReadsOn(c, qc) /\ ReadsOn(s, qs)
  BY DEF Stands
<1>2. ClientStage(c, rc, wc, nc) /\ ServerStage(s, rs, ws)
  BY DEF Stands
<1>3. Path("server", At(rs, s.rk[3], d, ks - Asked(s)), qs, At(wc, c.wk[3], nc, kc - Answered(c)))
  BY DEF Stands
<1>4. Path("client", At(rc, c.rk[3], gc, kc), qc, At(ws, s.wk[3], ns, ks))
  BY DEF Stands
<1>5. conn["client"] = c /\ conn["server"] = s /\ inbox["client"] = qc /\ inbox["server"] = qs
  BY <1>1, TwoIs
<1>6. /\ s.flow = "FINISHED" /\ s.st = "OK" /\ ~s.inInit /\ s.pha = "ext"
      /\ opt' = opt /\ inbox' = inbox /\ sent' = sent /\ read' = read
      /\ calls < opt.calls /\ calls' = calls + 1 /\ (opt.eager \/ s.keyUpdate = "none")
  BY <1>5 DEF VerifyClientPostHandshake, InitFinished, Call
<1>7. PICK e : e = [s EXCEPT !.pha = "requestPending", !.inInit = TRUE]
  OBVIOUS
<1>8. conn' = [conn EXCEPT !["server"].pha = "requestPending", !["server"].inInit = TRUE]
  BY DEF VerifyClientPostHandshake
<1>9. conn' = Two(c, e)
  BY <1>1, <1>7, <1>8 DEF Two, Role
<1>10. PICK S : S = {"pha", "inInit"}
  OBVIOUS
<1>11. opt.calls \in Nat
  BY <1>1 DEF OptionRecord
<1>12. calls' \in Nat /\ calls <= calls' /\ calls' <= opt.calls
  BY <1>1, <1>6, <1>11
<1>13. Same(s, e, S) /\ S \cap {"err", "sched", "sentTickets", "extraTickets"} = {} /\ e.pha = "requestPending" /\ e.inInit
  BY <1>1, <1>7, <1>10, FieldsAre DEF Same, Sound
<1>14. /\ e.st = s.st /\ e.flow = s.flow /\ e.v13 = s.v13 /\ e.finSent = s.finSent
       /\ e.finRead = s.finRead /\ e.hit = s.hit /\ e.hrr = s.hrr /\ e.early = s.early
       /\ e.ed = s.ed /\ e.certReq = s.certReq /\ e.peerCert = s.peerCert /\ e.rk = s.rk
       /\ e.wk = s.wk /\ e.tr = s.tr /\ e.hsTr = s.hsTr /\ e.sfTr = s.sfTr
       /\ e.phaTr = s.phaTr /\ e.keyUpdate = s.keyUpdate /\ e.extraTickets = s.extraTickets /\ e.reneg = s.reneg
  BY <1>10, <1>13, FieldsAre DEF Same
<1>15. ServerDone(s, rs, ws)
  BY <1>2, <1>6, ServerIsDone
<1>16. opt.pha
  BY <1>6, <1>15 DEF ServerDone, Ext
<1>17. ServerDone(e, rs, ws)
  BY <1>6, <1>13, <1>14, <1>15, <1>16 DEF ServerDone, AboutToAsk
<1>18. Sound(e, "server")'
  <2>1. ~e.reneg /\ e.keyUpdate \in {"none", "requested", "notRequested"}
    BY <1>1, <1>14 DEF Sound
  <2> QED BY <1>1, <1>6, <1>12, <1>13, <2>1, SoundFlags
<1>19. ReadsOn(e, qs) /\ Asked(e) = Asked(s)
  BY <1>6, <1>13, <1>14 DEF ReadsOn, Reason, Asked
<1>20. ServerStage(e, rs, ws)
  BY <1>17 DEF ServerStage
<1> QED BY <1>6, <1>9, <1>12, <1>14, <1>18, <1>19, <1>20, ServerTurns

LEMMA TicketByServer ==
    ASSUME NEW c, NEW s, NEW qc, NEW qs, NEW nc, NEW ns, NEW gc, NEW gs,
           NEW rc, NEW wc, NEW rs, NEW ws, NEW kc, NEW ks, NEW d,
           Stands(c, s, qc, qs, nc, ns, gc, gs, rc, wc, rs, ws, kc, ks, d),
           NewSessionTicket
    PROVE  Inv'
<1>1. /\ conn = Two(c, s) /\ inbox = Two(qc, qs) /\ sent = Two(nc, ns) /\ read = Two(gc, gs)
      /\ opt \in OptionRecord /\ opt.ver = 13 /\ calls \in Nat /\ calls <= opt.calls
      /\ nc \in Nat /\ ns \in Nat /\ gc \in Nat /\ gs \in Nat
      /\ kc \in Nat /\ ks \in Nat /\ d \in Nat /\ gs = GivenData(rs, d)
      /\ Sound(c, "client") /\ Sound(s, "server") /\ ReadsOn(c, qc) /\ ReadsOn(s, qs)
  BY DEF Stands
<1>2. ClientStage(c, rc, wc, nc) /\ ServerStage(s, rs, ws)
  BY DEF Stands
<1>3. Path("server", At(rs, s.rk[3], d, ks - Asked(s)), qs, At(wc, c.wk[3], nc, kc - Answered(c)))
  BY DEF Stands
<1>4. Path("client", At(rc, c.rk[3], gc, kc), qc, At(ws, s.wk[3], ns, ks))
  BY DEF Stands
<1>5. conn["client"] = c /\ conn["server"] = s /\ inbox["client"] = qc /\ inbox["server"] = qs
  BY <1>1, TwoIs
<1>6. /\ s.v13 /\ s.finSent /\ s.finRead
      /\ opt' = opt /\ inbox' = inbox /\ sent' = sent /\ read' = read
      /\ calls < opt.calls /\ calls' = calls + 1
  BY <1>5 DEF NewSessionTicket, FirstHandshake, Call
<1>7. PICK e : e = [s EXCEPT !.extraTickets = @ + 1, !.inInit = TRUE]
  OBVIOUS
<1>8. conn' = [conn EXCEPT !["server"].extraTickets = @ + 1, !["server"].inInit = TRUE]
  BY DEF NewSessionTicket
<1>9. conn' = Two(c, e)
  BY <1>1, <1>7, <1>8 DEF Two, Role
<1>11. opt.calls \in Nat
  BY <1>1 DEF OptionRecord
<1>12. calls' \in Nat /\ calls <= calls' /\ calls' <= opt.calls
  BY <1>1, <1>6, <1>11
<1>13. Same(s, e, Flags) /\ e.extraTickets = s.extraTickets + 1 /\ e.keyUpdate = s.keyUpdate
       /\ e.err = s.err /\ e.sched = s.sched /\ e.sentTickets = s.sentTickets /\ DOMAIN e = Fields /\ e.inInit
  BY <1>1, <1>7, FieldsAre DEF Same, Sound, Flags
<1>14. ServerDone(s, rs, ws)
  BY <1>2, <1>6 DEF ServerStage, ServerFirst, ServerRetried, ServerWrites, ServerReads, Server13
<1>15. ServerDone(e, rs, ws) /\ Asked(e) = Asked(s) /\ e.rk = s.rk /\ e.wk = s.wk
       /\ e.st = s.st /\ e.flow = s.flow /\ e.reneg = s.reneg
  BY <1>13, <1>14, ServerDoneKept
<1>16. Sound(e, "server")'
  <2>1. opt.tickets \in Nat /\ s.extraTickets \in Nat /\ s.sentTickets \in Nat /\ s.extraTickets <= calls
        /\ s.sentTickets + s.extraTickets <= opt.tickets + calls
    BY <1>1 DEF Sound, OptionRecord
  <2>2. e.extraTickets \in Nat /\ e.extraTickets <= calls' /\ e.sentTickets + e.extraTickets <= opt.tickets + calls'
    BY <1>1, <1>6, <1>13, <2>1
  <2> QED BY <1>1, <1>6, <1>13, <1>15, <2>1, <2>2 DEF Sound, Fields
<1>17. e.extraTickets > 0
  BY <1>1, <1>13 DEF Sound
<1>18. ReadsOn(e, qs)
  BY <1>1, <1>14, <1>15, <1>17 DEF ReadsOn, Reason, ServerDone
<1>19. ServerStage(e, rs, ws)
  BY <1>15 DEF ServerStage
<1> QED BY <1>6, <1>9, <1>12, <1>15, <1>16, <1>18, <1>19, ServerTurns

LEMMA WriteAppByClient ==
    ASSUME NEW c, NEW s, NEW qc, NEW qs, NEW nc, NEW ns, NEW gc, NEW gs,
           NEW rc, NEW wc, NEW rs, NEW ws, NEW kc, NEW ks, NEW d,
           Stands(c, s, qc, qs, nc, ns, gc, gs, rc, wc, rs, ws, kc, ks, d),
           WriteApp("client")
    PROVE  Inv'
<1>1. /\ conn = Two(c, s) /\ inbox = Two(qc, qs) /\ sent = Two(nc, ns) /\ read = Two(gc, gs)
      /\ opt \in OptionRecord /\ opt.ver = 13 /\ calls \in Nat /\ calls <= opt.calls
      /\ nc \in Nat /\ ns \in Nat /\ gc \in Nat /\ gs \in Nat
      /\ kc \in Nat /\ ks \in Nat /\ d \in Nat /\ gs = GivenData(rs, d)
      /\ Sound(c, "client") /\ Sound(s, "server") /\ ReadsOn(c, qc) /\ ReadsOn(s, qs)
  BY DEF Stands
<1>2. ClientStage(c, rc, wc, nc) /\ ServerStage(s, rs, ws)
  BY DEF Stands
<1>3. Path("server", At(rs, s.rk[3], d, ks - Asked(s)), qs, At(wc, c.wk[3], nc, kc - Answered(c)))
  BY DEF Stands
<1>4. Path("client", At(rc, c.rk[3], gc, kc), qc, At(ws, s.wk[3], ns, ks))
  BY DEF Stands
<1>5. conn["client"] = c /\ conn["server"] = s /\ inbox["client"] = qc /\ inbox["server"] = qs
  BY <1>1, TwoIs
<1>6. /\ c.flow = "FINISHED" /\ c.st = "OK" /\ ~c.inInit
      /\ opt' = opt /\ calls' = calls /\ read' = read
  BY <1>5 DEF WriteApp, InitFinished
<1>7. ClientDone(c, rc, wc) /\ wc = "ok" /\ c.wk = KA(c.wk[3])
  BY <1>2, <1>6, ClientIsDone
<1>8. CASE c.keyUpdate # "none" \/ c.extraTickets > 0
  <2>1. conn' = [conn EXCEPT !["client"].inInit = TRUE] /\ inbox' = inbox /\ sent' = sent
    BY <1>5, <1>8 DEF WriteApp
  <2>2. PICK e : e = [c EXCEPT !.inInit = TRUE]
    OBVIOUS
  <2>3. conn' = Two(e, s)
    BY <1>1, <2>1, <2>2 DEF Two, Role
  <2>4. PICK S : S = {"inInit"}
    OBVIOUS
  <2>5. Same(c, e, S) /\ S \cap {"err", "sched", "sentTickets", "extraTickets"} = {}
    BY <1>1, <2>2, <2>4, FieldsAre DEF Same, Sound
  <2>6. Same(c, e, Flags) /\ e.keyUpdate = c.keyUpdate /\ e.extraTickets = c.extraTickets
    BY <2>4, <2>5, FieldsAre DEF Same, Flags
  <2>7. /\ ClientDone(e, rc, wc) /\ Answered(e) = Answered(c) /\ e.rk = c.rk /\ e.wk = c.wk
        /\ e.st = c.st /\ e.flow = c.flow /\ e.reneg = c.reneg
    BY <1>7, <2>6, ClientDoneKept
  <2>8. calls' \in Nat /\ calls <= calls' /\ calls' <= opt.calls
    BY <1>1, <1>6
  <2>9. Sound(e, "client")'
    <3>1. ~e.reneg /\ e.keyUpdate \in {"none", "requested", "notRequested"}
      BY <1>1, <2>6, <2>7 DEF Sound
    <3> QED BY <1>1, <1>6, <2>5, <2>8, <3>1, SoundFlags
  <2>10. ReadsOn(e, qc)
    BY <1>6, <1>8, <2>6, <2>7 DEF ReadsOn, Reason
  <2>11. ClientStage(e, rc, wc, nc)
    BY <2>7 DEF ClientStage
  <2> QED BY <1>6, <2>1, <2>3, <2>7, <2>8, <2>9, <2>10, <2>11, ClientTurns
<1>9. CASE ~(c.keyUpdate # "none" \/ c.extraTickets > 0)
  <2>1. PICK m : m = [mt |-> "DATA", key |-> c.wk]
    OBVIOUS
  <2>2. PICK q2 : q2 = Append(qs, m)
    OBVIOUS
  <2>3. /\ conn' = conn /\ sent' = [sent EXCEPT !["client"] = @ + 1]
        /\ inbox' = [inbox EXCEPT !["server"] = Append(inbox["server"], m)]
    BY <1>5, <1>9, <2>1 DEF WriteApp, Sending, Peer
  <2>4. inbox' = [Two(qc, qs) EXCEPT !["server"] = q2]
    BY <1>1, <1>5, <2>2, <2>3
  <2>5. inbox' = Two(qc, q2)
    BY <2>4 DEF Two, Role
  <2>6. sent' = Two(nc + 1, ns)
    BY <1>1, <2>3 DEF Two, Role
  <2>7. m.mt = "DATA" /\ m.key = KA(c.wk[3])
    BY <1>7, <2>1
  <2>8. PICK a, b, u, k : /\ u = c.wk[3] /\ k = kc - Answered(c)
                          /\ a = At("ok", u, nc, k) /\ b = At("ok", u, nc + 1, k)
    OBVIOUS
  <2>9. a.at = "ok" /\ a.ku = u /\ b = [a EXCEPT !.d = @ + 1]
    BY <2>8 DEF At
  <2>10. Arrives("server", a, m, b)
    BY <2>7, <2>8, <2>9 DEF Arrives, ToServer
  <2>11. Path("server", At(rs, s.rk[3], d, ks - Asked(s)), qs, a)
    BY <1>3, <1>7, <2>8
  <2>12. "server" \in Role
    BY DEF Role
  <2>13. Path("server", At(rs, s.rk[3], d, ks - Asked(s)), q2, b)
    BY <2>2, <2>10, <2>11, <2>12, PathPush
  <2>14. Path("server", At(rs, s.rk[3], d, ks - Asked(s)), q2, At(wc, c.wk[3], nc + 1, kc - Answered(c)))
    BY <1>7, <2>8, <2>13
  <2>15. ReadsOn(s, q2)
    BY <1>1, <1>3, <2>2, ReadsOnAppend
  <2>16. ClientStage(c, rc, wc, nc + 1) /\ ServerStage(s, rs, ws)
    BY <1>2, <1>7 DEF ClientStage
  <2>17. nc + 1 \in Nat
    BY <1>1
  <2>18. Together(c, s, qc, q2, nc + 1, ns, gc, gs)
    BY <1>1, <1>4, <2>14, <2>16, <2>17, Joined
  <2>19. Leads(c, s, qc, q2, nc + 1, ns, gc, gs)
    BY <1>1, <1>6, <2>3, <2>5, <2>6, <2>15, <2>17, <2>18 DEF Leads
  <2> QED BY <1>1, <1>6, <2>19, LeadsStep
<1> QED BY <1>8, <1>9

LEMMA WriteAppByServer ==
    ASSUME NEW c, NEW s, NEW qc, NEW qs, NEW nc, NEW ns, NEW gc, NEW gs,
           NEW rc, NEW wc, NEW rs, NEW ws, NEW kc, NEW ks, NEW d,
           Stands(c, s, qc, qs, nc, ns, gc, gs, rc, wc, rs, ws, kc, ks, d),
           WriteApp("server")
    PROVE  Inv'
<1>1. /\ conn = Two(c, s) /\ inbox = Two(qc, qs) /\ sent = Two(nc, ns) /\ read = Two(gc, gs)
      /\ opt \in OptionRecord /\ opt.ver = 13 /\ calls \in Nat /\ calls <= opt.calls
      /\ nc \in Nat /\ ns \in Nat /\ gc \in Nat /\ gs \in Nat
      /\ kc \in Nat /\ ks \in Nat /\ d \in Nat /\ gs = GivenData(rs, d)
      /\ Sound(c, "client") /\ Sound(s, "server") /\ ReadsOn(c, qc) /\ ReadsOn(s, qs)
  BY DEF Stands
<1>2. ClientStage(c, rc, wc, nc) /\ ServerStage(s, rs, ws)
  BY DEF Stands
<1>3. Path("server", At(rs, s.rk[3], d, ks - Asked(s)), qs, At(wc, c.wk[3], nc, kc - Answered(c)))
  BY DEF Stands
<1>4. Path("client", At(rc, c.rk[3], gc, kc), qc, At(ws, s.wk[3], ns, ks))
  BY DEF Stands
<1>5. conn["client"] = c /\ conn["server"] = s /\ inbox["client"] = qc /\ inbox["server"] = qs
  BY <1>1, TwoIs
<1>6. /\ s.flow = "FINISHED" /\ s.st = "OK" /\ ~s.inInit
      /\ opt' = opt /\ calls' = calls /\ read' = read
  BY <1>5 DEF WriteApp, InitFinished
<1>7. ServerDone(s, rs, ws) /\ ws = "ok" /\ s.wk = KA(s.wk[3])
  BY <1>2, <1>6, ServerIsDone
<1>8. CASE s.keyUpdate # "none" \/ s.extraTickets > 0
  <2>1. conn' = [conn EXCEPT !["server"].inInit = TRUE] /\ inbox' = inbox /\ sent' = sent
    BY <1>5, <1>8 DEF WriteApp
  <2>2. PICK e : e = [s EXCEPT !.inInit = TRUE]
    OBVIOUS
  <2>3. conn' = Two(c, e)
    BY <1>1, <2>1, <2>2 DEF Two, Role
  <2>4. PICK S : S = {"inInit"}
    OBVIOUS
  <2>5. Same(s, e, S) /\ S \cap {"err", "sched", "sentTickets", "extraTickets"} = {}
    BY <1>1, <2>2, <2>4, FieldsAre DEF Same, Sound
  <2>6. Same(s, e, Flags) /\ e.keyUpdate = s.keyUpdate /\ e.extraTickets = s.extraTickets /\ e.inInit
    BY <1>1, <2>2, <2>4, <2>5, FieldsAre DEF Same, Flags, Sound
  <2>7. /\ ServerDone(e, rs, ws) /\ Asked(e) = Asked(s) /\ e.rk = s.rk /\ e.wk = s.wk
        /\ e.st = s.st /\ e.flow = s.flow /\ e.reneg = s.reneg
    BY <1>7, <2>6, ServerDoneKept
  <2>8. calls' \in Nat /\ calls <= calls' /\ calls' <= opt.calls
    BY <1>1, <1>6
  <2>9. Sound(e, "server")'
    <3>1. ~e.reneg /\ e.keyUpdate \in {"none", "requested", "notRequested"}
      BY <1>1, <2>6, <2>7 DEF Sound
    <3> QED BY <1>1, <1>6, <2>5, <2>8, <3>1, SoundFlags
  <2>10. ReadsOn(e, qs)
    BY <1>6, <1>8, <2>6, <2>7 DEF ReadsOn, Reason
  <2>11. ServerStage(e, rs, ws)
    BY <2>7 DEF ServerStage
  <2> QED BY <1>6, <2>1, <2>3, <2>7, <2>8, <2>9, <2>10, <2>11, ServerTurns
<1>9. CASE ~(s.keyUpdate # "none" \/ s.extraTickets > 0)
  <2>1. PICK m : m = [mt |-> "DATA", key |-> s.wk]
    OBVIOUS
  <2>2. PICK q2 : q2 = Append(qc, m)
    OBVIOUS
  <2>3. /\ conn' = conn /\ sent' = [sent EXCEPT !["server"] = @ + 1]
        /\ inbox' = [inbox EXCEPT !["client"] = Append(inbox["client"], m)]
    BY <1>5, <1>9, <2>1 DEF WriteApp, Sending, Peer
  <2>4. inbox' = [Two(qc, qs) EXCEPT !["client"] = q2]
    BY <1>1, <1>5, <2>2, <2>3
  <2>5. inbox' = Two(q2, qs)
    BY <2>4 DEF Two, Role
  <2>6. sent' = Two(nc, ns + 1)
    BY <1>1, <2>3 DEF Two, Role
  <2>7. m.mt = "DATA" /\ m.key = KA(s.wk[3])
    BY <1>7, <2>1
  <2>8. PICK a, b, u, k : /\ u = s.wk[3] /\ k = ks
                          /\ a = At("ok", u, ns, k) /\ b = At("ok", u, ns + 1, k)
    OBVIOUS
  <2>9. a.at = "ok" /\ a.ku = u /\ b = [a EXCEPT !.d = @ + 1]
    BY <2>8 DEF At
  <2>10. Arrives("client", a, m, b)
    BY <2>7, <2>8, <2>9 DEF Arrives, ToClient
  <2>11. Path("client", At(rc, c.rk[3], gc, kc), qc, a)
    BY <1>4, <1>7, <2>8
  <2>12. "client" \in Role
    BY DEF Role
  <2>13. Path("client", At(rc, c.rk[3], gc, kc), q2, b)
    BY <2>2, <2>10, <2>11, <2>12, PathPush
  <2>14. Path("client", At(rc, c.rk[3], gc, kc), q2, At(ws, s.wk[3], ns + 1, ks))
    BY <1>7, <2>8, <2>13
  <2>15. ReadsOn(c, q2)
    BY <1>1, <1>4, <2>2, ReadsOnAppend
  <2>16. ServerStage(s, rs, ws) /\ ClientStage(c, rc, wc, nc)
    BY <1>2, <1>7 DEF ServerStage
  <2>17. ns + 1 \in Nat
    BY <1>1
  <2>18. Together(c, s, q2, qs, nc, ns + 1, gc, gs)
    BY <1>1, <1>3, <2>14, <2>16, <2>17, Joined
  <2>19. Leads(c, s, q2, qs, nc, ns + 1, gc, gs)
    BY <1>1, <1>6, <2>3, <2>5, <2>6, <2>15, <2>17, <2>18 DEF Leads
  <2> QED BY <1>1, <1>6, <2>19, LeadsStep
<1> QED BY <1>8, <1>9


LEMMA StartByClient ==
    ASSUME NEW c, NEW s, NEW qc, NEW qs, NEW nc, NEW ns, NEW gc, NEW gs,
           NEW rc, NEW wc, NEW rs, NEW ws, NEW kc, NEW ks, NEW d,
           Stands(c, s, qc, qs, nc, ns, gc, gs, rc, wc, rs, ws, kc, ks, d),
           Start("client")
    PROVE  Inv'
<1>1. /\ conn = Two(c, s) /\ inbox = Two(qc, qs) /\ sent = Two(nc, ns) /\ read = Two(gc, gs)
      /\ opt \in OptionRecord /\ opt.ver = 13 /\ calls \in Nat /\ calls <= opt.calls
      /\ nc \in Nat /\ ns \in Nat /\ gc \in Nat /\ gs \in Nat
      /\ kc \in Nat /\ ks \in Nat /\ d \in Nat /\ gs = GivenData(rs, d)
      /\ Sound(c, "client") /\ Sound(s, "server") /\ ReadsOn(c, qc) /\ ReadsOn(s, qs)
  BY DEF Stands
<1>2. ClientStage(c, rc, wc, nc) /\ ServerStage(s, rs, ws)
  BY DEF Stands
<1>3. Path("server", At(rs, s.rk[3], d, ks - Asked(s)), qs, At(wc, c.wk[3], nc, kc - Answered(c)))
  BY DEF Stands
<1>4. Path("client", At(rc, c.rk[3], gc, kc), qc, At(ws, s.wk[3], ns, ks))
  BY DEF Stands
<1>5. conn["client"] = c /\ conn["server"] = s /\ inbox["client"] = qc /\ inbox["server"] = qs
  BY <1>1, TwoIs
<1>6. /\ c.flow = "UNINITED" /\ opt' = opt /\ inbox' = inbox /\ calls' = calls
      /\ sent' = sent /\ read' = read
  BY <1>5 DEF Start
<1>7. PICK v : v = (IF opt.early > 0 THEN "connecting" ELSE "none")
  OBVIOUS
<1>8. PICK h, g : h = (IF "client" = "client" THEN FALSE ELSE c.hit) /\
                  g = (IF "client" = "client" \/ ~FirstHandshake(c) THEN "none" ELSE c.certReq)
  OBVIOUS
<1>9. PICK e : e = [c EXCEPT !.tr = <<>>, !.hit = h, !.certReq = g, !.flow = "WRITING", !.ed = v]
  OBVIOUS
<1>10. conn' = Two(e, s)
  <2>1. [SetUp(c, "client") EXCEPT !.flow = "WRITING", !.ed = v] = e
    BY <1>8, <1>9 DEF SetUp
  <2>2. conn' = [Two(c, s) EXCEPT !["client"] = [SetUp(c, "client") EXCEPT !.flow = "WRITING", !.ed = v]]
    BY <1>1, <1>5, <1>7 DEF Start
  <2>3. conn' = [Two(c, s) EXCEPT !["client"] = e]
    BY <2>1, <2>2
  <2> QED BY <2>3 DEF Two, Role
<1>11. ClientFirst(c, rc, wc, nc) /\ c.st = "BEFORE"
  BY <1>2, <1>6 DEF ClientStage, ClientFirst, ClientRetry, ClientReads, ClientAnswers, ClientDone
<1>12. PICK S : S = {"tr", "hit", "certReq", "flow", "ed"}
  OBVIOUS
<1>13. Same(c, e, S) /\ S \cap {"err", "sched", "sentTickets", "extraTickets"} = {}
  BY <1>1, <1>9, <1>12, FieldsAre DEF Same, Sound
<1>14. /\ e.st = c.st /\ e.inInit = c.inInit /\ e.v13 = c.v13 /\ e.finSent = c.finSent
       /\ e.finRead = c.finRead /\ e.hrr = c.hrr /\ e.early = c.early /\ e.peerCert = c.peerCert
       /\ e.pha = c.pha /\ e.rk = c.rk /\ e.wk = c.wk /\ e.hsTr = c.hsTr
       /\ e.sfTr = c.sfTr /\ e.phaTr = c.phaTr /\ e.keyUpdate = c.keyUpdate /\ e.extraTickets = c.extraTickets
       /\ e.reneg = c.reneg
  BY <1>12, <1>13, FieldsAre DEF Same
<1>15. e.tr = <<>> /\ e.certReq = g /\ e.flow = "WRITING" /\ e.ed = v
  BY <1>1, <1>9, FieldsAre DEF Sound
<1>16. g = "none"
  BY <1>8, <1>11 DEF ClientFirst, ClientHelloing
<1>17. ClientFirst(e, rc, wc, nc)
  BY <1>7, <1>11, <1>14, <1>15, <1>16 DEF ClientFirst, ClientHelloing, Early
<1>18. ClientStage(e, rc, wc, nc)
  BY <1>17 DEF ClientStage
<1>19. ReadsOn(e, qc) /\ Answered(e) = Answered(c)
  BY <1>11, <1>14 DEF ReadsOn, Answered
<1>90. calls' \in Nat /\ calls <= calls' /\ calls' <= opt.calls
  BY <1>1, <1>6
<1>80. Sound(e, "client")'
  <2>1. ~e.reneg /\ e.keyUpdate \in {"none", "requested", "notRequested"}
    BY <1>1, <1>14 DEF Sound
  <2> QED BY <1>1, <1>6, <1>13, <1>90, <2>1, SoundFlags
<1> QED BY <1>6, <1>10, <1>14, <1>18, <1>19, <1>80, <1>90, ClientTurns

LEMMA EnterByClient ==
    ASSUME NEW c, NEW s, NEW qc, NEW qs, NEW nc, NEW ns, NEW gc, NEW gs,
           NEW rc, NEW wc, NEW rs, NEW ws, NEW kc, NEW ks, NEW d,
           Stands(c, s, qc, qs, nc, ns, gc, gs, rc, wc, rs, ws, kc, ks, d),
           Enter("client")
    PROVE  Inv'
<1>1. /\ conn = Two(c, s) /\ inbox = Two(qc, qs) /\ sent = Two(nc, ns) /\ read = Two(gc, gs)
      /\ opt \in OptionRecord /\ opt.ver = 13 /\ calls \in Nat /\ calls <= opt.calls
      /\ nc \in Nat /\ ns \in Nat /\ gc \in Nat /\ gs \in Nat
      /\ kc \in Nat /\ ks \in Nat /\ d \in Nat /\ gs = GivenData(rs, d)
      /\ Sound(c, "client") /\ Sound(s, "server") /\ ReadsOn(c, qc) /\ ReadsOn(s, qs)
  BY DEF Stands
<1>2. ClientStage(c, rc, wc, nc) /\ ServerStage(s, rs, ws)
  BY DEF Stands
<1>3. Path("server", At(rs, s.rk[3], d, ks - Asked(s)), qs, At(wc, c.wk[3], nc, kc - Answered(c)))
  BY DEF Stands
<1>4. Path("client", At(rc, c.rk[3], gc, kc), qc, At(ws, s.wk[3], ns, ks))
  BY DEF Stands
<1>5. conn["client"] = c /\ conn["server"] = s /\ inbox["client"] = qc /\ inbox["server"] = qs
  BY <1>1, TwoIs
<1>6. /\ c.flow = "FINISHED" /\ c.inInit /\ opt' = opt /\ inbox' = inbox /\ calls' = calls
      /\ sent' = sent /\ read' = read
  BY <1>5 DEF Enter
<1>7. ~c.reneg
  BY <1>1 DEF Sound
<1>8. PICK e : e = [c EXCEPT !.flow = "WRITING"]
  OBVIOUS
<1>9. conn' = [Two(c, s) EXCEPT !["client"] = e]
  BY <1>1, <1>5, <1>7, <1>8 DEF Enter
<1>10. conn' = Two(e, s)
  BY <1>9 DEF Two, Role
<1>12. PICK S : S = {"flow"}
  OBVIOUS
<1>13. Same(c, e, S) /\ S \cap {"err", "sched", "sentTickets", "extraTickets"} = {}
  BY <1>1, <1>8, <1>12, FieldsAre DEF Same, Sound
<1>14. /\ e.st = c.st /\ e.inInit = c.inInit /\ e.v13 = c.v13 /\ e.finSent = c.finSent
       /\ e.finRead = c.finRead /\ e.hit = c.hit /\ e.hrr = c.hrr /\ e.early = c.early
       /\ e.ed = c.ed /\ e.certReq = c.certReq /\ e.peerCert = c.peerCert /\ e.pha = c.pha
       /\ e.rk = c.rk /\ e.wk = c.wk /\ e.tr = c.tr /\ e.hsTr = c.hsTr
       /\ e.sfTr = c.sfTr /\ e.phaTr = c.phaTr /\ e.keyUpdate = c.keyUpdate /\ e.extraTickets = c.extraTickets
       /\ e.reneg = c.reneg
  BY <1>12, <1>13, FieldsAre DEF Same
<1>15. e.flow = "WRITING"
  BY <1>1, <1>8, FieldsAre DEF Sound
<1>16. ClientStage(e, rc, wc, nc)
  <2>1. CASE ClientFirst(c, rc, wc, nc)
    <3>1. ClientFirst(e, rc, wc, nc)
      BY <1>6, <1>14, <1>15, <2>1 DEF ClientFirst, ClientHelloing
    <3> QED BY <3>1 DEF ClientStage
  <2>2. CASE ClientDone(c, rc, wc)
    <3>1. ClientDone(e, rc, wc)
      BY <1>6, <1>14, <1>15, <2>2 DEF ClientDone
    <3> QED BY <3>1 DEF ClientStage
  <2> QED BY <1>2, <1>6, <2>1, <2>2 DEF ClientStage, ClientRetry, ClientReads, ClientAnswers
<1>17. ReadsOn(e, qc) /\ Answered(e) = Answered(c)
  BY <1>1, <1>6, <1>14, <1>15 DEF ReadsOn, Reason, Answered
<1>90. calls' \in Nat /\ calls <= calls' /\ calls' <= opt.calls
  BY <1>1, <1>6
<1>80. Sound(e, "client")'
  <2>1. ~e.reneg /\ e.keyUpdate \in {"none", "requested", "notRequested"}
    BY <1>1, <1>14 DEF Sound
  <2> QED BY <1>1, <1>6, <1>13, <1>90, <2>1, SoundFlags
<1> QED BY <1>6, <1>10, <1>14, <1>16, <1>17, <1>80, <1>90, ClientTurns

LEMMA StartByServer ==
    ASSUME NEW c, NEW s, NEW qc, NEW qs, NEW nc, NEW ns, NEW gc, NEW gs,
           NEW rc, NEW wc, NEW rs, NEW ws, NEW kc, NEW ks, NEW d,
           Stands(c, s, qc, qs, nc, ns, gc, gs, rc, wc, rs, ws, kc, ks, d),
           Start("server")
    PROVE  Inv'
<1>1. /\ conn = Two(c, s) /\ inbox = Two(qc, qs) /\ sent = Two(nc, ns) /\ read = Two(gc, gs)
      /\ opt \in OptionRecord /\ opt.ver = 13 /\ calls \in Nat /\ calls <= opt.calls
      /\ nc \in Nat /\ ns \in Nat /\ gc \in Nat /\ gs \in Nat
      /\ kc \in Nat /\ ks \in Nat /\ d \in Nat /\ gs = GivenData(rs, d)
      /\ Sound(c, "client") /\ Sound(s, "server") /\ ReadsOn(c, qc) /\ ReadsOn(s, qs)
  BY DEF Stands
<1>2. ClientStage(c, rc, wc, nc) /\ ServerStage(s, rs, ws)
  BY DEF Stands
<1>3. Path("server", At(rs, s.rk[3], d, ks - Asked(s)), qs, At(wc, c.wk[3], nc, kc - Answered(c)))
  BY DEF Stands
<1>4. Path("client", At(rc, c.rk[3], gc, kc), qc, At(ws, s.wk[3], ns, ks))
  BY DEF Stands
<1>5. conn["client"] = c /\ conn["server"] = s /\ inbox["client"] = qc /\ inbox["server"] = qs
  BY <1>1, TwoIs
<1>6. /\ s.flow = "UNINITED" /\ opt' = opt /\ inbox' = inbox /\ calls' = calls
      /\ sent' = sent /\ read' = read
  BY <1>5 DEF Start
<1>7. PICK v : v = (IF opt.readEarly THEN "accepting" ELSE "none")
  OBVIOUS
<1>8. PICK h, g : h = (IF "server" = "client" THEN FALSE ELSE s.hit) /\
                  g = (IF "server" = "client" \/ ~FirstHandshake(s) THEN "none" ELSE s.certReq)
  OBVIOUS
<1>9. PICK e : e = [s EXCEPT !.tr = <<>>, !.hit = h, !.certReq = g, !.flow = "WRITING", !.ed = v]
  OBVIOUS
<1>10. conn' = Two(c, e)
  <2>1. [SetUp(s, "server") EXCEPT !.flow = "WRITING", !.ed = v] = e
    BY <1>8, <1>9 DEF SetUp
  <2>2. conn' = [Two(c, s) EXCEPT !["server"] = [SetUp(s, "server") EXCEPT !.flow = "WRITING", !.ed = v]]
    BY <1>1, <1>5, <1>7 DEF Start
  <2>3. conn' = [Two(c, s) EXCEPT !["server"] = e]
    BY <2>1, <2>2
  <2> QED BY <2>3 DEF Two, Role
<1>11. ServerFirst(s, rs, ws) /\ s.st = "BEFORE"
  BY <1>2, <1>6 DEF ServerStage, ServerFirst, ServerRetried, ServerWrites, ServerReads, ServerDone
<1>12. PICK S : S = {"tr", "hit", "certReq", "flow", "ed"}
  OBVIOUS
<1>13. Same(s, e, S) /\ S \cap {"err", "sched", "sentTickets", "extraTickets"} = {}
  BY <1>1, <1>9, <1>12, FieldsAre DEF Same, Sound
<1>14. /\ e.st = s.st /\ e.inInit = s.inInit /\ e.v13 = s.v13 /\ e.finSent = s.finSent
       /\ e.finRead = s.finRead /\ e.hrr = s.hrr /\ e.early = s.early /\ e.peerCert = s.peerCert
       /\ e.pha = s.pha /\ e.rk = s.rk /\ e.wk = s.wk /\ e.hsTr = s.hsTr
       /\ e.sfTr = s.sfTr /\ e.phaTr = s.phaTr /\ e.keyUpdate = s.keyUpdate /\ e.extraTickets = s.extraTickets
       /\ e.reneg = s.reneg
  BY <1>12, <1>13, FieldsAre DEF Same
<1>15. e.tr = <<>> /\ e.certReq = g /\ e.flow = "WRITING" /\ e.ed = v
  BY <1>1, <1>9, FieldsAre DEF Sound
<1>16. g = "none"
  BY <1>8, <1>11 DEF ServerFirst
<1>17. ServerFirst(e, rs, ws)
  BY <1>7, <1>11, <1>14, <1>15, <1>16 DEF ServerFirst, ServerStarts
<1>18. ServerStage(e, rs, ws)
  BY <1>17 DEF ServerStage
<1>19. ReadsOn(e, qs) /\ Asked(e) = Asked(s)
  BY <1>11, <1>14 DEF ReadsOn, Asked
<1>90. calls' \in Nat /\ calls <= calls' /\ calls' <= opt.calls
  BY <1>1, <1>6
<1>80. Sound(e, "server")'
  <2>1. ~e.reneg /\ e.keyUpdate \in {"none", "requested", "notRequested"}
    BY <1>1, <1>14 DEF Sound
  <2> QED BY <1>1, <1>6, <1>13, <1>90, <2>1, SoundFlags
<1> QED BY <1>6, <1>10, <1>14, <1>18, <1>19, <1>80, <1>90, ServerTurns

LEMMA EnterByServer ==
    ASSUME NEW c, NEW s, NEW qc, NEW qs, NEW nc, NEW ns, NEW gc, NEW gs,
           NEW rc, NEW wc, NEW rs, NEW ws, NEW kc, NEW ks, NEW d,
           Stands(c, s, qc, qs, nc, ns, gc, gs, rc, wc, rs, ws, kc, ks, d),
           Enter("server")
    PROVE  Inv'
<1>1. /\ conn = Two(c, s) /\ inbox = Two(qc, qs) /\ sent = Two(nc, ns) /\ read = Two(gc, gs)
      /\ opt \in OptionRecord /\ opt.ver = 13 /\ calls \in Nat /\ calls <= opt.calls
      /\ nc \in Nat /\ ns \in Nat /\ gc \in Nat /\ gs \in Nat
      /\ kc \in Nat /\ ks \in Nat /\ d \in Nat /\ gs = GivenData(rs, d)
      /\ Sound(c, "client") /\ Sound(s, "server") /\ ReadsOn(c, qc) /\ ReadsOn(s, qs)
  BY DEF Stands
<1>2. ClientStage(c, rc, wc, nc) /\ ServerStage(s, rs, ws)
  BY DEF Stands
<1>3. Path("server", At(rs, s.rk[3], d, ks - Asked(s)), qs, At(wc, c.wk[3], nc, kc - Answered(c)))
  BY DEF Stands
<1>4. Path("client", At(rc, c.rk[3], gc, kc), qc, At(ws, s.wk[3], ns, ks))
  BY DEF Stands
<1>5. conn["client"] = c /\ conn["server"] = s /\ inbox["client"] = qc /\ inbox["server"] = qs
  BY <1>1, TwoIs
<1>6. /\ s.flow = "FINISHED" /\ s.inInit /\ opt' = opt /\ inbox' = inbox /\ calls' = calls
      /\ sent' = sent /\ read' = read
  BY <1>5 DEF Enter
<1>7. ~s.reneg
  BY <1>1 DEF Sound
<1>8. PICK e : e = [s EXCEPT !.flow = "WRITING"]
  OBVIOUS
<1>9. conn' = [Two(c, s) EXCEPT !["server"] = e]
  BY <1>1, <1>5, <1>7, <1>8 DEF Enter
<1>10. conn' = Two(c, e)
  BY <1>9 DEF Two, Role
<1>12. PICK S : S = {"flow"}
  OBVIOUS
<1>13. Same(s, e, S) /\ S \cap {"err", "sched", "sentTickets", "extraTickets"} = {}
  BY <1>1, <1>8, <1>12, FieldsAre DEF Same, Sound
<1>14. /\ e.st = s.st /\ e.inInit = s.inInit /\ e.v13 = s.v13 /\ e.finSent = s.finSent
       /\ e.finRead = s.finRead /\ e.hit = s.hit /\ e.hrr = s.hrr /\ e.early = s.early
       /\ e.ed = s.ed /\ e.certReq = s.certReq /\ e.peerCert = s.peerCert /\ e.pha = s.pha
       /\ e.rk = s.rk /\ e.wk = s.wk /\ e.tr = s.tr /\ e.hsTr = s.hsTr
       /\ e.sfTr = s.sfTr /\ e.phaTr = s.phaTr /\ e.keyUpdate = s.keyUpdate /\ e.extraTickets = s.extraTickets
       /\ e.reneg = s.reneg
  BY <1>12, <1>13, FieldsAre DEF Same
<1>15. e.flow = "WRITING"
  BY <1>1, <1>8, FieldsAre DEF Sound
<1>16. ServerStage(e, rs, ws)
  <2>1. CASE ServerFirst(s, rs, ws)
    <3>1. ServerFirst(e, rs, ws)
      BY <1>6, <1>14, <1>15, <2>1 DEF ServerFirst
    <3> QED BY <3>1 DEF ServerStage
  <2>2. CASE ServerReads(s, rs, ws)
    <3>1. ServerReads(e, rs, ws)
      BY <1>6, <1>14, <1>15, <2>2 DEF ServerReads, Server13
    <3> QED BY <3>1 DEF ServerStage
  <2>3. CASE ServerDone(s, rs, ws)
    <3>1. ServerDone(e, rs, ws)
      BY <1>6, <1>14, <1>15, <2>3 DEF ServerDone, AboutToAsk
    <3> QED BY <3>1 DEF ServerStage
  <2> QED BY <1>2, <1>6, <2>1, <2>2, <2>3 DEF ServerStage, ServerRetried, ServerWrites
<1>17. ReadsOn(e, qs) /\ Asked(e) = Asked(s)
  BY <1>1, <1>6, <1>14, <1>15 DEF ReadsOn, Reason, Asked
<1>90. calls' \in Nat /\ calls <= calls' /\ calls' <= opt.calls
  BY <1>1, <1>6
<1>80. Sound(e, "server")'
  <2>1. ~e.reneg /\ e.keyUpdate \in {"none", "requested", "notRequested"}
    BY <1>1, <1>14 DEF Sound
  <2> QED BY <1>1, <1>6, <1>13, <1>90, <2>1, SoundFlags
<1> QED BY <1>6, <1>10, <1>14, <1>16, <1>17, <1>80, <1>90, ServerTurns

LEMMA EndByClient ==
    ASSUME NEW c, NEW s, NEW qc, NEW qs, NEW nc, NEW ns, NEW gc, NEW gs,
           NEW rc, NEW wc, NEW rs, NEW ws, NEW kc, NEW ks, NEW d,
           Stands(c, s, qc, qs, nc, ns, gc, gs, rc, wc, rs, ws, kc, ks, d),
           EndEarlyData
    PROVE  Inv'
<1>1. /\ conn = Two(c, s) /\ inbox = Two(qc, qs) /\ sent = Two(nc, ns) /\ read = Two(gc, gs)
      /\ opt \in OptionRecord /\ opt.ver = 13 /\ calls \in Nat /\ calls <= opt.calls
      /\ nc \in Nat /\ ns \in Nat /\ gc \in Nat /\ gs \in Nat
      /\ kc \in Nat /\ ks \in Nat /\ d \in Nat /\ gs = GivenData(rs, d)
      /\ Sound(c, "client") /\ Sound(s, "server") /\ ReadsOn(c, qc) /\ ReadsOn(s, qs)
  BY DEF Stands
<1>2. ClientStage(c, rc, wc, nc) /\ ServerStage(s, rs, ws)
  BY DEF Stands
<1>3. Path("server", At(rs, s.rk[3], d, ks - Asked(s)), qs, At(wc, c.wk[3], nc, kc - Answered(c)))
  BY DEF Stands
<1>4. Path("client", At(rc, c.rk[3], gc, kc), qc, At(ws, s.wk[3], ns, ks))
  BY DEF Stands
<1>5. conn["client"] = c /\ conn["server"] = s /\ inbox["client"] = qc /\ inbox["server"] = qs
  BY <1>1, TwoIs
<1>6. /\ c.flow = "FINISHED" /\ c.st = "EARLY_DATA" /\ nc = opt.early
      /\ opt' = opt /\ inbox' = inbox /\ calls' = calls /\ sent' = sent /\ read' = read
  <2>1. sent["client"] = nc
    BY <1>1, TwoIs
  <2> QED BY <1>5, <2>1 DEF EndEarlyData
<1>8. PICK e : e = [c EXCEPT !.ed = "finishedWriting", !.inInit = TRUE]
  OBVIOUS
<1>9. conn' = [conn EXCEPT !["client"].ed = "finishedWriting", !["client"].inInit = TRUE]
  BY DEF EndEarlyData
<1>10. conn' = Two(e, s)
  BY <1>1, <1>8, <1>9 DEF Two, Role
<1>11. ClientFirst(c, rc, wc, nc)
  BY <1>2, <1>6 DEF ClientStage, ClientRetry, ClientReads, ClientAnswers, ClientDone
<1>12. PICK S : S = {"ed", "inInit"}
  OBVIOUS
<1>13. Same(c, e, S) /\ S \cap {"err", "sched", "sentTickets", "extraTickets"} = {}
  BY <1>1, <1>8, <1>12, FieldsAre DEF Same, Sound
<1>14. /\ e.st = c.st /\ e.flow = c.flow /\ e.v13 = c.v13 /\ e.finSent = c.finSent
       /\ e.finRead = c.finRead /\ e.hit = c.hit /\ e.hrr = c.hrr /\ e.early = c.early
       /\ e.certReq = c.certReq /\ e.peerCert = c.peerCert /\ e.pha = c.pha /\ e.rk = c.rk
       /\ e.wk = c.wk /\ e.tr = c.tr /\ e.hsTr = c.hsTr /\ e.sfTr = c.sfTr
       /\ e.phaTr = c.phaTr /\ e.keyUpdate = c.keyUpdate /\ e.extraTickets = c.extraTickets /\ e.reneg = c.reneg
  BY <1>12, <1>13, FieldsAre DEF Same
<1>15. e.ed = "finishedWriting"
  BY <1>1, <1>8, FieldsAre DEF Sound
<1>16. ClientFirst(e, rc, wc, nc)
  BY <1>6, <1>11, <1>14, <1>15 DEF ClientFirst, ClientHelloing
<1>17. ReadsOn(e, qc) /\ Answered(e) = Answered(c) /\ ClientStage(e, rc, wc, nc)
  BY <1>6, <1>14, <1>15, <1>16 DEF ReadsOn, Answered, ClientStage
<1>90. calls' \in Nat /\ calls <= calls' /\ calls' <= opt.calls
  BY <1>1, <1>6
<1>80. Sound(e, "client")'
  <2>1. ~e.reneg /\ e.keyUpdate \in {"none", "requested", "notRequested"}
    BY <1>1, <1>14 DEF Sound
  <2> QED BY <1>1, <1>6, <1>13, <1>90, <2>1, SoundFlags
<1> QED BY <1>6, <1>10, <1>14, <1>17, <1>80, <1>90, ClientTurns

LEMMA ReadEarlyByServer ==
    ASSUME NEW c, NEW s, NEW qc, NEW qs, NEW nc, NEW ns, NEW gc, NEW gs,
           NEW rc, NEW wc, NEW rs, NEW ws, NEW kc, NEW ks, NEW d,
           Stands(c, s, qc, qs, nc, ns, gc, gs, rc, wc, rs, ws, kc, ks, d),
           ReadEarlyData
    PROVE  Inv'
<1>1. /\ conn = Two(c, s) /\ inbox = Two(qc, qs) /\ sent = Two(nc, ns) /\ read = Two(gc, gs)
      /\ opt \in OptionRecord /\ opt.ver = 13 /\ calls \in Nat /\ calls <= opt.calls
      /\ nc \in Nat /\ ns \in Nat /\ gc \in Nat /\ gs \in Nat
      /\ kc \in Nat /\ ks \in Nat /\ d \in Nat /\ gs = GivenData(rs, d)
      /\ Sound(c, "client") /\ Sound(s, "server") /\ ReadsOn(c, qc) /\ ReadsOn(s, qs)
  BY DEF Stands
<1>2. ClientStage(c, rc, wc, nc) /\ ServerStage(s, rs, ws)
  BY DEF Stands
<1>3. Path("server", At(rs, s.rk[3], d, ks - Asked(s)), qs, At(wc, c.wk[3], nc, kc - Answered(c)))
  BY DEF Stands
<1>4. Path("client", At(rc, c.rk[3], gc, kc), qc, At(ws, s.wk[3], ns, ks))
  BY DEF Stands
<1>5. conn["client"] = c /\ conn["server"] = s /\ inbox["client"] = qc /\ inbox["server"] = qs
  BY <1>1, TwoIs
<1>6. /\ s.flow = "FINISHED" /\ s.st = "EARLY_DATA" /\ s.ed = "accepting"
      /\ opt' = opt /\ inbox' = inbox /\ calls' = calls /\ sent' = sent /\ read' = read
  BY <1>5 DEF ReadEarlyData
<1>7. PICK v, i : v = (IF s.early = "accepted" THEN "reading" ELSE "finishedReading") /\
                  i = (IF s.early = "accepted" THEN s.inInit ELSE TRUE)
  OBVIOUS
<1>8. PICK e : e = (IF s.early = "accepted" THEN [s EXCEPT !.ed = "reading"]
                    ELSE [s EXCEPT !.ed = "finishedReading", !.inInit = TRUE])
  OBVIOUS
<1>9. conn' = [Two(c, s) EXCEPT !["server"] = e]
  BY <1>1, <1>5, <1>8 DEF ReadEarlyData
<1>10. conn' = Two(c, e)
  BY <1>9 DEF Two, Role
<1>12. PICK S : S = {"ed", "inInit"}
  OBVIOUS
<1>13. Same(s, e, S) /\ S \cap {"err", "sched", "sentTickets", "extraTickets"} = {}
  BY <1>1, <1>8, <1>12, FieldsAre DEF Same, Sound
<1>14. /\ e.st = s.st /\ e.flow = s.flow /\ e.v13 = s.v13 /\ e.finSent = s.finSent
       /\ e.finRead = s.finRead /\ e.hit = s.hit /\ e.hrr = s.hrr /\ e.early = s.early
       /\ e.certReq = s.certReq /\ e.peerCert = s.peerCert /\ e.pha = s.pha /\ e.rk = s.rk
       /\ e.wk = s.wk /\ e.tr = s.tr /\ e.hsTr = s.hsTr /\ e.sfTr = s.sfTr
       /\ e.phaTr = s.phaTr /\ e.keyUpdate = s.keyUpdate /\ e.extraTickets = s.extraTickets /\ e.reneg = s.reneg
  BY <1>12, <1>13, FieldsAre DEF Same
<1>15. e.ed = v /\ (s.early = "accepted" => e.inInit = s.inInit)
  BY <1>1, <1>7, <1>8, FieldsAre DEF Sound
<1>16. s.early = Fate /\ opt.readEarly /\ ~s.inInit /\ (s.early = "accepted" <=> Accepted)
  <2>1. s.early = Fate /\ opt.readEarly /\ ~s.inInit
    BY <1>2, <1>6 DEF ServerStage, ServerFirst, ServerRetried, ServerWrites, ServerReads, Server13, ServerDone, ReadEarly
  <2> QED BY <2>1 DEF Fate, Offered
<1>17. ServerStage(e, rs, ws)
  <2>1. CASE ServerFirst(s, rs, ws)
    <3>1. ~Accepted
      BY <1>6, <2>1 DEF ServerFirst, Accepted
    <3>2. ServerFirst(e, rs, ws)
      BY <1>6, <1>7, <1>14, <1>15, <1>16, <2>1, <3>1 DEF ServerFirst, ReadEarly
    <3> QED BY <3>2 DEF ServerStage
  <2>2. CASE ServerReads(s, rs, ws)
    <3>1. ServerReads(e, rs, ws)
      BY <1>6, <1>7, <1>14, <1>15, <1>16, <2>2 DEF ServerReads, Server13, ReadEarly
    <3> QED BY <3>1 DEF ServerStage
  <2> QED BY <1>2, <1>6, <2>1, <2>2 DEF ServerStage, ServerRetried, ServerWrites, ServerDone
<1>18. ReadsOn(e, qs) /\ Asked(e) = Asked(s)
  BY <1>6, <1>7, <1>14, <1>15, <1>16 DEF ReadsOn, Asked
<1>90. calls' \in Nat /\ calls <= calls' /\ calls' <= opt.calls
  BY <1>1, <1>6
<1>80. Sound(e, "server")'
  <2>1. ~e.reneg /\ e.keyUpdate \in {"none", "requested", "notRequested"}
    BY <1>1, <1>14 DEF Sound
  <2> QED BY <1>1, <1>6, <1>13, <1>90, <2>1, SoundFlags
<1> QED BY <1>6, <1>10, <1>14, <1>17, <1>18, <1>80, <1>90, ServerTurns

LEMMA WriteEarlyByClient ==
    ASSUME NEW c, NEW s, NEW qc, NEW qs, NEW nc, NEW ns, NEW gc, NEW gs,
           NEW rc, NEW wc, NEW rs, NEW ws, NEW kc, NEW ks, NEW d,
           Stands(c, s, qc, qs, nc, ns, gc, gs, rc, wc, rs, ws, kc, ks, d),
           WriteEarlyData
    PROVE  Inv'
<1>1. /\ conn = Two(c, s) /\ inbox = Two(qc, qs) /\ sent = Two(nc, ns) /\ read = Two(gc, gs)
      /\ opt \in OptionRecord /\ opt.ver = 13 /\ calls \in Nat /\ calls <= opt.calls
      /\ nc \in Nat /\ ns \in Nat /\ gc \in Nat /\ gs \in Nat
      /\ kc \in Nat /\ ks \in Nat /\ d \in Nat /\ gs = GivenData(rs, d)
      /\ Sound(c, "client") /\ Sound(s, "server") /\ ReadsOn(c, qc) /\ ReadsOn(s, qs)
  BY DEF Stands
<1>2. ClientStage(c, rc, wc, nc) /\ ServerStage(s, rs, ws)
  BY DEF Stands
<1>3. Path("server", At(rs, s.rk[3], d, ks - Asked(s)), qs, At(wc, c.wk[3], nc, kc - Answered(c)))
  BY DEF Stands
<1>4. Path("client", At(rc, c.rk[3], gc, kc), qc, At(ws, s.wk[3], ns, ks))
  BY DEF Stands
<1>5. conn["client"] = c /\ conn["server"] = s /\ inbox["client"] = qc /\ inbox["server"] = qs
  BY <1>1, TwoIs
<1>6. /\ c.flow = "FINISHED" /\ c.st = "EARLY_DATA" /\ c.ed \in {"connecting", "writeRetry"}
      /\ nc < opt.early /\ opt' = opt /\ calls' = calls /\ read' = read
  <2>1. sent["client"] = nc
    BY <1>1, TwoIs
  <2> QED BY <1>5, <2>1 DEF WriteEarlyData
<1>7. PICK m : m = [mt |-> "DATA", key |-> c.wk]
  OBVIOUS
<1>8. PICK e : e = [c EXCEPT !.ed = "writeRetry"]
  OBVIOUS
<1>9. PICK q2 : q2 = Append(qs, m)
  OBVIOUS
<1>10. /\ conn' = [conn EXCEPT !["client"].ed = "writeRetry"]
       /\ inbox' = [inbox EXCEPT !["server"] = Append(inbox["server"], m)]
       /\ sent' = [sent EXCEPT !["client"] = @ + 1]
  BY <1>5, <1>7 DEF WriteEarlyData, Sending, Peer
<1>11. conn' = Two(e, s) /\ sent' = Two(nc + 1, ns)
  BY <1>1, <1>8, <1>10 DEF Two, Role
<1>12. inbox' = Two(qc, q2)
  <2>1. inbox' = [Two(qc, qs) EXCEPT !["server"] = q2]
    BY <1>1, <1>5, <1>9, <1>10
  <2> QED BY <2>1 DEF Two, Role
<1>13. Same(c, e, {"ed"})
  BY <1>1, <1>8, FieldsAre DEF Same, Sound
<1>14. /\ e.st = c.st /\ e.flow = c.flow /\ e.inInit = c.inInit /\ e.v13 = c.v13
       /\ e.finSent = c.finSent /\ e.finRead = c.finRead /\ e.hit = c.hit /\ e.hrr = c.hrr
       /\ e.early = c.early /\ e.certReq = c.certReq /\ e.peerCert = c.peerCert /\ e.pha = c.pha
       /\ e.rk = c.rk /\ e.wk = c.wk /\ e.tr = c.tr /\ e.hsTr = c.hsTr
       /\ e.sfTr = c.sfTr /\ e.phaTr = c.phaTr /\ e.keyUpdate = c.keyUpdate /\ e.extraTickets = c.extraTickets
       /\ e.reneg = c.reneg
  BY <1>13, FieldsAre DEF Same
<1>15. e.ed = "writeRetry"
  BY <1>1, <1>8, FieldsAre DEF Sound
<1>16. ClientFirst(c, rc, wc, nc)
  BY <1>2, <1>6 DEF ClientStage, ClientRetry, ClientReads, ClientAnswers, ClientDone
<1>17. wc = AfterHello /\ c.wk = KE /\ Early /\ ~c.inInit
  BY <1>6, <1>16 DEF ClientFirst
<1>18. opt.early \in Nat
  BY <1>1 DEF OptionRecord
<1>19. nc + 1 \in Nat /\ nc + 1 <= opt.early
  BY <1>1, <1>6, <1>18
<1>20. ClientFirst(e, rc, wc, nc + 1)
  BY <1>6, <1>14, <1>15, <1>16, <1>19 DEF ClientFirst, ClientHelloing
<1>21. m.mt = "DATA" /\ m.key = KE
  BY <1>7, <1>17
<1>22. PICK a, b, u, k : /\ u = c.wk[3] /\ k = kc - Answered(c)
                         /\ a = At(wc, u, nc, k) /\ b = At(wc, u, nc + 1, k)
  OBVIOUS
<1>23. a.at = AfterHello /\ b = [a EXCEPT !.d = @ + 1]
  BY <1>17, <1>22 DEF At
<1>24. Arrives("server", a, m, b)
  BY <1>17, <1>21, <1>23 DEF Arrives, ToServer
<1>25. Path("server", At(rs, s.rk[3], d, ks - Asked(s)), qs, a)
  BY <1>3, <1>22
<1>26. "server" \in Role
  BY DEF Role
<1>27. Path("server", At(rs, s.rk[3], d, ks - Asked(s)), q2, b)
  BY <1>9, <1>24, <1>25, <1>26, PathPush
<1>28. Answered(e) = Answered(c) /\ ReadsOn(e, qc) /\ ClientStage(e, rc, wc, nc + 1)
  BY <1>6, <1>14, <1>15, <1>20 DEF Answered, ReadsOn, ClientStage
<1>29. Path("server", At(rs, s.rk[3], d, ks - Asked(s)), q2, At(wc, e.wk[3], nc + 1, kc - Answered(e)))
  BY <1>14, <1>22, <1>27, <1>28
<1>30. Path("client", At(rc, e.rk[3], gc, kc), qc, At(ws, s.wk[3], ns, ks))
  BY <1>4, <1>14
<1>31. Together(e, s, qc, q2, nc + 1, ns, gc, gs)
  BY <1>1, <1>2, <1>28, <1>29, <1>30, Joined
<1>32. ReadsOn(s, q2)
  BY <1>1, <1>3, <1>9, ReadsOnAppend
<1>33. Leads(e, s, qc, q2, nc + 1, ns, gc, gs)
  BY <1>1, <1>6, <1>11, <1>12, <1>19, <1>28, <1>31, <1>32 DEF Leads
<1>34. Sound(e, "client")
  <2>1. PICK S : S = {"ed"}
    OBVIOUS
  <2>2. Same(c, e, S) /\ S \cap {"err", "sched", "sentTickets", "extraTickets"} = {}
    BY <1>13, <2>1
  <2>3. ~e.reneg /\ e.keyUpdate \in {"none", "requested", "notRequested"}
    BY <1>1, <1>14 DEF Sound
  <2> QED BY <1>1, <2>2, <2>3, SoundKept
<1> QED BY <1>1, <1>6, <1>33, <1>34, LeadsStep


\* SSL_read() outside a handshake, taken apart.
LEMMA ReadAppTakenApart ==
    ASSUME NEW r \in Role, ReadApp(r), NEW c, c = conn[r], NEW m, m = Head(inbox[r])
    PROVE  /\ IgnoresCcs(c, m) =>
                 conn' = conn /\ inbox' = [inbox EXCEPT ![r] = Tail(inbox[r])] /\ read' = read
           /\ ~IgnoresCcs(c, m) /\ m.key = c.rk /\ m.mt = "DATA" =>
                 /\ conn' = conn /\ inbox' = [inbox EXCEPT ![r] = Tail(inbox[r])]
                 /\ read' = [read EXCEPT ![r] = read[r] + 1]
           /\ ~IgnoresCcs(c, m) /\ m.key = c.rk /\ m.mt \notin {"DATA", "CCS", "ALERT"} =>
                 conn' = [conn EXCEPT ![r].inInit = TRUE] /\ inbox' = inbox /\ read' = read
<1>1. CASE IgnoresCcs(c, m)
  <2>1. m.mt # "DATA"
    BY <1>1 DEF IgnoresCcs
  <2> QED BY <1>1, <2>1, Zenon DEF ReadApp, Popped
<1>2. CASE ~IgnoresCcs(c, m) /\ m.key = c.rk /\ m.mt = "DATA"
  <2>1. m.mt \notin {"CCS", "ALERT"}
    BY <1>2
  <2> QED BY <1>2, <2>1, Zenon DEF ReadApp, Popped
<1>3. CASE ~IgnoresCcs(c, m) /\ m.key = c.rk /\ m.mt \notin {"DATA", "CCS", "ALERT"}
  <2>1. m.mt # "DATA" /\ m.mt \notin {"CCS", "ALERT"}
    BY <1>3
  <2> QED BY <1>3, <2>1, Zenon DEF ReadApp, Popped
<1> QED BY <1>1, <1>2, <1>3

LEMMA ReadAppByClient ==
    ASSUME NEW c, NEW s, NEW qc, NEW qs, NEW nc, NEW ns, NEW gc, NEW gs,
           NEW rc, NEW wc, NEW rs, NEW ws, NEW kc, NEW ks, NEW d,
           Stands(c, s, qc, qs, nc, ns, gc, gs, rc, wc, rs, ws, kc, ks, d),
           ReadApp("client")
    PROVE  Inv'
<1>1. /\ conn = Two(c, s) /\ inbox = Two(qc, qs) /\ sent = Two(nc, ns) /\ read = Two(gc, gs)
      /\ opt \in OptionRecord /\ opt.ver = 13 /\ calls \in Nat /\ calls <= opt.calls
      /\ nc \in Nat /\ ns \in Nat /\ gc \in Nat /\ gs \in Nat
      /\ kc \in Nat /\ ks \in Nat /\ d \in Nat /\ gs = GivenData(rs, d)
      /\ Sound(c, "client") /\ Sound(s, "server") /\ ReadsOn(c, qc) /\ ReadsOn(s, qs)
  BY DEF Stands
<1>2. ClientStage(c, rc, wc, nc) /\ ServerStage(s, rs, ws)
  BY DEF Stands
<1>3. Path("server", At(rs, s.rk[3], d, ks - Asked(s)), qs, At(wc, c.wk[3], nc, kc - Answered(c)))
  BY DEF Stands
<1>4. Path("client", At(rc, c.rk[3], gc, kc), qc, At(ws, s.wk[3], ns, ks))
  BY DEF Stands
<1>5. conn["client"] = c /\ conn["server"] = s /\ inbox["client"] = qc /\ inbox["server"] = qs
  BY <1>1, TwoIs
<1>6. /\ c.flow = "FINISHED" /\ ~c.inInit /\ qc # <<>> /\ (c.st = "OK" \/ c.ed = "reading")
      /\ opt' = opt /\ calls' = calls /\ sent' = sent
  BY <1>5 DEF ReadApp
<1>7. c.st = "OK"
  BY <1>2, <1>6 DEF ClientStage, ClientFirst, ClientRetry, ClientReads, ClientAnswers, ClientDone
<1>8. "client" \in Role /\ "server" \in Role
  BY DEF Role
<1>9. PICK m : m = Head(qc)
  OBVIOUS
<1>10. PICK a, w : a = At(rc, c.rk[3], gc, kc) /\ w = At(ws, s.wk[3], ns, ks)
  OBVIOUS
<1>11. PICK b : Arrives("client", a, m, b) /\ Path("client", b, Tail(qc), w)
  BY <1>4, <1>6, <1>8, <1>9, <1>10, PathPop
<1>12. ToClient(a, m, b)
  BY <1>11 DEF Arrives
<1>13. ClientDone(c, rc, wc) /\ rc = "ok" /\ c.rk = KA(c.rk[3])
  BY <1>2, <1>7, ClientIsDone
<1>14. a.at = "ok" /\ a.ku = c.rk[3]
  BY <1>10, <1>13 DEF At
<1>15. m.key = KA(a.ku) /\ m.mt \in {"DATA", "NST", "KU", "CR"} /\ (m.mt = "DATA" => b = [a EXCEPT !.d = @ + 1])
  BY <1>12, <1>14 DEF ToClient
<1>16. ~IgnoresCcs(c, m) /\ m.key = c.rk
  BY <1>13, <1>14, <1>15 DEF IgnoresCcs
<1>17. CASE m.mt = "DATA"
  <2>1. /\ conn' = conn /\ inbox' = [inbox EXCEPT !["client"] = Tail(inbox["client"])]
        /\ read' = [read EXCEPT !["client"] = read["client"] + 1]
    BY <1>5, <1>8, <1>9, <1>16, <1>17, ReadAppTakenApart
  <2>2. inbox' = Two(Tail(qc), qs)
    <3>1. PICK p : p = Tail(qc)
      OBVIOUS
    <3>2. inbox' = [Two(qc, qs) EXCEPT !["client"] = p]
      BY <1>1, <1>5, <2>1, <3>1
    <3>3. inbox' = Two(p, qs)
      BY <3>2 DEF Two, Role
    <3> QED BY <3>1, <3>3
  <2>3. read' = Two(gc + 1, gs)
    BY <1>1, <2>1 DEF Two, Role
  <2>4. b = At(rc, c.rk[3], gc + 1, kc)
    BY <1>10, <1>15, <1>17 DEF At
  <2>5. Path("client", At(rc, c.rk[3], gc + 1, kc), Tail(qc), At(ws, s.wk[3], ns, ks))
    BY <1>10, <1>11, <2>4
  <2>6. gc + 1 \in Nat
    BY <1>1
  <2>7. Together(c, s, Tail(qc), qs, nc, ns, gc + 1, gs)
    BY <1>1, <1>2, <1>3, <2>5, <2>6, Joined
  <2>8. ReadsOn(c, Tail(qc))
    BY <1>6, <1>7 DEF ReadsOn
  <2>9. Leads(c, s, Tail(qc), qs, nc, ns, gc + 1, gs)
    BY <1>1, <1>6, <2>1, <2>2, <2>3, <2>6, <2>7, <2>8 DEF Leads
  <2> QED BY <1>1, <1>6, <2>9, LeadsStep
<1>18. CASE m.mt # "DATA"
  <2>1. conn' = [conn EXCEPT !["client"].inInit = TRUE] /\ inbox' = inbox /\ read' = read
    BY <1>5, <1>8, <1>9, <1>15, <1>16, <1>18, ReadAppTakenApart
  <2>2. PICK e : e = [c EXCEPT !.inInit = TRUE]
    OBVIOUS
  <2>3. conn' = Two(e, s)
    BY <1>1, <2>1, <2>2 DEF Two, Role
  <2>4. PICK S : S = {"inInit"}
    OBVIOUS
  <2>5. Same(c, e, S) /\ S \cap {"err", "sched", "sentTickets", "extraTickets"} = {}
    BY <1>1, <2>2, <2>4, FieldsAre DEF Same, Sound
  <2>6. Same(c, e, Flags) /\ e.keyUpdate = c.keyUpdate
    BY <2>4, <2>5, FieldsAre DEF Same, Flags
  <2>7. /\ ClientDone(e, rc, wc) /\ Answered(e) = Answered(c) /\ e.rk = c.rk /\ e.wk = c.wk
        /\ e.st = c.st /\ e.flow = c.flow /\ e.reneg = c.reneg
    BY <1>13, <2>6, ClientDoneKept
  <2>90. calls' \in Nat /\ calls <= calls' /\ calls' <= opt.calls
    BY <1>1, <1>6
  <2>9. Sound(e, "client")'
    <3>1. ~e.reneg /\ e.keyUpdate \in {"none", "requested", "notRequested"}
      BY <1>1, <2>6, <2>7 DEF Sound
    <3> QED BY <1>1, <1>6, <2>5, <2>90, <3>1, SoundFlags
  <2>10. ReadsOn(e, qc)
    <3>1. MessageWaits(qc)
      BY <1>6, <1>9, <1>15, <1>18 DEF MessageWaits
    <3> QED BY <3>1 DEF ReadsOn, Reason
  <2>11. ClientStage(e, rc, wc, nc)
    BY <2>7 DEF ClientStage
  <2> QED BY <1>6, <2>1, <2>3, <2>7, <2>9, <2>10, <2>11, <2>90, ClientTurns
<1> QED BY <1>17, <1>18

\* The server reads data when it is set up and when it takes early data.
LEMMA ServerTakesData ==
    ASSUME NEW c, NEW ra, NEW wa, ServerStage(c, ra, wa), c.flow = "FINISHED",
           c.st = "OK" \/ c.ed = "reading"
    PROVE  \/ ServerDone(c, ra, wa) /\ c.st = "OK" /\ ra = "ok" /\ c.rk = KA(c.rk[3])
           \/ /\ ServerReads(c, ra, wa) /\ c.st = "EARLY_DATA" /\ c.ed = "reading" /\ ra = "early"
              /\ Accepted /\ c.rk = KE /\ c.v13 /\ ~c.finRead
<1>1. CASE c.st = "OK"
  BY <1>1, ServerIsDone
<1>2. CASE c.st # "OK"
  <2>1. ServerReads(c, ra, wa)
    BY <1>2 DEF ServerStage, ServerFirst, ServerRetried, ServerWrites, ServerDone, ReadEarly
  <2> QED BY <1>2, <2>1 DEF ServerReads, Server13, WaitingKey, ReadEarly
<1> QED BY <1>1, <1>2

LEMMA ReadAppByServer ==
    ASSUME NEW c, NEW s, NEW qc, NEW qs, NEW nc, NEW ns, NEW gc, NEW gs,
           NEW rc, NEW wc, NEW rs, NEW ws, NEW kc, NEW ks, NEW d,
           Stands(c, s, qc, qs, nc, ns, gc, gs, rc, wc, rs, ws, kc, ks, d),
           ReadApp("server")
    PROVE  Inv'
<1>1. /\ conn = Two(c, s) /\ inbox = Two(qc, qs) /\ sent = Two(nc, ns) /\ read = Two(gc, gs)
      /\ opt \in OptionRecord /\ opt.ver = 13 /\ calls \in Nat /\ calls <= opt.calls
      /\ nc \in Nat /\ ns \in Nat /\ gc \in Nat /\ gs \in Nat
      /\ kc \in Nat /\ ks \in Nat /\ d \in Nat /\ gs = GivenData(rs, d)
      /\ Sound(c, "client") /\ Sound(s, "server") /\ ReadsOn(c, qc) /\ ReadsOn(s, qs)
  BY DEF Stands
<1>2. ClientStage(c, rc, wc, nc) /\ ServerStage(s, rs, ws)
  BY DEF Stands
<1>3. Path("server", At(rs, s.rk[3], d, ks - Asked(s)), qs, At(wc, c.wk[3], nc, kc - Answered(c)))
  BY DEF Stands
<1>4. Path("client", At(rc, c.rk[3], gc, kc), qc, At(ws, s.wk[3], ns, ks))
  BY DEF Stands
<1>5. conn["client"] = c /\ conn["server"] = s /\ inbox["client"] = qc /\ inbox["server"] = qs
  BY <1>1, TwoIs
<1>6. /\ s.flow = "FINISHED" /\ ~s.inInit /\ qs # <<>> /\ (s.st = "OK" \/ s.ed = "reading")
      /\ opt' = opt /\ calls' = calls /\ sent' = sent
  BY <1>5 DEF ReadApp
<1>7. \/ ServerDone(s, rs, ws) /\ s.st = "OK" /\ rs = "ok" /\ s.rk = KA(s.rk[3])
      \/ /\ ServerReads(s, rs, ws) /\ s.st = "EARLY_DATA" /\ s.ed = "reading" /\ rs = "early"
         /\ Accepted /\ s.rk = KE /\ s.v13 /\ ~s.finRead
  BY <1>2, <1>6, ServerTakesData
<1>8. "client" \in Role /\ "server" \in Role
  BY DEF Role
<1>9. PICK m : m = Head(qs)
  OBVIOUS
<1>10. PICK a, w, k : k = ks - Asked(s) /\ a = At(rs, s.rk[3], d, k) /\ w = At(wc, c.wk[3], nc, kc - Answered(c))
  OBVIOUS
<1>11. PICK b : Arrives("server", a, m, b) /\ Path("server", b, Tail(qs), w)
  BY <1>3, <1>6, <1>8, <1>9, <1>10, PathPop
<1>12. ToServer(a, m, b)
  BY <1>11 DEF Arrives
<1>13. a.at = rs /\ a.ku = s.rk[3]
  BY <1>10 DEF At
<1>14. \/ m.mt = "CCS" /\ b = a /\ IgnoresCcs(s, m)
       \/ m.mt = "DATA" /\ b = [a EXCEPT !.d = @ + 1] /\ m.key = s.rk
       \/ m.mt \in {"EOED", "KU", "CERT"} /\ m.key = s.rk
  <2>1. CASE rs = "ok"
    <3>1. s.rk = KA(a.ku)
      BY <1>7, <1>13, <2>1
    <3>2. AfterHello # "ok" /\ Answering # "ok"
      BY DEF AfterHello, Answering
    <3> QED BY <1>12, <1>13, <2>1, <3>1, <3>2 DEF ToServer
  <2>2. CASE rs = "early"
    <3>1. Accepted /\ s.rk = KE /\ s.v13 /\ ~s.finRead
      BY <1>7, <2>2
    <3>2. Answering = "answer"
      BY <3>1 DEF Answering
    <3>3. /\ m.mt = "CCS" => b = a
          /\ m.mt \in {"CCS", "DATA", "EOED"}
          /\ m.mt = "DATA" => b = [a EXCEPT !.d = @ + 1] /\ m.key = KE
          /\ m.mt = "EOED" => m.key = KE
      BY <1>12, <1>13, <2>2, <3>1, <3>2 DEF ToServer
    <3>4. m.mt = "CCS" => IgnoresCcs(s, m)
      BY <3>1 DEF IgnoresCcs, FirstHandshake
    <3> QED BY <3>1, <3>3, <3>4
  <2> QED BY <1>7, <2>1, <2>2
<1>15. m.mt # "CCS" => ~IgnoresCcs(s, m)
  BY DEF IgnoresCcs
<1>16. CASE m.mt = "CCS"
  <2>1. /\ conn' = conn /\ inbox' = [inbox EXCEPT !["server"] = Tail(inbox["server"])]
        /\ read' = read
    BY <1>5, <1>8, <1>9, <1>14, <1>16, ReadAppTakenApart
  <2>2. inbox' = Two(qc, Tail(qs))
    <3>1. PICK p : p = Tail(qs)
      OBVIOUS
    <3>2. inbox' = [Two(qc, qs) EXCEPT !["server"] = p]
      BY <1>1, <1>5, <2>1, <3>1
    <3>3. inbox' = Two(qc, p)
      BY <3>2 DEF Two, Role
    <3> QED BY <3>1, <3>3
  <2>3. Path("server", At(rs, s.rk[3], d, ks - Asked(s)), Tail(qs), At(wc, c.wk[3], nc, kc - Answered(c)))
    BY <1>10, <1>11, <1>14, <1>16
  <2>4. Together(c, s, qc, Tail(qs), nc, ns, gc, gs)
    BY <1>1, <1>2, <1>4, <2>3, Joined
  <2>5. ReadsOn(s, Tail(qs))
    BY <1>1, <1>6, <1>9, <1>16, ReadsOnDrop
  <2>6. Leads(c, s, qc, Tail(qs), nc, ns, gc, gs)
    BY <1>1, <1>6, <2>1, <2>2, <2>4, <2>5 DEF Leads
  <2> QED BY <1>1, <1>6, <2>6, LeadsStep
<1>17. CASE m.mt = "DATA"
  <2>1. /\ conn' = conn /\ inbox' = [inbox EXCEPT !["server"] = Tail(inbox["server"])]
        /\ read' = [read EXCEPT !["server"] = read["server"] + 1]
    BY <1>5, <1>8, <1>9, <1>14, <1>15, <1>17, ReadAppTakenApart
  <2>2. inbox' = Two(qc, Tail(qs))
    <3>1. PICK p : p = Tail(qs)
      OBVIOUS
    <3>2. inbox' = [Two(qc, qs) EXCEPT !["server"] = p]
      BY <1>1, <1>5, <2>1, <3>1
    <3>3. inbox' = Two(qc, p)
      BY <3>2 DEF Two, Role
    <3> QED BY <3>1, <3>3
  <2>3. read' = Two(gc, gs + 1)
    BY <1>1, <2>1 DEF Two, Role
  <2>4. b = At(rs, s.rk[3], d + 1, k)
    BY <1>10, <1>14, <1>17 DEF At
  <2>5. Path("server", At(rs, s.rk[3], d + 1, ks - Asked(s)), Tail(qs), At(wc, c.wk[3], nc, kc - Answered(c)))
    BY <1>10, <1>11, <2>4
  <2>6. gs + 1 \in Nat /\ d + 1 \in Nat
    BY <1>1
  <2>7. gs + 1 = GivenData(rs, d + 1)
    <3>1. opt.early \in Nat
      BY <1>1 DEF OptionRecord
    <3>2. Accepted \/ rs = "ok"
      BY <1>7
    <3> QED BY <1>1, <3>1, <3>2, GivenDataIs
  <2>8. Together(c, s, qc, Tail(qs), nc, ns, gc, gs + 1)
    BY <1>1, <1>2, <1>4, <2>5, <2>6, <2>7, Joined
  <2>9. ReadsOn(s, Tail(qs))
    BY <1>1, <1>6, <1>9, <1>17, ReadsOnDrop
  <2>10. Leads(c, s, qc, Tail(qs), nc, ns, gc, gs + 1)
    BY <1>1, <1>6, <2>1, <2>2, <2>3, <2>6, <2>8, <2>9 DEF Leads
  <2> QED BY <1>1, <1>6, <2>10, LeadsStep
<1>18. CASE m.mt \in {"EOED", "KU", "CERT"}
  <2>1. conn' = [conn EXCEPT !["server"].inInit = TRUE] /\ inbox' = inbox /\ read' = read
    BY <1>5, <1>8, <1>9, <1>14, <1>15, <1>18, ReadAppTakenApart
  <2>2. PICK e : e = [s EXCEPT !.inInit = TRUE]
    OBVIOUS
  <2>3. conn' = Two(c, e)
    BY <1>1, <2>1, <2>2 DEF Two, Role
  <2>4. PICK S : S = {"inInit"}
    OBVIOUS
  <2>5. Same(s, e, S) /\ S \cap {"err", "sched", "sentTickets", "extraTickets"} = {}
    BY <1>1, <2>2, <2>4, FieldsAre DEF Same, Sound
  <2>6. /\ e.st = s.st /\ e.flow = s.flow /\ e.v13 = s.v13 /\ e.finSent = s.finSent
        /\ e.finRead = s.finRead /\ e.hit = s.hit /\ e.hrr = s.hrr /\ e.early = s.early
        /\ e.ed = s.ed /\ e.certReq = s.certReq /\ e.peerCert = s.peerCert /\ e.pha = s.pha
        /\ e.rk = s.rk /\ e.wk = s.wk /\ e.tr = s.tr /\ e.hsTr = s.hsTr
        /\ e.sfTr = s.sfTr /\ e.phaTr = s.phaTr /\ e.keyUpdate = s.keyUpdate /\ e.extraTickets = s.extraTickets
        /\ e.reneg = s.reneg
    BY <2>4, <2>5, FieldsAre DEF Same
  <2>7. ServerStage(e, rs, ws)
    <3>1. CASE ServerDone(s, rs, ws)
      <4>1. ServerDone(e, rs, ws)
        BY <1>6, <2>6, <3>1 DEF ServerDone, AboutToAsk
      <4> QED BY <4>1 DEF ServerStage
    <3>2. CASE ServerReads(s, rs, ws) /\ s.st = "EARLY_DATA" /\ s.ed = "reading" /\ Accepted
      <4>1. ServerReads(e, rs, ws)
        BY <1>6, <2>6, <3>2 DEF ServerReads, Server13
      <4> QED BY <4>1 DEF ServerStage
    <3> QED BY <1>7, <3>1, <3>2
  <2>90. calls' \in Nat /\ calls <= calls' /\ calls' <= opt.calls
    BY <1>1, <1>6
  <2>9. Sound(e, "server")'
    <3>1. ~e.reneg /\ e.keyUpdate \in {"none", "requested", "notRequested"}
      BY <1>1, <2>6 DEF Sound
    <3> QED BY <1>1, <1>6, <2>5, <2>90, <3>1, SoundFlags
  <2>10. ReadsOn(e, qs) /\ Asked(e) = Asked(s)
    <3>1. MessageWaits(qs)
      BY <1>6, <1>9, <1>18 DEF MessageWaits
    <3> QED BY <2>6, <3>1 DEF ReadsOn, Reason, Asked
  <2> QED BY <1>6, <2>1, <2>3, <2>6, <2>7, <2>9, <2>10, <2>90, ServerTurns
<1> QED BY <1>14, <1>16, <1>17, <1>18


-----------------------------------------------------------------------------
(* The invariant holds. *)

LEMMA InitInv ==
    ASSUME Init, opt.ver = 13
    PROVE  Inv
<1>1. PICK i, q, z : i = InitialConn /\ q = <<>> /\ z = 0
  OBVIOUS
<1>2. opt \in OptionRecord /\ calls = 0 /\ opt.calls \in Nat /\ opt.tickets \in Nat
  BY OptionsAssumption DEF Init, OptionRecord
<1>3. conn = Two(i, i) /\ inbox = Two(q, q) /\ sent = Two(z, z) /\ read = Two(z, z)
  BY <1>1 DEF Init, Two
<1>4. /\ i.st = "BEFORE" /\ i.flow = "UNINITED" /\ i.err = "none" /\ ~i.v13 /\ ~i.finSent
      /\ ~i.finRead /\ i.hrr = "none" /\ i.early = "notSent" /\ i.certReq = "none"
      /\ i.pha = "none" /\ i.keyUpdate = "none" /\ i.sentTickets = 0 /\ i.extraTickets = 0
      /\ i.rk = NoKey /\ i.wk = NoKey /\ i.tr = <<>> /\ i.phaTr = <<>> /\ ~i.reneg /\ ~i.sched
      /\ DOMAIN i = Fields
  BY <1>1 DEF InitialConn, Fields
<1>5. Sound(i, "client") /\ Sound(i, "server")
  BY <1>2, <1>4 DEF Sound
<1>6. ReadsOn(i, q) /\ Asked(i) = 0 /\ Answered(i) = 0
  BY <1>4 DEF ReadsOn, Asked, Answered
<1>7. ClientStage(i, "sh", "hello", z)
  <2>1. ClientFirst(i, "sh", "hello", z)
    BY <1>1, <1>4 DEF ClientFirst, ClientHelloing
  <2> QED BY <2>1 DEF ClientStage
<1>8. ServerStage(i, "hello", "sh")
  <2>1. ServerFirst(i, "hello", "sh")
    BY <1>4 DEF ServerFirst
  <2> QED BY <2>1 DEF ServerStage
<1>9. z = GivenData("hello", z)
  BY <1>1, GivenDataIs
<1>10. PICK a, b : a = At("hello", 0, 0, 0) /\ b = At("sh", 0, 0, 0)
  OBVIOUS
<1>11. a \in Pos /\ b \in Pos
  BY <1>10 DEF At, Pos, Places
<1>12. Path("server", a, q, a) /\ Path("client", b, q, b)
  BY <1>1, <1>11, PathEmpty
<1>13. i.rk[3] = 0 /\ i.wk[3] = 0 /\ z - Asked(i) = 0 /\ z - Answered(i) = 0 /\ z \in Nat /\ z = 0
  BY <1>1, <1>4, <1>6, KeyCounts
<1>14. Path("server", At("hello", i.rk[3], z, z - Asked(i)), q, At("hello", i.wk[3], z, z - Answered(i)))
  BY <1>10, <1>12, <1>13
<1>15. Path("client", At("sh", i.rk[3], z, z), q, At("sh", i.wk[3], z, z))
  BY <1>10, <1>12, <1>13
<1>16. Together(i, i, q, q, z, z, z, z)
  BY <1>7, <1>8, <1>9, <1>13, <1>14, <1>15, Joined
<1>17. Named(i, i, q, q, z, z, z, z)
  BY <1>2, <1>3, <1>5, <1>6, <1>13, <1>16 DEF Named
<1> QED BY <1>17, Zenon DEF Inv

LEMMA OptKept ==
    ASSUME [Next]_vars
    PROVE  opt' = opt
<1>1. CASE UNCHANGED vars
  BY <1>1 DEF vars
<1>2. ASSUME NEW r \in Role, Step(r) \/ WriteApp(r) \/ KeyUpdate(r) \/ Renegotiate(r)
      PROVE  opt' = opt
  BY <1>2 DEF Step, Start, Enter, Write, Read, ReadApp, CheckRenegotiate, WriteApp, KeyUpdate, Renegotiate
<1>3. CASE EarlyData \/ VerifyClientPostHandshake \/ NewSessionTicket
  BY <1>3 DEF EarlyData, WriteEarlyData, EndEarlyData, ReadEarlyData, VerifyClientPostHandshake,
              NewSessionTicket
<1> QED BY <1>1, <1>2, <1>3 DEF Next

LEMMA NextInv ==
    ASSUME Inv, [Next]_vars
    PROVE  Inv'
<1>1. PICK c, s, qc, qs, nc, ns, gc, gs, rc, wc, rs, ws, kc, ks, d :
         Stands(c, s, qc, qs, nc, ns, gc, gs, rc, wc, rs, ws, kc, ks, d)
  BY InvStands, Zenon
<1>2. /\ conn = Two(c, s) /\ opt.ver = 13 /\ ~c.sched /\ ~s.sched
      /\ opt \in OptionRecord /\ calls \in Nat /\ calls <= opt.calls
      /\ Sound(c, "client") /\ Sound(s, "server")
  BY <1>1 DEF Stands, Sound
<1>3. conn["client"] = c /\ conn["server"] = s
  BY <1>2, TwoIs
<1>4. CASE UNCHANGED vars
  <2>1. opt' = opt /\ conn' = conn /\ inbox' = inbox /\ calls' = calls /\ sent' = sent /\ read' = read
    BY <1>4 DEF vars
  <2>2. /\ ReadsOn(c, qc) /\ ClientStage(c, rc, wc, nc)
    BY <1>1 DEF Stands
  <2>3. calls' \in Nat /\ calls <= calls' /\ calls' <= opt.calls
    BY <1>2, <2>1
  <2>4. Sound(c, "client")'
    BY <1>2, <2>1, <2>3, SoundLater
  <2> QED BY <1>1, <1>2, <2>1, <2>2, <2>3, <2>4, ClientTurns
<1>5. ASSUME NEW r \in Role, Step(r) \/ WriteApp(r) \/ KeyUpdate(r) \/ Renegotiate(r)
      PROVE  Inv'
  <2>1. ~CheckRenegotiate(r) /\ ~Renegotiate(r)
    BY <1>2, <1>3 DEF CheckRenegotiate, Renegotiate, Role
  <2>2. CASE r = "client"
    <3>1. CASE Start(r)
      BY <1>1, <2>2, <3>1, StartByClient
    <3>2. CASE Enter(r)
      BY <1>1, <2>2, <3>2, EnterByClient
    <3>3. CASE Write(r)
      BY <1>1, <2>2, <3>3, WriteByClient
    <3>4. CASE Read(r)
      BY <1>1, <2>2, <3>4, ReadByClient
    <3>5. CASE ReadApp(r)
      BY <1>1, <2>2, <3>5, ReadAppByClient
    <3>6. CASE WriteApp(r)
      BY <1>1, <2>2, <3>6, WriteAppByClient
    <3>7. CASE KeyUpdate(r)
      BY <1>1, <2>2, <3>7, KeyUpdateByClient
    <3> QED BY <1>5, <2>1, <3>1, <3>2, <3>3, <3>4, <3>5, <3>6, <3>7 DEF Step
  <2>3. CASE r = "server"
    <3>1. CASE Start(r)
      BY <1>1, <2>3, <3>1, StartByServer
    <3>2. CASE Enter(r)
      BY <1>1, <2>3, <3>2, EnterByServer
    <3>3. CASE Write(r)
      BY <1>1, <2>3, <3>3, WriteByServer
    <3>4. CASE Read(r)
      BY <1>1, <2>3, <3>4, ReadByServer
    <3>5. CASE ReadApp(r)
      BY <1>1, <2>3, <3>5, ReadAppByServer
    <3>6. CASE WriteApp(r)
      BY <1>1, <2>3, <3>6, WriteAppByServer
    <3>7. CASE KeyUpdate(r)
      BY <1>1, <2>3, <3>7, KeyUpdateByServer
    <3> QED BY <1>5, <2>1, <3>1, <3>2, <3>3, <3>4, <3>5, <3>6, <3>7 DEF Step
  <2> QED BY <2>2, <2>3 DEF Role
<1>6. CASE EarlyData
  <2>1. CASE WriteEarlyData
    BY <1>1, <2>1, WriteEarlyByClient
  <2>2. CASE EndEarlyData
    BY <1>1, <2>2, EndByClient
  <2>3. CASE ReadEarlyData
    BY <1>1, <2>3, ReadEarlyByServer
  <2> QED BY <1>6, <2>1, <2>2, <2>3 DEF EarlyData
<1>7. CASE VerifyClientPostHandshake
  BY <1>1, <1>7, VerifyByServer
<1>8. CASE NewSessionTicket
  BY <1>1, <1>8, TicketByServer
<1> QED BY <1>4, <1>5, <1>6, <1>7, <1>8 DEF Next

\* The stages and the positions cover every reachable state of a connection of TLS 1.3:
\* wherever the two sides are, the records on the way lead each of them from what it
\* reads next to what the other one has written.
THEOREM Inductive == Spec => []Inv13
<1>1. Init => Inv13
  BY InitInv, OptionsAssumption DEF Init, Inv13
<1>2. Inv13 /\ [Next]_vars => Inv13'
  <2> SUFFICES ASSUME Inv13, [Next]_vars PROVE Inv13'
    OBVIOUS
  <2>1. opt' = opt /\ opt \in OptionRecord
    BY OptKept DEF Inv13
  <2>2. opt'.ver = 13 => Inv'
    BY <2>1, NextInv DEF Inv13
  <2> QED BY <2>1, <2>2 DEF Inv13, OptionRecord, Role
<1> QED BY <1>1, <1>2, PTL DEF Spec

-----------------------------------------------------------------------------
(* What the invariant says of the properties of TlsHandshake. *)

LEMMA ClientStates ==
    ASSUME NEW c, NEW ra, NEW wa, NEW n, ClientStage(c, ra, wa, n)
    PROVE  /\ c.st \in {"BEFORE", "OK", "EARLY_DATA", "PENDING_EARLY_DATA_END", "CW_CLNT_HELLO",
                        "CW_CHANGE", "CW_END_OF_EARLY_DATA", "CW_CERT", "CW_CERT_VRFY",
                        "CW_FINISHED", "CW_KEY_UPDATE", "CR_SRVR_HELLO",
                        "CR_ENCRYPTED_EXTENSIONS", "CR_CERT_REQ", "CR_CERT", "CR_CERT_VRFY",
                        "CR_FINISHED", "CR_KEY_UPDATE", "CR_SESSION_TICKET"}
           /\ c.flow \in {"UNINITED", "WRITING", "READING", "FINISHED", "ERROR"}
           /\ c.hrr \in {"none", "pending", "complete"}
           /\ c.early \in {"notSent", "rejected", "accepted"}
           /\ c.pha \in {"none", "ext", "requestPending", "requested"}
<1>1. Ext \in {"none", "ext"} /\ Offered \in {"notSent", "rejected"}
      /\ Fate \in {"notSent", "rejected", "accepted"}
  BY DEF Ext, Offered, Fate
<1>2. CASE ClientFirst(c, ra, wa, n)
  BY <1>1, <1>2 DEF ClientFirst
<1>3. CASE ClientRetry(c, ra, wa, n)
  BY <1>1, <1>3 DEF ClientRetry
<1>4. CASE ClientReads(c, ra, wa, n)
  BY <1>1, <1>4 DEF ClientReads, Client13
<1>5. CASE ClientAnswers(c, ra, wa, n)
  BY <1>1, <1>5 DEF ClientAnswers, Client13
<1>6. CASE ClientDone(c, ra, wa)
  BY <1>1, <1>6 DEF ClientDone
<1> QED BY <1>2, <1>3, <1>4, <1>5, <1>6 DEF ClientStage

LEMMA ServerStates ==
    ASSUME NEW c, NEW ra, NEW wa, ServerStage(c, ra, wa)
    PROVE  /\ c.st \in {"BEFORE", "OK", "EARLY_DATA", "SW_SRVR_HELLO", "SW_CHANGE",
                        "SW_ENCRYPTED_EXTENSIONS", "SW_CERT_REQ", "SW_CERT", "SW_CERT_VRFY",
                        "SW_FINISHED", "SW_SESSION_TICKET", "SW_KEY_UPDATE", "SR_CLNT_HELLO",
                        "SR_END_OF_EARLY_DATA", "SR_CERT", "SR_CERT_VRFY", "SR_FINISHED",
                        "SR_KEY_UPDATE"}
           /\ c.flow \in {"UNINITED", "WRITING", "READING", "FINISHED", "ERROR"}
           /\ c.hrr \in {"none", "pending", "complete"}
           /\ c.early \in {"notSent", "rejected", "accepted"}
           /\ c.pha \in {"none", "ext", "requestPending", "requested"}
<1>1. Ext \in {"none", "ext"} /\ Offered \in {"notSent", "rejected"}
      /\ Fate \in {"notSent", "rejected", "accepted"}
  BY DEF Ext, Offered, Fate
<1>2. CASE ServerFirst(c, ra, wa)
  BY <1>1, <1>2 DEF ServerFirst
<1>3. CASE ServerRetried(c, ra, wa)
  BY <1>1, <1>3 DEF ServerRetried
<1>4. CASE ServerWrites(c, ra, wa)
  BY <1>1, <1>4 DEF ServerWrites, Server13
<1>5. CASE ServerReads(c, ra, wa)
  BY <1>1, <1>5 DEF ServerReads, Server13
<1>6. CASE ServerDone(c, ra, wa)
  BY <1>1, <1>6 DEF ServerDone
<1> QED BY <1>2, <1>3, <1>4, <1>5, <1>6 DEF ServerStage

\* The states of TypeOK.
StateNames(r) ==
    {"BEFORE", "OK", "EARLY_DATA", "PENDING_EARLY_DATA_END"}
    \cup DOMAIN MsgOf \cup {ReadState(r)[mt] : mt \in DOMAIN ReadState(r)}

LEMMA StateNamesAre ==
    /\ {"BEFORE", "OK", "EARLY_DATA", "PENDING_EARLY_DATA_END", "CW_CLNT_HELLO",
        "CW_CHANGE", "CW_END_OF_EARLY_DATA", "CW_CERT", "CW_CERT_VRFY",
        "CW_FINISHED", "CW_KEY_UPDATE", "CR_SRVR_HELLO",
        "CR_ENCRYPTED_EXTENSIONS", "CR_CERT_REQ", "CR_CERT", "CR_CERT_VRFY",
        "CR_FINISHED", "CR_KEY_UPDATE", "CR_SESSION_TICKET"} \subseteq StateNames("client")
    /\ {"BEFORE", "OK", "EARLY_DATA", "SW_SRVR_HELLO", "SW_CHANGE",
        "SW_ENCRYPTED_EXTENSIONS", "SW_CERT_REQ", "SW_CERT", "SW_CERT_VRFY",
        "SW_FINISHED", "SW_SESSION_TICKET", "SW_KEY_UPDATE", "SR_CLNT_HELLO",
        "SR_END_OF_EARLY_DATA", "SR_CERT", "SR_CERT_VRFY", "SR_FINISHED",
        "SR_KEY_UPDATE"} \subseteq StateNames("server")
<1>1. {"CW_CLNT_HELLO", "CW_CHANGE", "CW_END_OF_EARLY_DATA", "CW_CERT", "CW_CERT_VRFY",
       "CW_FINISHED", "CW_KEY_UPDATE", "SW_SRVR_HELLO", "SW_CHANGE",
       "SW_ENCRYPTED_EXTENSIONS", "SW_CERT_REQ", "SW_CERT", "SW_CERT_VRFY",
       "SW_SESSION_TICKET", "SW_FINISHED", "SW_KEY_UPDATE"} \subseteq DOMAIN MsgOf
  BY MsgOfAre
<1>2. {"SH", "EE", "CR", "CERT", "CV", "NST", "FIN", "KU"} \subseteq DOMAIN ReadState("client")
  BY DEF ReadState, ClientReadState
<1>3. {"CH", "EOED", "CERT", "CV", "FIN", "KU"} \subseteq DOMAIN ReadState("server")
  BY DEF ReadState, ServerReadState
<1>4. {"CR_SRVR_HELLO", "CR_ENCRYPTED_EXTENSIONS", "CR_CERT_REQ", "CR_CERT", "CR_CERT_VRFY",
       "CR_FINISHED", "CR_KEY_UPDATE", "CR_SESSION_TICKET"} \subseteq
      {ReadState("client")[mt] : mt \in DOMAIN ReadState("client")}
  BY <1>2, ReadStatesAre
<1>5. {"SR_CLNT_HELLO", "SR_END_OF_EARLY_DATA", "SR_CERT", "SR_CERT_VRFY", "SR_FINISHED",
       "SR_KEY_UPDATE"} \subseteq {ReadState("server")[mt] : mt \in DOMAIN ReadState("server")}
  BY <1>3, ReadStatesAre
<1> QED BY <1>1, <1>4, <1>5 DEF StateNames

\* The ends of the two paths say how far the sides have come.
LEMMA EndsAre ==
    ASSUME NEW r, NEW x, NEW u, NEW d, NEW k, NEW q, NEW y, NEW v, NEW n, NEW j,
           Path(r, At(x, u, d, k), q, At(y, v, n, j))
    PROVE  /\ d \in Nat /\ n \in Nat /\ k \in Nat /\ j \in Nat /\ d <= n /\ k <= j
           /\ q = <<>> => u = v /\ d = n /\ k = j
<1>1. PICK a, b : a = At(x, u, d, k) /\ b = At(y, v, n, j)
  OBVIOUS
<1>2. a.ku = u /\ a.d = d /\ a.k = k /\ b.ku = v /\ b.d = n /\ b.k = j
  BY <1>1 DEF At
<1>3. a \in Pos /\ b \in Pos /\ a.d <= b.d /\ a.k <= b.k /\ (q = <<>> => a = b)
  BY <1>1, PathEnds
<1>4. d \in Nat /\ n \in Nat /\ k \in Nat /\ j \in Nat
  BY <1>2, <1>3, PosFields
<1> QED BY <1>2, <1>3, <1>4

LEMMA InvTypeOK ==
    ASSUME Inv
    PROVE  TypeOK
<1>0. PICK c, s, qc, qs, nc, ns, gc, gs, rc, wc, rs, ws, kc, ks, d :
         Stands(c, s, qc, qs, nc, ns, gc, gs, rc, wc, rs, ws, kc, ks, d)
  BY InvStands, Zenon
<1>1. /\ conn = Two(c, s) /\ sent = Two(nc, ns) /\ read = Two(gc, gs)
      /\ opt \in OptionRecord /\ calls \in Nat /\ calls <= opt.calls
      /\ nc \in Nat /\ ns \in Nat /\ gc \in Nat /\ gs \in Nat /\ d \in Nat /\ gs = GivenData(rs, d)
      /\ Sound(c, "client") /\ Sound(s, "server")
      /\ ClientStage(c, rc, wc, nc) /\ ServerStage(s, rs, ws)
  BY <1>0 DEF Stands
<1>2. d <= nc
  <2>1. Path("server", At(rs, s.rk[3], d, ks - Asked(s)), qs, At(wc, c.wk[3], nc, kc - Answered(c)))
    BY <1>0 DEF Stands
  <2> QED BY <2>1, EndsAre
<1>3. gc <= ns
  <2>1. Path("client", At(rc, c.rk[3], gc, kc), qc, At(ws, s.wk[3], ns, ks))
    BY <1>0 DEF Stands
  <2> QED BY <2>1, EndsAre
<1>4. opt.tickets \in Nat /\ opt.calls \in Nat /\ opt.early \in Nat
  BY <1>1 DEF OptionRecord
<1>5. gs <= nc
  <2>1. gs <= d
    BY <1>1, <1>4, GivenDataIs
  <2> QED BY <1>1, <1>2, <2>1
<1>6. gc \in 0 .. ns /\ gs \in 0 .. nc /\ calls \in 0 .. opt.calls
  BY <1>1, <1>3, <1>4, <1>5
<1>7. ASSUME NEW x, NEW r, Sound(x, r)
      PROVE  /\ x.keyUpdate \in {"none", "requested", "notRequested"}
             /\ x.sentTickets \in 0 .. (opt.tickets + opt.calls)
             /\ x.extraTickets \in 0 .. opt.calls
  BY <1>1, <1>4, <1>7 DEF Sound
<1>8. conn["client"] = c /\ conn["server"] = s /\ sent["client"] = nc /\ sent["server"] = ns
      /\ read["client"] = gc /\ read["server"] = gs
  BY <1>1, TwoIs
<1>9. c.st \in StateNames("client") /\ s.st \in StateNames("server")
  <2>1. c.st \in StateNames("client")
    BY <1>1, ClientStates, StateNamesAre
  <2>2. s.st \in StateNames("server")
    BY <1>1, ServerStates, StateNamesAre
  <2> QED BY <2>1, <2>2
<1>10. ASSUME NEW r \in Role
       PROVE  /\ conn[r].st \in StateNames(r)
              /\ conn[r].flow \in {"UNINITED", "WRITING", "READING", "FINISHED", "ERROR"}
              /\ conn[r].hrr \in {"none", "pending", "complete"}
              /\ conn[r].early \in {"notSent", "rejected", "accepted"}
              /\ conn[r].pha \in {"none", "ext", "requestPending", "requested"}
              /\ conn[r].keyUpdate \in {"none", "requested", "notRequested"}
              /\ conn[r].sentTickets \in 0 .. (opt.tickets + opt.calls)
              /\ conn[r].extraTickets \in 0 .. opt.calls
              /\ sent[r] \in Nat /\ read[r] \in 0 .. sent[Peer(r)]
  <2>1. CASE r = "client"
    <3>1. /\ c.flow \in {"UNINITED", "WRITING", "READING", "FINISHED", "ERROR"}
          /\ c.hrr \in {"none", "pending", "complete"}
          /\ c.early \in {"notSent", "rejected", "accepted"}
          /\ c.pha \in {"none", "ext", "requestPending", "requested"}
      BY <1>1, ClientStates
    <3>2. Peer(r) = "server"
      BY <2>1 DEF Peer
    <3> QED BY <1>1, <1>6, <1>7, <1>8, <1>9, <2>1, <3>1, <3>2
  <2>2. CASE r = "server"
    <3>1. /\ s.flow \in {"UNINITED", "WRITING", "READING", "FINISHED", "ERROR"}
          /\ s.hrr \in {"none", "pending", "complete"}
          /\ s.early \in {"notSent", "rejected", "accepted"}
          /\ s.pha \in {"none", "ext", "requestPending", "requested"}
      BY <1>1, ServerStates
    <3>2. Peer(r) = "client"
      BY <2>2 DEF Peer
    <3> QED BY <1>1, <1>6, <1>7, <1>8, <1>9, <2>2, <3>1, <3>2
  <2> QED BY <2>1, <2>2 DEF Role
<1> QED BY <1>6, <1>10, Zenon DEF TypeOK, StateNames

LEMMA InvNoError ==
    ASSUME Inv, NEW r \in Role
    PROVE  conn[r].err = "none"
<1>0. PICK c, s, qc, qs, nc, ns, gc, gs : Named(c, s, qc, qs, nc, ns, gc, gs)
  BY DEF Inv
<1>1. conn = Two(c, s) /\ c.err = "none" /\ s.err = "none"
  BY <1>0 DEF Named, Sound
<1>2. conn["client"] = c /\ conn["server"] = s
  BY <1>1, TwoIs
<1> QED BY <1>1, <1>2 DEF Role

\* Both sides when everything sent is read.
LEMMA InvSettled ==
    ASSUME Inv, Settled, NEW c, c = conn["client"], NEW s, s = conn["server"]
    PROVE  /\ c.wk = s.rk /\ s.wk = c.rk /\ c.hit = s.hit /\ c.early = s.early /\ s.early = Fate
           /\ ~opt.eager => c.pha = s.pha
           /\ s.certReq = "sent" /\ ~s.hit => s.peerCert = opt.cert
           /\ read["client"] = sent["server"]
           /\ read["server"] = GivenData("ok", sent["client"])
           /\ sent["client"] \in Nat
<1>0. PICK x, y, qc, qs, nc, ns, gc, gs, rc, wc, rs, ws, kc, ks, d :
         Stands(x, y, qc, qs, nc, ns, gc, gs, rc, wc, rs, ws, kc, ks, d)
  BY InvStands, Zenon
<1>1. /\ conn = Two(x, y) /\ inbox = Two(qc, qs) /\ sent = Two(nc, ns) /\ read = Two(gc, gs)
      /\ nc \in Nat /\ kc \in Nat /\ ks \in Nat /\ gs = GivenData(rs, d)
      /\ ClientStage(x, rc, wc, nc) /\ ServerStage(y, rs, ws)
  BY <1>0 DEF Stands
<1>2. /\ c = x /\ s = y /\ inbox["client"] = qc /\ inbox["server"] = qs
      /\ sent["client"] = nc /\ sent["server"] = ns /\ read["client"] = gc /\ read["server"] = gs
  BY <1>1, TwoIs
<1>3. "client" \in Role /\ "server" \in Role
  BY DEF Role
<1>4. /\ qc = <<>> /\ qs = <<>> /\ c.st = "OK" /\ s.st = "OK"
      /\ s.flow = "FINISHED" /\ ~s.inInit
  BY <1>2, <1>3 DEF Settled, InitFinished
<1>5. /\ ClientDone(c, rc, wc) /\ c.rk = KA(c.rk[3]) /\ c.wk = KA(c.wk[3])
      /\ ServerDone(s, rs, ws) /\ s.rk = KA(s.rk[3]) /\ s.wk = KA(s.wk[3]) /\ rs = "ok"
  BY <1>1, <1>2, <1>4, ClientIsDone, ServerIsDone
<1>6. s.rk[3] = c.wk[3] /\ d = nc /\ ks - Asked(s) = kc - Answered(c)
  <2>1. Path("server", At(rs, s.rk[3], d, ks - Asked(s)), qs, At(wc, c.wk[3], nc, kc - Answered(c)))
    BY <1>0, <1>2 DEF Stands
  <2> QED BY <1>4, <2>1, EndsAre
<1>7. c.rk[3] = s.wk[3] /\ gc = ns /\ kc = ks
  <2>1. Path("client", At(rc, c.rk[3], gc, kc), qc, At(ws, s.wk[3], ns, ks))
    BY <1>0, <1>2 DEF Stands
  <2> QED BY <1>4, <2>1, EndsAre
<1>8. c.wk = s.rk /\ s.wk = c.rk
  BY <1>5, <1>6, <1>7
<1>9. s.pha # "requested"
  <2>1. Answered(c) = 0 /\ Asked(s) \in {0, 1}
    BY <1>4 DEF Answered, Asked
  <2>2. Asked(s) = 0
    BY <1>1, <1>6, <1>7, <2>1
  <2> QED BY <1>4, <2>2 DEF Asked
<1>10. c.hit = s.hit /\ c.early = s.early /\ s.early = Fate /\ c.pha = Ext
  BY <1>4, <1>5 DEF ClientDone, ServerDone
<1>11. /\ ~opt.eager => s.pha = Ext
       /\ s.certReq = "sent" => s.peerCert = opt.cert
  BY <1>4, <1>5, <1>9 DEF ServerDone, AboutToAsk
<1> QED BY <1>1, <1>2, <1>5, <1>6, <1>7, <1>8, <1>10, <1>11

-----------------------------------------------------------------------------
(* The theorems. *)

\* In a connection of TLS 1.3 the fields the state machines work on keep their values,
\* a side is given no more data than its peer has written, and a server sends no more
\* tickets than it was configured and asked to send.
THEOREM Tls13TypeOK == Spec => [](opt.ver = 13 => TypeOK)
<1>1. Inv13 => (opt.ver = 13 => TypeOK)
  BY InvTypeOK DEF Inv13
<1> QED BY <1>1, Inductive, PTL

\* The two sides of a connection of TLS 1.3 change their keys in step: no record comes
\* under another key than the one the reader has, with early data accepted or rejected,
\* middlebox compatibility, a HelloRetryRequest, and key updates of both sides crossing.
THEOREM Tls13KeysInStep == Spec => [](opt.ver = 13 => KeysInStep)
<1>1. Inv13 => (opt.ver = 13 => KeysInStep)
  BY InvNoError DEF Inv13, KeysInStep
<1> QED BY <1>1, Inductive, PTL

\* The read table of each side has a transition for every message the write table of the
\* other one sends, in every configuration of TLS 1.3 and every interleaving, and
\* neither write table runs into its error case.
THEOREM Tls13NeverUnexpected == Spec => [](opt.ver = 13 => NeverUnexpected)
<1>1. Inv13 => (opt.ver = 13 => NeverUnexpected)
  BY InvNoError DEF Inv13, NeverUnexpected
<1> QED BY <1>1, Inductive, PTL

\* Every Finished of TLS 1.3 verifies: of the handshake, after a HelloRetryRequest, and of
\* each round of post-handshake authentication.
THEOREM Tls13TranscriptsAgree == Spec => [](opt.ver = 13 => TranscriptsAgree)
<1>1. Inv13 => (opt.ver = 13 => TranscriptsAgree)
  BY InvNoError DEF Inv13, TranscriptsAgree
<1> QED BY <1>1, Inductive, PTL

\* When all is read, the two sides of a connection of TLS 1.3 agree on both keys, on
\* resumption, early data and post-handshake authentication, and the server that asked
\* for a certificate knows whether the client has one.  No request is left unsent or
\* unanswered, if the server's application asks only when it owes no KeyUpdate.
THEOREM Tls13SidesAgree == Spec => [](opt.ver = 13 /\ ~opt.eager => SidesAgree)
<1>1. Inv13 => (opt.ver = 13 /\ ~opt.eager => SidesAgree)
  <2>1. SUFFICES ASSUME Inv, Settled, ~opt.eager
                 PROVE  LET c == conn["client"]
                            s == conn["server"]
                        IN /\ c.wk = s.rk /\ s.wk = c.rk
                           /\ c.hit = s.hit
                           /\ c.early = s.early
                           /\ c.pha = s.pha
                           /\ s.certReq = "sent" /\ ~s.hit => s.peerCert = opt.cert
    BY DEF Inv13, SidesAgree
  <2> QED BY <2>1, InvSettled
<1> QED BY <1>1, Inductive, PTL

\* When all is read, each side of a connection of TLS 1.3 was given all the data its peer
\* wrote, but for early data the server rejected, of which it was given nothing.
THEOREM Tls13DataAccountedFor == Spec => [](opt.ver = 13 => DataAccountedFor)
<1>1. Inv13 => (opt.ver = 13 => DataAccountedFor)
  <2>1. SUFFICES ASSUME Inv, Settled, opt \in OptionRecord
                 PROVE  /\ read["client"] = sent["server"]
                        /\ read["server"] = sent["client"] - Discarded
    BY DEF Inv13, DataAccountedFor
  <2>2. PICK n \in Nat : n = sent["client"]
    BY <2>1, InvSettled
  <2>3. /\ read["client"] = sent["server"] /\ read["server"] = GivenData("ok", n)
        /\ conn["server"].early = Fate
    BY <2>1, <2>2, InvSettled
  <2>4. opt.early \in Nat
    BY <2>1 DEF OptionRecord
  <2>5. CASE Accepted
    BY <2>2, <2>3, <2>5, GivenDataIs DEF Discarded, Fate
  <2>6. CASE ~Accepted
    <3>1. Discarded = opt.early
      BY <2>3, <2>4, <2>6 DEF Discarded, Fate, Offered, Early
    <3> QED BY <2>2, <2>3, <2>6, <3>1, GivenDataIs
  <2> QED BY <2>5, <2>6
<1> QED BY <1>1, Inductive, PTL
=============================================================================
