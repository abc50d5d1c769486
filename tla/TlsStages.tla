----------------------------- MODULE TlsStages -----------------------------
(***************************************************************************)
(* The stages of a connection of TLS 1.3 and the invariant that relates    *)
(* them.                                                                   *)
(*                                                                         *)
(* The options fix, before anything happens, which records the two sides   *)
(* will exchange, under which keys and over which transcripts.  A position *)
(* in one of the two conversations says which record comes next.  A stage  *)
(* of a side says what its connection holds there, the position it reads   *)
(* next and the one it has written up to.  The invariant: each side is in  *)
(* a stage, and the records on the way form a path from the position their *)
(* reader is at to the position of their writer.                           *)
(***************************************************************************)
EXTENDS TlsHandshake

-----------------------------------------------------------------------------
(* What a configuration of TLS 1.3 decides in advance. *)

Early == opt.early > 0
ClientCompat == "client" \in opt.compat
ServerCompat == "server" \in opt.compat

\* Does the server take the early data, and does it ask for a certificate?
Accepted == Early /\ opt.hit /\ opt.readEarly /\ ~opt.hrr
Asks == opt.request /\ ~opt.hit

Ext == IF opt.pha THEN "ext" ELSE "none"
Offered == IF Early THEN "rejected" ELSE "notSent"
Fate == IF Accepted THEN "accepted" ELSE Offered
OwnCert == IF opt.cert THEN "cert" ELSE "empty"

\* early_data_state: of the client when all early data is written, of the server
\* when it starts, when it answers the last ClientHello and when it has read the
\* early data.
WroteEarly == IF Early THEN "finishedWriting" ELSE "none"
ServerStarts == IF opt.readEarly THEN "accepting" ELSE "none"
ReadEarly == IF opt.readEarly THEN "finishedReading" ELSE "none"
ServerAnswers == IF opt.hrr THEN ReadEarly ELSE ServerStarts

\* Transcripts: up to the ClientHello that is answered, to each message of the
\* server's flight, of the client's, and of post-handshake authentication.
FirstTr == Append(<<>>, "CH")
RetryTr == <<"HASH", "SH">>
HelloTr == Append(IF opt.hrr THEN RetryTr ELSE <<>>, "CH")
HsTr == Append(HelloTr, "SH")
EeTr == Append(HsTr, "EE")
ReqTr == IF opt.request THEN Append(EeTr, "CR") ELSE EeTr
ServerCertTr == Append(ReqTr, "CERT")
ServerVerifyTr == Append(ServerCertTr, "CV")
ServerTr == IF opt.hit THEN EeTr ELSE ServerVerifyTr
SfTr == Append(ServerTr, "FIN")
AnswerTr == IF Accepted THEN Append(SfTr, "EOED") ELSE SfTr
ClientCertTr == Append(AnswerTr, "CERT")
ClientVerifyTr == IF opt.cert THEN Append(ClientCertTr, "CV") ELSE ClientCertTr
ClientTr == IF Asks THEN ClientVerifyTr ELSE AnswerTr
PhaTr == Append(ClientTr, "FIN")
PhaReqTr == Append(PhaTr, "CR")
PhaCertTr == Append(PhaReqTr, "CERT")
PhaAnswerTr == IF opt.cert THEN Append(PhaCertTr, "CV") ELSE PhaCertTr

\* The keys: of early data, of the handshake, and of application data after n updates.
KE == <<"early", FirstTr, 0>>
KH == <<"handshake", HsTr, 0>>
KA(n) == <<"app", SfTr, n>>
IsAppKey(k) == k[3] \in Nat /\ k = KA(k[3])

\* The client's write key when it has read the ServerHello, and the server's read
\* key when it has written it.
DeferredKey == CASE Early /\ ~opt.hrr -> KE
                 [] ~Early /\ ~ClientCompat -> KH
                 [] OTHER -> NoKey
WaitingKey == IF Accepted THEN KE ELSE KH

-----------------------------------------------------------------------------
(* The two conversations.  A position says which record comes next: at is   *)
(* the place in the protocol, ku counts the key updates, d the records of   *)
(* data and k the rounds of post-handshake authentication.                  *)

Places == {"hello", "retry", "early", "answer", "cv", "fin", "ok", "pcv", "pfin",
           "sh", "sh2", "ee", "cr", "cert"}
Pos == [at : Places, ku : Nat, d : Nat, k : Nat]
At(place, ku, d, k) == [at |-> place, ku |-> ku, d |-> d, k |-> k]

AfterHello == IF opt.hrr THEN "retry" ELSE "early"
Answering == IF Accepted THEN "answer" ELSE "early"

\* m takes the records from the client to the server from a to b.
ToServer(a, m, b) ==
    \/ /\ a.at = "hello" /\ m.mt = "CH"
       /\ m.key = NoKey /\ (m.early <=> Early) /\ m.pha = opt.pha
       /\ b = [a EXCEPT !.at = AfterHello]
    \/ /\ a.at \in {"retry", "early"} /\ m.mt = "CCS"
       /\ b = a
    \/ /\ a.at = AfterHello /\ m.mt = "DATA"
       /\ Early /\ (Accepted => m.key = KE)
       /\ b = [a EXCEPT !.d = @ + 1]
    \/ /\ a.at = "retry" /\ m.mt = "CH" /\ a.d = opt.early
       /\ m.key = NoKey /\ ~m.early /\ m.pha = opt.pha
       /\ b = [a EXCEPT !.at = "early"]
    \/ /\ a.at = "early" /\ m.mt = "EOED" /\ a.d = opt.early
       /\ Accepted /\ m.key = KE
       /\ b = [a EXCEPT !.at = "answer"]
    \/ /\ a.at = Answering /\ m.mt = "CERT" /\ a.d = opt.early
       /\ Asks /\ m.key = KH /\ m.full = opt.cert
       /\ b = [a EXCEPT !.at = IF opt.cert THEN "cv" ELSE "fin"]
    \/ /\ a.at = "cv" /\ m.mt = "CV"
       /\ Asks /\ m.key = KH
       /\ b = [a EXCEPT !.at = "fin"]
    \/ /\ a.at = (IF Asks THEN "fin" ELSE Answering) /\ m.mt = "FIN" /\ a.d = opt.early
       /\ m.key = KH /\ m.digest = ClientTr
       /\ b = [a EXCEPT !.at = "ok"]
    \/ /\ a.at = "ok" /\ m.mt = "DATA"
       /\ m.key = KA(a.ku)
       /\ b = [a EXCEPT !.d = @ + 1]
    \/ /\ a.at = "ok" /\ m.mt = "KU"
       /\ m.key = KA(a.ku)
       /\ b = [a EXCEPT !.ku = @ + 1]
    \/ /\ a.at = "ok" /\ m.mt = "CERT"
       /\ opt.pha /\ m.key = KA(a.ku) /\ m.full = opt.cert
       /\ b = [a EXCEPT !.at = IF opt.cert THEN "pcv" ELSE "pfin", !.k = @ + 1]
    \/ /\ a.at = "pcv" /\ m.mt = "CV"
       /\ m.key = KA(a.ku)
       /\ b = [a EXCEPT !.at = "pfin"]
    \/ /\ a.at = "pfin" /\ m.mt = "FIN"
       /\ m.key = KA(a.ku) /\ m.digest = PhaAnswerTr
       /\ b = [a EXCEPT !.at = "ok"]

\* m takes the records from the server to the client from a to b.
ToClient(a, m, b) ==
    \/ /\ a.at = "sh" /\ m.mt = "SH"
       /\ m.key = NoKey /\ (m.hrr <=> opt.hrr) /\ (~opt.hrr => m.hit = opt.hit)
       /\ b = [a EXCEPT !.at = IF opt.hrr THEN "sh2" ELSE "ee"]
    \/ /\ a.at \in {"sh2", "ee"} /\ m.mt = "CCS"
       /\ b = a
    \/ /\ a.at = "sh2" /\ m.mt = "SH"
       /\ m.key = NoKey /\ ~m.hrr /\ m.hit = opt.hit
       /\ b = [a EXCEPT !.at = "ee"]
    \/ /\ a.at = "ee" /\ m.mt = "EE"
       /\ m.key = KH /\ (m.early <=> Accepted)
       /\ b = [a EXCEPT !.at = IF opt.hit THEN "fin" ELSE "cr"]
    \/ /\ a.at = "cr" /\ m.mt = "CR"
       /\ opt.request /\ m.key = KH
       /\ b = [a EXCEPT !.at = "cert"]
    \/ /\ a.at = (IF opt.request THEN "cert" ELSE "cr") /\ m.mt = "CERT"
       /\ m.key = KH
       /\ b = [a EXCEPT !.at = "cv"]
    \/ /\ a.at = "cv" /\ m.mt = "CV"
       /\ m.key = KH
       /\ b = [a EXCEPT !.at = "fin"]
    \/ /\ a.at = "fin" /\ m.mt = "FIN"
       /\ m.key = KH /\ m.digest = ServerTr
       /\ b = [a EXCEPT !.at = "ok"]
    \/ /\ a.at = "ok" /\ m.mt = "DATA"
       /\ m.key = KA(a.ku)
       /\ b = [a EXCEPT !.d = @ + 1]
    \/ /\ a.at = "ok" /\ m.mt = "NST"
       /\ m.key = KA(a.ku)
       /\ b = a
    \/ /\ a.at = "ok" /\ m.mt = "KU"
       /\ m.key = KA(a.ku)
       /\ b = [a EXCEPT !.ku = @ + 1]
    \/ /\ a.at = "ok" /\ m.mt = "CR"
       /\ opt.pha /\ m.key = KA(a.ku)
       /\ b = [a EXCEPT !.k = @ + 1]

Arrives(r, a, m, b) == IF r = "server" THEN ToServer(a, m, b) ELSE ToClient(a, m, b)

\* The records q lead from position a to position b; data and rounds of
\* authentication only grow on the way.
Path(r, a, q, b) ==
    \E Records : q \in Seq(Records) /\
    \E p \in [1 .. (Len(q) + 1) -> Pos] :
        /\ p[1] = a /\ p[Len(q) + 1] = b
        /\ \A i \in 1 .. Len(q) : Arrives(r, p[i], q[i], p[i + 1])
        /\ \A i, j \in 1 .. (Len(q) + 1) :
              i <= j => p[i].d <= p[j].d /\ p[i].k <= p[j].k
-----------------------------------------------------------------------------
(* The sides.  A stage says where a side is, what it has in its connection  *)
(* there, what it reads next (ra) and how far it has written (wa).          *)

\* The client before it knows the version; n is the early data written.
ClientHelloing(c) ==
    /\ ~c.v13 /\ ~c.finSent /\ ~c.finRead
    /\ c.certReq = "none" /\ c.rk = NoKey /\ c.phaTr = <<>>

ClientFirst(c, ra, wa, n) ==
    /\ ClientHelloing(c) /\ c.hrr = "none" /\ ra = "sh"
    /\ \/ /\ c.st = "BEFORE" /\ wa = "hello" /\ n = 0
          /\ c.wk = NoKey /\ c.early = "notSent" /\ c.pha = "none" /\ c.tr = <<>>
          /\ \/ c.flow = "UNINITED"
             \/ c.flow = "WRITING" /\ c.ed = IF Early THEN "connecting" ELSE "none"
       \/ /\ wa = AfterHello
          /\ c.early = Offered /\ c.pha = Ext /\ c.tr = FirstTr
          /\ \/ /\ c.st = "CW_CLNT_HELLO" /\ n = 0
                /\ c.flow = "WRITING" \/ (c.flow = "READING" /\ ~Early)
                /\ c.ed = IF Early THEN "connecting" ELSE "none"
                /\ c.wk = IF Early /\ ~ClientCompat THEN KE ELSE NoKey
             \/ /\ c.st = "CW_CHANGE" /\ n = 0
                /\ Early /\ c.flow = "WRITING" /\ c.ed = "connecting" /\ c.wk = KE
             \/ /\ c.st = "EARLY_DATA" /\ c.wk = KE /\ Early
                /\ \/ /\ c.flow = "FINISHED" /\ ~c.inInit /\ n <= opt.early
                      /\ c.ed \in {"connecting", "writeRetry"}
                   \/ /\ c.flow \in {"FINISHED", "WRITING", "READING"} /\ n = opt.early
                      /\ c.ed = "finishedWriting"

ClientRetry(c, ra, wa, n) ==
    /\ ClientHelloing(c) /\ c.hrr = "pending" /\ ra = "sh2" /\ n = opt.early
    /\ opt.hrr /\ c.ed = WroteEarly /\ c.wk = NoKey /\ c.early = Offered /\ c.pha = Ext
    /\ \/ /\ c.st \in {"CR_SRVR_HELLO", "CW_CHANGE"} /\ c.flow = "WRITING"
          /\ wa = "retry" /\ c.tr = RetryTr
       \/ /\ c.st = "CW_CLNT_HELLO" /\ c.flow \in {"WRITING", "READING"}
          /\ wa = "early" /\ c.tr = HelloTr

\* The client of TLS 1.3 up to its Finished.
Client13(c, n) ==
    /\ c.v13 /\ ~c.finSent
    /\ c.hrr = (IF opt.hrr THEN "pending" ELSE "none")
    /\ c.ed = WroteEarly /\ c.hit = opt.hit /\ c.hsTr = HsTr /\ c.pha = Ext
    /\ c.phaTr = <<>> /\ n = opt.early

ClientReads(c, ra, wa, n) ==
    /\ Client13(c, n) /\ ~c.finRead /\ c.flow = "READING"
    /\ c.rk = KH /\ c.wk = DeferredKey /\ wa = "early"
    /\ \/ /\ c.st = "CR_SRVR_HELLO" /\ ra = "ee"
          /\ c.tr = HsTr /\ c.early = Offered /\ c.certReq = "none"
       \/ /\ c.early = Fate
          /\ \/ /\ c.st = "CR_ENCRYPTED_EXTENSIONS" /\ ra = IF opt.hit THEN "fin" ELSE "cr"
                /\ c.tr = EeTr /\ c.certReq = "none"
             \/ /\ ~opt.hit /\ c.certReq = IF opt.request THEN OwnCert ELSE "none"
                /\ \/ /\ c.st = "CR_CERT_REQ" /\ opt.request /\ ra = "cert" /\ c.tr = ReqTr
                   \/ /\ c.st = "CR_CERT" /\ ra = "cv" /\ c.tr = ServerCertTr
                   \/ /\ c.st = "CR_CERT_VRFY" /\ ra = "fin" /\ c.tr = ServerVerifyTr

ClientAnswers(c, ra, wa, n) ==
    /\ Client13(c, n) /\ c.finRead /\ c.flow = "WRITING"
    /\ c.early = Fate /\ c.certReq = (IF Asks THEN OwnCert ELSE "none")
    /\ c.sfTr = SfTr /\ c.rk = KA(0) /\ ra = "ok"
    /\ \/ /\ wa = "early" /\ c.tr = SfTr /\ c.wk = DeferredKey
          /\ \/ c.st = "CR_FINISHED"
             \/ c.st = "PENDING_EARLY_DATA_END" /\ Early
             \/ c.st = "CW_CHANGE" /\ ~Early
       \/ /\ c.st = "CW_END_OF_EARLY_DATA" /\ wa = "answer"
          /\ Accepted /\ c.tr = AnswerTr /\ c.wk = KE
       \/ /\ c.st = "CW_CERT" /\ wa = IF opt.cert THEN "cv" ELSE "fin"
          /\ Asks /\ c.tr = ClientCertTr /\ c.wk = KH
       \/ /\ c.st = "CW_CERT_VRFY" /\ wa = "fin"
          /\ Asks /\ opt.cert /\ c.tr = ClientVerifyTr /\ c.wk = KH

\* The client after its Finished.
ClientDone(c, ra, wa) ==
    /\ c.v13 /\ c.finSent /\ c.finRead
    /\ c.hit = opt.hit /\ c.early = Fate /\ c.phaTr = PhaTr
    /\ c.hrr = (IF opt.hrr THEN "pending" ELSE "none")
    /\ IsAppKey(c.rk) /\ IsAppKey(c.wk) /\ ra = "ok"
    /\ \/ /\ wa = "ok" /\ c.pha = Ext
          /\ \/ c.st = "OK" /\ c.flow \in {"FINISHED", "WRITING", "READING"}
             \/ /\ c.st \in {"CW_FINISHED", "CW_KEY_UPDATE", "CR_KEY_UPDATE", "CR_SESSION_TICKET"}
                /\ c.flow = "WRITING"
       \/ /\ opt.pha /\ c.pha = "requested" /\ c.flow = "WRITING" /\ c.certReq = OwnCert
          /\ \/ /\ c.st = "CR_CERT_REQ" /\ wa = "ok" /\ c.tr = PhaReqTr
             \/ /\ c.st = "CW_CERT" /\ wa = (IF opt.cert THEN "pcv" ELSE "pfin")
                /\ c.tr = PhaCertTr
             \/ /\ c.st = "CW_CERT_VRFY" /\ wa = "pfin" /\ opt.cert /\ c.tr = PhaAnswerTr
             \/ /\ c.st = "CW_FINISHED" /\ wa = "ok"

ClientStage(c, ra, wa, n) ==
    \/ ClientFirst(c, ra, wa, n)
    \/ ClientRetry(c, ra, wa, n)
    \/ ClientReads(c, ra, wa, n)
    \/ ClientAnswers(c, ra, wa, n)
    \/ ClientDone(c, ra, wa)

\* The server until it has answered the first ClientHello.
ServerFirst(s, ra, wa) ==
    /\ ~s.finSent /\ ~s.finRead /\ s.certReq = "none" /\ s.phaTr = <<>> /\ s.wk = NoKey
    /\ \/ /\ s.st = "BEFORE" /\ ra = "hello" /\ wa = "sh"
          /\ ~s.v13 /\ s.hrr = "none" /\ s.early = "notSent" /\ s.pha = "none"
          /\ s.tr = <<>> /\ s.rk = NoKey
          /\ \/ s.flow = "UNINITED"
             \/ s.flow \in {"WRITING", "READING"} /\ s.ed = ServerStarts
       \/ /\ s.v13 /\ s.early = Fate /\ s.pha = Ext /\ ra = AfterHello
          /\ s.hrr = IF opt.hrr THEN "pending" ELSE "none"
          /\ s.rk = IF Accepted THEN KE ELSE NoKey
          /\ \/ /\ s.st = "SR_CLNT_HELLO" /\ wa = "sh" /\ s.flow = "WRITING"
                /\ s.ed = ServerStarts /\ s.tr = FirstTr /\ s.hit = opt.hit
             \/ /\ s.st = "SW_SRVR_HELLO" /\ wa = "ee" /\ s.flow = "WRITING"
                /\ ~opt.hrr /\ ServerCompat
                /\ s.ed = ServerStarts /\ s.tr = HsTr /\ s.hit = opt.hit
             \/ /\ opt.hrr /\ wa = "sh2" /\ s.tr = RetryTr
                /\ \/ /\ s.st \in {"SW_SRVR_HELLO", "SW_CHANGE"} /\ s.flow = "WRITING"
                      /\ s.ed = ServerStarts
                   \/ /\ s.st = "EARLY_DATA" /\ s.flow = "FINISHED" /\ ~s.inInit
                      /\ s.ed = "accepting" /\ opt.readEarly
                   \/ /\ s.st = "EARLY_DATA" /\ s.flow \in {"FINISHED", "WRITING", "READING"}
                      /\ s.ed = ReadEarly

\* The server from the ClientHello it can use to the client's Finished.
ServerRetried(s, ra, wa) ==
    /\ s.st = "SR_CLNT_HELLO" /\ ra = "early" /\ wa = "sh2" /\ s.flow = "WRITING"
    /\ opt.hrr /\ s.v13 /\ s.hrr = "complete" /\ ~s.finSent /\ ~s.finRead
    /\ s.certReq = "none" /\ s.pha = Ext /\ s.phaTr = <<>> /\ s.early = Fate
    /\ s.ed = ReadEarly /\ s.hit = opt.hit /\ s.tr = HelloTr
    /\ s.rk = NoKey /\ s.wk = NoKey

Server13(s) ==
    /\ s.v13 /\ ~s.finRead /\ s.phaTr = <<>> /\ s.pha = Ext
    /\ s.hrr = (IF opt.hrr THEN "complete" ELSE "none")
    /\ s.hit = opt.hit /\ s.early = Fate /\ s.hsTr = HsTr

ServerWrites(s, ra, wa) ==
    /\ Server13(s) /\ ~s.finSent /\ s.flow = "WRITING" /\ ra = "early"
    /\ s.ed = ServerAnswers /\ s.wk = KH /\ s.rk = WaitingKey
    /\ \/ /\ s.certReq = "none"
          /\ \/ /\ s.st \in {"SW_SRVR_HELLO", "SW_CHANGE"} /\ wa = "ee" /\ s.tr = HsTr
                /\ s.st = "SW_SRVR_HELLO" => opt.hrr \/ ~ServerCompat
             \/ /\ s.st = "SW_ENCRYPTED_EXTENSIONS" /\ s.tr = EeTr
                /\ wa = IF opt.hit THEN "fin" ELSE "cr"
       \/ /\ ~opt.hit /\ s.certReq = IF opt.request THEN "sent" ELSE "none"
          /\ \/ s.st = "SW_CERT_REQ" /\ opt.request /\ wa = "cert" /\ s.tr = ReqTr
             \/ s.st = "SW_CERT" /\ wa = "cv" /\ s.tr = ServerCertTr
             \/ s.st = "SW_CERT_VRFY" /\ wa = "fin" /\ s.tr = ServerVerifyTr

ServerReads(s, ra, wa) ==
    /\ Server13(s) /\ s.finSent /\ wa = "ok"
    /\ s.certReq = IF Asks THEN "sent" ELSE "none"
    /\ s.sfTr = SfTr /\ s.wk = KA(0)
    /\ \/ /\ ra = "early" /\ s.rk = WaitingKey /\ s.tr = SfTr
          /\ \/ s.st = "SW_FINISHED" /\ s.flow = "WRITING" /\ s.ed = ServerAnswers
             \/ /\ s.st = "EARLY_DATA"
                /\ \/ s.flow = "FINISHED" /\ s.ed = "accepting" /\ ~s.inInit /\ opt.readEarly
                   \/ s.flow \in {"FINISHED", "WRITING", "READING"} /\ Accepted /\ s.ed = "reading"
                   \/ s.flow \in {"FINISHED", "WRITING", "READING"} /\ ~Accepted /\ s.ed = ReadEarly
       \/ /\ s.flow = "READING" /\ s.rk = KH /\ s.ed = ReadEarly
          /\ \/ s.st = "SR_END_OF_EARLY_DATA" /\ ra = "answer" /\ Accepted /\ s.tr = AnswerTr
             \/ /\ Asks /\ s.peerCert = opt.cert
                /\ \/ /\ s.st = "SR_CERT" /\ ra = (IF opt.cert THEN "cv" ELSE "fin")
                      /\ s.tr = ClientCertTr
                   \/ /\ s.st = "SR_CERT_VRFY" /\ ra = "fin" /\ opt.cert
                      /\ s.tr = ClientVerifyTr

\* The state machine runs, or is entered next, and the CertificateRequest comes first.
AboutToAsk(s) ==
    /\ s.st = "OK" /\ s.keyUpdate = "none"
    /\ s.flow = "WRITING" \/ (s.flow = "FINISHED" /\ s.inInit)

\* The server after the client's Finished.
ServerDone(s, ra, wa) ==
    /\ s.v13 /\ s.finSent /\ s.finRead
    /\ s.hit = opt.hit /\ s.early = Fate /\ s.phaTr = PhaTr /\ s.ed = ReadEarly
    /\ s.hrr = (IF opt.hrr THEN "complete" ELSE "none")
    /\ IsAppKey(s.rk) /\ IsAppKey(s.wk) /\ wa = "ok"
    /\ \/ /\ s.st = "SR_FINISHED" /\ ra = "ok" /\ s.flow = "WRITING"
          /\ s.certReq = "sent" => s.peerCert = opt.cert
          /\ s.pha = Ext \/ (opt.pha /\ s.pha = "requested")
       \/ /\ ra = "ok" /\ s.flow \in {"FINISHED", "WRITING", "READING"}
          /\ s.st \in {"OK", "SW_SESSION_TICKET", "SW_KEY_UPDATE", "SR_KEY_UPDATE"}
          /\ s.st # "OK" => s.flow = "WRITING"
          /\ \/ s.pha = Ext
             \/ opt.pha /\ s.pha = "requestPending" /\ (opt.eager \/ AboutToAsk(s))
             \/ opt.pha /\ s.pha = "requested" /\ s.tr = PhaReqTr /\ s.certReq = "sent"
          /\ s.certReq = "sent" /\ s.pha # "requested" => s.peerCert = opt.cert
       \/ /\ s.st = "SW_CERT_REQ" /\ ra = "ok" /\ s.flow = "WRITING"
          /\ opt.pha /\ s.pha = "requestPending" /\ s.tr = PhaReqTr /\ s.certReq = "sent"
       \/ /\ opt.pha /\ s.pha = "requested" /\ s.flow = "READING"
          /\ s.peerCert = opt.cert
          /\ \/ s.st = "SR_CERT" /\ ra = (IF opt.cert THEN "pcv" ELSE "pfin") /\ s.tr = PhaCertTr
             \/ s.st = "SR_CERT_VRFY" /\ ra = "pfin" /\ opt.cert /\ s.tr = PhaAnswerTr

ServerStage(s, ra, wa) ==
    \/ ServerFirst(s, ra, wa)
    \/ ServerRetried(s, ra, wa)
    \/ ServerWrites(s, ra, wa)
    \/ ServerReads(s, ra, wa)
    \/ ServerDone(s, ra, wa)

-----------------------------------------------------------------------------
(* The invariant. *)

\* What a connection has in every stage.
Fields == DOMAIN InitialConn

Sound(c, r) ==
    /\ DOMAIN c = Fields
    /\ c.err = "none" /\ ~c.reneg /\ ~c.sched
    /\ c.keyUpdate \in {"none", "requested", "notRequested"}
    /\ c.sentTickets \in Nat /\ c.extraTickets \in Nat
    /\ c.extraTickets <= calls
    /\ c.sentTickets + c.extraTickets <= opt.tickets + calls
    /\ r = "client" => c.extraTickets = 0

\* Requests for a certificate that are not answered yet, and one the client answers.
Asked(s) ==
    IF \/ s.pha = "requested" /\ s.st \notin {"SR_CERT", "SR_CERT_VRFY", "SR_FINISHED"}
       \/ s.pha = "requestPending" /\ s.st = "SW_CERT_REQ"
    THEN 1 ELSE 0
Answered(c) == IF c.pha = "requested" /\ c.st = "CR_CERT_REQ" THEN 1 ELSE 0

\* The next record is a message of the handshake.
MessageWaits(q) == q # <<>> /\ Head(q).mt \notin {"DATA", "CCS"}

\* Why a side that is set up runs the state machine.
Reason(c, q) ==
    \/ c.keyUpdate # "none"
    \/ c.pha = "requestPending"
    \/ c.extraTickets > 0
    \/ MessageWaits(q)

ReadsOn(c, q) ==
    /\ c.st = "OK" /\ c.flow = "READING" => MessageWaits(q)
    /\ c.st = "OK" /\ (c.flow = "WRITING" \/ (c.flow = "FINISHED" /\ c.inInit)) => Reason(c, q)
    /\ c.st = "EARLY_DATA" /\ c.ed = "reading" /\ (c.flow # "FINISHED" \/ c.inInit) => MessageWaits(q)

\* What the server's application was given of the d records it has passed.
GivenData(ra, d) ==
    CASE Accepted -> d
      [] ~Accepted /\ ra \in {"hello", "retry", "early"} -> 0
      [] OTHER -> d - opt.early

\* A function of the two sides.
Two(x, y) == [r \in Role |-> IF r = "client" THEN x ELSE y]

\* Client c and server s, the records qc and qs they are to read, the data nc and ns
\* they have written and gc and gs they were given: the records on the way lead from
\* what the one reads next to what the other writes next.
Together(c, s, qc, qs, nc, ns, gc, gs) ==
    \E rc, wc, rs, ws : \E kc, ks, d \in Nat :
       /\ ClientStage(c, rc, wc, nc) /\ ServerStage(s, rs, ws) /\ gs = GivenData(rs, d)
       /\ Path("server", At(rs, s.rk[3], d, ks - Asked(s)), qs,
                         At(wc, c.wk[3], nc, kc - Answered(c)))
       /\ Path("client", At(rc, c.rk[3], gc, kc), qc, At(ws, s.wk[3], ns, ks))

Named(c, s, qc, qs, nc, ns, gc, gs) ==
    /\ opt \in OptionRecord /\ opt.ver = 13
    /\ calls \in Nat /\ calls <= opt.calls
    /\ conn = Two(c, s) /\ inbox = Two(qc, qs) /\ sent = Two(nc, ns) /\ read = Two(gc, gs)
    /\ nc \in Nat /\ ns \in Nat /\ gc \in Nat /\ gs \in Nat
    /\ Sound(c, "client") /\ Sound(s, "server") /\ ReadsOn(c, qc) /\ ReadsOn(s, qs)
    /\ Together(c, s, qc, qs, nc, ns, gc, gs)

Inv == \E c, s, qc, qs, nc, ns, gc, gs : Named(c, s, qc, qs, nc, ns, gc, gs)

\* Of the connections of TLS 1.3.
Inv13 == opt \in OptionRecord /\ (opt.ver = 13 => Inv)
=============================================================================
