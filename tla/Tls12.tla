------------------------------- MODULE Tls12 -------------------------------
(***************************************************************************)
(* The handshake of TLS 1.2 and below, and the part of the client that     *)
(* runs before the version is known (ssl/statem/statem_clnt.c and          *)
(* statem_srvr.c): full and abbreviated handshakes, tickets and            *)
(* renegotiation.  The tables read as in Tls13.                            *)
(***************************************************************************)
EXTENDS TlsState

\* key_exchange_expected() and the PSK suites whose ServerKeyExchange is optional.
SkeExpected == opt.kx = "ephemeral"
SkeOptional == opt.kx = "psk"

\* send_server_key_exchange()
SendServerKeyExchange == SkeExpected \/ (SkeOptional /\ opt.hint)

\* send_certificate_request() and cert_req_allowed(), with SSL_VERIFY_PEER alone.
SendCertificateRequest == opt.request /\ opt.auth = "cert"
CertReqAllowed == opt.auth = "cert"

-----------------------------------------------------------------------------
\* ossl_statem_client_read_transition()
ClientRead12(c) ==
    LET afterSke == {"DONE"} \cup (IF CertReqAllowed THEN {"CR"} ELSE {})
        afterStatus == IF SkeExpected THEN {"SKE"}
                       ELSE afterSke \cup (IF SkeOptional THEN {"SKE"} ELSE {})
        ticketOrCcs == IF c.ticket THEN {"NST"} ELSE {"CCS"}
    IN [CW_CLNT_HELLO |-> {"SH"},
        EARLY_DATA |-> {"SH"},
        CR_SRVR_HELLO |-> CASE c.hit -> ticketOrCcs
                            [] OTHER -> IF opt.auth = "cert" THEN {"CERT"} ELSE afterStatus,
        CR_CERT |-> afterStatus \cup (IF opt.status THEN {"STATUS"} ELSE {}),
        CR_CERT_STATUS |-> afterStatus,
        CR_KEY_EXCH |-> afterSke,
        CR_CERT_REQ |-> {"DONE"},
        CW_FINISHED |-> ticketOrCcs,
        CR_SESSION_TICKET |-> {"CCS"},
        CR_CHANGE |-> {"FIN"},
        OK |-> {"HR"}]

\* ossl_statem_server_read_transition()
ServerRead12(c) ==
    [BEFORE |-> {"CH"},
     OK |-> {"CH"},
     SW_SRVR_DONE |-> IF c.certReq = "sent" THEN {"CERT"} ELSE {"CKE"},
     SR_CERT |-> {"CKE"},
     SR_KEY_EXCH |-> IF c.peerCert THEN {"CV"} ELSE {"CCS"},
     SR_CERT_VRFY |-> {"CCS"},
     SR_CHANGE |-> IF opt.npn THEN {"NPN"} ELSE {"FIN"},
     SR_NEXT_PROTO |-> {"FIN"},
     SW_FINISHED |-> {"CCS"}]

-----------------------------------------------------------------------------
\* ossl_statem_client_write_transition(); checkOk is what ssl3_renegotiate_check() says.
ClientWrite12(c, checkOk) ==
    [OK |-> IF c.reneg THEN "CW_CLNT_HELLO" ELSE "READ",
     BEFORE |-> "CW_CLNT_HELLO",
     CW_CLNT_HELLO |-> CASE c.ed # "connecting" -> "READ"
                         [] OTHER -> IF "client" \in opt.compat THEN "CW_CHANGE" ELSE "EARLY_DATA",
     CR_SRVR_HELLO |-> IF "client" \in opt.compat /\ c.ed # "finishedWriting"
                       THEN "CW_CHANGE" ELSE "CW_CLNT_HELLO",
     EARLY_DATA |-> "READ",
     CR_SRVR_DONE |-> IF c.certReq = "none" THEN "CW_KEY_EXCH" ELSE "CW_CERT",
     CW_CERT |-> "CW_KEY_EXCH",
     CW_KEY_EXCH |-> IF c.certReq = "cert" THEN "CW_CERT_VRFY" ELSE "CW_CHANGE",
     CW_CERT_VRFY |-> "CW_CHANGE",
     CW_CHANGE |-> CASE c.hrr = "pending" -> "CW_CLNT_HELLO"
                     [] c.hrr # "pending" /\ c.ed = "connecting" -> "EARLY_DATA"
                     [] OTHER -> IF opt.npn THEN "CW_NEXT_PROTO" ELSE "CW_FINISHED",
     CW_NEXT_PROTO |-> "CW_FINISHED",
     CW_FINISHED |-> IF c.hit THEN "OK" ELSE "READ",
     CR_FINISHED |-> IF c.hit THEN "CW_CHANGE" ELSE "OK",
     CR_HELLO_REQ |-> IF checkOk THEN "CW_CLNT_HELLO" ELSE "OK"]

\* ossl_statem_server_write_transition()
ServerWrite12(c) ==
    LET afterSke == IF SendCertificateRequest THEN "SW_CERT_REQ" ELSE "SW_SRVR_DONE"
        afterStatus == IF SendServerKeyExchange THEN "SW_KEY_EXCH" ELSE afterSke
        ticketOrCcs == IF c.ticket THEN "SW_SESSION_TICKET" ELSE "SW_CHANGE"
    IN [OK |-> IF c.helloReq THEN "SW_HELLO_REQ" ELSE "READ",
        BEFORE |-> "READ",
        SW_HELLO_REQ |-> "OK",
        SR_CLNT_HELLO |-> IF ~c.reneg /\ ~FirstHandshake(c) THEN "OK" ELSE "SW_SRVR_HELLO",
        SW_SRVR_HELLO |-> CASE c.hit -> ticketOrCcs
                            [] OTHER -> IF opt.auth = "cert" THEN "SW_CERT" ELSE afterStatus,
        SW_CERT |-> IF opt.status THEN "SW_CERT_STATUS" ELSE afterStatus,
        SW_CERT_STATUS |-> afterStatus,
        SW_KEY_EXCH |-> afterSke,
        SW_CERT_REQ |-> "SW_SRVR_DONE",
        SW_SRVR_DONE |-> "READ",
        SR_FINISHED |-> IF c.hit THEN "OK" ELSE ticketOrCcs,
        SW_SESSION_TICKET |-> "SW_CHANGE",
        SW_CHANGE |-> "SW_FINISHED",
        SW_FINISHED |-> IF c.hit THEN "READ" ELSE "OK"]

\* ssl3_renegotiate_check() when it finds the time right.
RenegotiateCheck(c) ==
    [c EXCEPT !.inInit = TRUE, !.helloReq = TRUE, !.sched = FALSE, !.total = TRUE]

\* Mutant: a ClientHello out of the blue does not start a new transcript.
LeavingServer12_NoSetUp(c) == [c EXCEPT !.helloReq = IF c.st = "OK" THEN FALSE ELSE @]

\* What the transitions change besides the state.
LeavingClient12(c, checkOk) ==
    IF c.st = "CR_HELLO_REQ" /\ checkOk THEN SetUp(RenegotiateCheck(c), "client") ELSE c
LeavingServer12(c) ==
    IF c.st # "OK" THEN c
    ELSE IF c.helloReq THEN [c EXCEPT !.helloReq = FALSE] ELSE SetUp(c, "server")

-----------------------------------------------------------------------------
\* The client's write keys after a ClientHello or a ChangeCipherSpec of state t.
AfterSend12(c, t) ==
    CASE \/ t = "CW_CLNT_HELLO" /\ c.ed = "connecting" /\ "client" \notin opt.compat
         \/ t = "CW_CHANGE" /\ c.hrr # "pending" /\ c.ed = "connecting" ->
            [c EXCEPT !.wk = EarlyKey(c)]
      [] \/ t = "CW_CHANGE" /\ c.hrr # "pending" /\ c.ed # "connecting"
         \/ t = "SW_CHANGE" -> [c EXCEPT !.wk = KeyBlock(c)]
      [] t = "SW_HELLO_REQ" -> [c EXCEPT !.tr = <<>>]
      [] OTHER -> c

\* tls_process_change_cipher_spec()
ProcessCcs(c) == [c EXCEPT !.ccs = TRUE, !.rk = KeyBlock(c)]

\* tls_process_as_hello_retry_request(): ClientHello1 is replaced by its hash.
HelloRetryRequest(c) ==
    [c EXCEPT !.hrr = "pending", !.tr = <<"HASH", "SH">>,
              !.wk = IF c.ed = "finishedWriting" THEN NoKey ELSE @]

\* ossl_statem_client_process_message(), TLS 1.2.
ClientProcess12(c, m) ==
    CASE m.mt = "SH" /\ m.hrr -> HelloRetryRequest(c)
      [] m.mt = "SH" /\ ~m.hrr -> [c EXCEPT !.hit = m.hit, !.ticket = m.ticket]
      [] m.mt = "CR" -> [c EXCEPT !.certReq = IF opt.cert THEN "cert" ELSE "empty"]
      [] m.mt = "CCS" -> ProcessCcs(c)
      [] m.mt = "HR" -> [c EXCEPT !.reneg = TRUE, !.newSession = FALSE, !.sched = TRUE]
      [] OTHER -> c

\* tls_process_client_hello() and its post processing, TLS 1.2.  hit is what
\* ssl_get_prev_session() found: the session of this connection, or a new one starts.
ClientHello12(c, m, hit) ==
    [c EXCEPT !.hit = hit, !.ticket = opt.tickets > 0, !.handshakes = @ + 1,
              !.peerCert = hit /\ @,
              !.newSession = @ \/ (~c.reneg /\ ~FirstHandshake(c)),
              !.reneg = @ \/ ~FirstHandshake(c)]

\* The server refuses a renegotiation it did not ask for and does not allow.
RefusesRenegotiation(c) == ~c.reneg /\ ~FirstHandshake(c) /\ ~opt.allowReneg

\* ossl_statem_server_process_message(), TLS 1.2.
ServerProcess12(c, m, hit) ==
    CASE m.mt = "CH" -> ClientHello12(c, m, hit)
      [] m.mt = "CERT" -> [c EXCEPT !.peerCert = m.full]
      [] m.mt = "CCS" -> ProcessCcs(c)
      [] m.mt = "FIN" -> [c EXCEPT !.cleanup = TRUE]
      [] OTHER -> c

\* Messages after which the TLS 1.2 side stops reading and writes.
EndsReading12(m) ==
    \/ m.mt \in {"CH", "DONE", "FIN", "HR"}
    \/ m.mt = "SH" /\ m.hrr
=============================================================================
