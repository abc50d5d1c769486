------------------------------- MODULE Tls13 -------------------------------
(***************************************************************************)
(* The TLS 1.3 half of the handshake state machines (ssl/statem/           *)
(* statem_clnt.c and statem_srvr.c): which message may come next, which    *)
(* one is sent next, and the keys, transcripts and flags each changes.     *)
(*                                                                         *)
(* A read table gives the messages accepted in a state, a write table the  *)
(* state to go to, where "READ" ends the writing; a state without an entry *)
(* is an error.  Compressed certificates go the way of certificates.       *)
(***************************************************************************)
EXTENDS TlsState

\* ossl_statem_client13_read_transition()
ClientRead13(c) ==
    [CW_CLNT_HELLO |-> {"SH"},
     CR_SRVR_HELLO |-> {"EE"},
     CR_ENCRYPTED_EXTENSIONS |-> IF c.hit THEN {"FIN"} ELSE {"CR", "CERT"},
     CR_CERT_REQ |-> {"CERT"},
     CR_CERT |-> {"CV"},
     CR_CERT_VRFY |-> {"FIN"},
     OK |-> {"NST", "KU"} \cup (IF c.pha = "ext" THEN {"CR"} ELSE {})]

\* ossl_statem_server13_read_transition()
ServerRead13(c) ==
    LET answer == IF c.certReq = "sent" THEN {"CERT"} ELSE {"FIN"} IN
    [EARLY_DATA |-> CASE c.hrr = "pending" -> {"CH"}
                      [] c.hrr # "pending" /\ c.early = "accepted" -> {"EOED"}
                      [] OTHER -> answer,
     SR_END_OF_EARLY_DATA |-> answer,
     SW_FINISHED |-> answer,
     SR_CERT |-> IF c.peerCert THEN {"CV"} ELSE {"FIN"},
     SR_CERT_VRFY |-> {"FIN"},
     OK |-> IF c.ed = "reading" THEN {}
            ELSE {"KU"} \cup (IF c.pha = "requested" THEN {"CERT"} ELSE {})]

-----------------------------------------------------------------------------
\* ossl_statem_client13_write_transition()
ClientWrite13(c) ==
    LET answer == IF c.certReq = "none" THEN "CW_FINISHED" ELSE "CW_CERT" IN
    [CR_CERT_REQ |-> IF c.pha = "requested" THEN "CW_CERT" ELSE "ERROR",
     CR_FINISHED |-> CASE c.ed \in {"writeRetry", "finishedWriting"} -> "PENDING_EARLY_DATA_END"
                       [] OTHER -> IF "client" \in opt.compat /\ c.hrr = "none"
                                   THEN "CW_CHANGE" ELSE answer,
     PENDING_EARLY_DATA_END |-> IF c.early = "accepted" THEN "CW_END_OF_EARLY_DATA" ELSE answer,
     CW_END_OF_EARLY_DATA |-> answer,
     CW_CHANGE |-> answer,
     CW_CERT |-> IF c.certReq = "cert" THEN "CW_CERT_VRFY" ELSE "CW_FINISHED",
     CW_CERT_VRFY |-> "CW_FINISHED",
     CR_KEY_UPDATE |-> "OK",
     CW_KEY_UPDATE |-> "OK",
     CR_SESSION_TICKET |-> "OK",
     CW_FINISHED |-> "OK",
     OK |-> IF c.keyUpdate # "none" THEN "CW_KEY_UPDATE" ELSE "READ"]

\* ossl_statem_server13_write_transition()
ServerWrite13(c) ==
    LET hello == IF c.hrr = "pending" THEN "EARLY_DATA" ELSE "SW_ENCRYPTED_EXTENSIONS" IN
    [OK |-> CASE c.keyUpdate # "none" -> "SW_KEY_UPDATE"
              [] c.keyUpdate = "none" /\ c.pha = "requestPending" -> "SW_CERT_REQ"
              [] OTHER -> IF c.extraTickets > 0 THEN "SW_SESSION_TICKET" ELSE "READ",
     SR_CLNT_HELLO |-> "SW_SRVR_HELLO",
     SW_SRVR_HELLO |-> IF "server" \in opt.compat /\ c.hrr # "complete" THEN "SW_CHANGE" ELSE hello,
     SW_CHANGE |-> hello,
     SW_ENCRYPTED_EXTENSIONS |-> CASE c.hit -> "SW_FINISHED"
                                   [] OTHER -> IF opt.request THEN "SW_CERT_REQ" ELSE "SW_CERT",
     SW_CERT_REQ |-> IF c.pha = "requestPending" THEN "OK" ELSE "SW_CERT",
     SW_CERT |-> "SW_CERT_VRFY",
     SW_CERT_VRFY |-> "SW_FINISHED",
     SW_FINISHED |-> "EARLY_DATA",
     EARLY_DATA |-> "READ",
     SR_FINISHED |-> IF (c.pha = "requested" \/ c.ticket) /\ opt.tickets > c.sentTickets
                     THEN "SW_SESSION_TICKET" ELSE "OK",
     SR_KEY_UPDATE |-> "OK",
     SW_KEY_UPDATE |-> "OK",
     SW_SESSION_TICKET |-> CASE ~FirstHandshake(c) /\ c.extraTickets > 0 -> "SW_SESSION_TICKET"
                             [] OTHER -> IF c.hit \/ opt.tickets <= c.sentTickets
                                         THEN "OK" ELSE "SW_SESSION_TICKET"]

\* Mutant: the answered request for post-handshake authentication stays on record.
LeavingServer13_KeepsRequest(c) ==
    [c EXCEPT !.pha = IF c.st = "SW_CERT_REQ" /\ @ = "requestPending" THEN "requested" ELSE @]

\* What the server's transition changes besides the state.
LeavingServer13(c) ==
    [c EXCEPT !.pha = CASE c.st = "SW_CERT_REQ" /\ @ = "requestPending" -> "requested"
                        [] c.st = "SR_FINISHED" /\ @ = "requested" -> "ext"
                        [] OTHER -> @]

-----------------------------------------------------------------------------
\* Did the client put off its handshake write keys (early data, middlebox compatibility)?
WriteKeysDeferred(c) == c.ed # "none" \/ "client" \in opt.compat

\* Mutant: the deferred write keys are installed whenever a Finished is made.
BeforeSend13_NoCertReqCheck(c, r, t) ==
    CASE t = "CW_FINISHED" /\ WriteKeysDeferred(c) -> [c EXCEPT !.wk = HandshakeKey(c)]
      [] t = "CW_CERT" /\ FirstHandshake(c) /\ WriteKeysDeferred(c) ->
            [c EXCEPT !.wk = HandshakeKey(c)]
      [] t = "SW_CERT_REQ" /\ c.pha = "requestPending" -> [c EXCEPT !.tr = c.phaTr]
      [] OTHER -> c

\* What constructing the message of state t changes before it is written:
\* tls_construct_client_certificate(), tls_construct_finished() and
\* tls_construct_certificate_request().
BeforeSend13(c, r, t) ==
    CASE \/ t = "CW_CERT" /\ FirstHandshake(c) /\ WriteKeysDeferred(c)
         \/ t = "CW_FINISHED" /\ c.certReq = "none" /\ WriteKeysDeferred(c) ->
            [c EXCEPT !.wk = HandshakeKey(c)]
      [] t = "SW_CERT_REQ" /\ c.pha = "requestPending" -> [c EXCEPT !.tr = c.phaTr]
      [] t = "SW_SESSION_TICKET" /\ c.sentTickets = 0 /\ c.extraTickets = 0 -> Finished(c, r)
      [] OTHER -> c

\* tls13_save_handshake_digest_for_pha(): exactly once.
SavedForPha(c) == [c EXCEPT !.phaTr = IF @ = <<>> THEN c.tr ELSE @]

\* The server's handshake keys; the read side waits for the end of early data.
ServerHandshakeKeys(c) ==
    LET k == HandshakeKey([hsTr |-> c.tr]) IN
    [c EXCEPT !.hsTr = c.tr, !.wk = k, !.rk = IF c.early = "accepted" THEN @ ELSE k]

\* ossl_statem_client_post_work() and ossl_statem_server_post_work() in TLS 1.3.
AfterSend13(c, t) ==
    CASE t = "CW_FINISHED" ->
            LET s == SavedForPha(c) IN
            IF c.pha = "requested" THEN s ELSE [s EXCEPT !.wk = AppKey(c)]
      [] \/ t = "SW_SRVR_HELLO" /\ c.hrr # "pending"
                /\ ~("server" \in opt.compat /\ c.hrr # "complete")
         \/ t = "SW_CHANGE" /\ c.hrr # "pending" -> ServerHandshakeKeys(c)
      [] t = "SW_FINISHED" -> [c EXCEPT !.sfTr = c.tr, !.wk = AppKey([sfTr |-> c.tr])]
      [] t \in {"CW_KEY_UPDATE", "SW_KEY_UPDATE"} -> [c EXCEPT !.wk = UpdatedKey(@)]
      [] OTHER -> c

-----------------------------------------------------------------------------
\* tls_process_server_hello(): the keys of the ServerHello.
ServerHelloKeys(c) ==
    LET k == HandshakeKey([hsTr |-> c.tr]) IN
    [c EXCEPT !.hsTr = c.tr, !.rk = k, !.wk = IF WriteKeysDeferred(c) THEN @ ELSE k]

\* ossl_statem_client_process_message() of message m in TLS 1.3; c.tr includes m.
ClientProcess13(c, m) ==
    CASE m.mt = "SH" -> ServerHelloKeys([c EXCEPT !.hit = m.hit])
      [] m.mt = "EE" -> [c EXCEPT !.early = IF m.early THEN "accepted" ELSE @]
      [] m.mt = "CR" -> [c EXCEPT !.certReq = IF opt.cert THEN "cert" ELSE "empty"]
      [] m.mt = "FIN" -> [c EXCEPT !.sfTr = c.tr, !.rk = AppKey([sfTr |-> c.tr])]
      [] OTHER -> c

\* final_early_data(): the server takes early data in the first flight of a resumption.
AcceptsEarlyData(c) == c.hit /\ c.ed = "accepting" /\ c.hrr = "none"

\* tls_process_client_hello() and its post processing in TLS 1.3 (final_key_share()).
ClientHello13(c, m) ==
    LET d == [c EXCEPT !.v13 = TRUE,
                       !.hit = opt.hit,
                       !.ticket = opt.tickets > 0,
                       !.pha = IF m.pha THEN "ext" ELSE @,
                       !.hrr = CASE @ = "pending" -> "complete"
                                 [] @ = "none" /\ opt.hrr -> "pending"
                                 [] OTHER -> @]
    IN CASE ~m.early -> d
         [] m.early /\ AcceptsEarlyData(d) ->
              [d EXCEPT !.early = "accepted", !.rk = EarlyKey(d)]
         [] OTHER -> [d EXCEPT !.early = "rejected"]

\* ossl_statem_server_process_message() of message m in TLS 1.3; c.tr includes m.
ServerProcess13(c, m) ==
    CASE m.mt = "CH" -> ClientHello13(c, m)
      [] m.mt = "EOED" ->
            IF c.ed = "reading" THEN [c EXCEPT !.ed = "finishedReading", !.rk = HandshakeKey(c)]
            ELSE Fail(c, "internal")
      [] m.mt = "CERT" -> [c EXCEPT !.peerCert = m.full, !.sentTickets = 0]
      [] m.mt = "FIN" ->
            LET s == SavedForPha(c) IN
            IF c.pha = "requested" THEN s
            ELSE [s EXCEPT !.cleanup = TRUE, !.rk = AppKey(c)]
      [] OTHER -> c

\* tls_process_key_update(), on either side.
ProcessKeyUpdate(c, m) ==
    [c EXCEPT !.rk = UpdatedKey(@),
              !.keyUpdate = IF m.request THEN "notRequested" ELSE @]

\* Mutant: the client goes on reading after a ticket, as it does in TLS 1.2.
EndsReading13_NotAfterTicket(c, m) ==
    \/ m.mt \in {"CH", "FIN", "KU"}
    \/ m.mt = "CR" /\ c.pha = "requested"
    \/ m.mt = "SH" /\ m.hrr

\* Messages after which the TLS 1.3 side stops reading and writes.
EndsReading13(c, m) ==
    \/ m.mt \in {"CH", "FIN", "KU", "NST"}
    \/ m.mt = "CR" /\ c.pha = "requested"
    \/ m.mt = "SH" /\ m.hrr
=============================================================================
