------------------------------ MODULE TlsState ------------------------------
(***************************************************************************)
(* What the handshake of a TLS client and a TLS server is made of: the     *)
(* fields of SSL_CONNECTION the state machine works on, the records in     *)
(* flight and the record keys.  The transition tables of TLS 1.3 and of    *)
(* TLS 1.2 are in Tls13 and Tls12, the state machine that drives them      *)
(* (ssl/statem/statem.c) is in TlsHandshake.                               *)
(*                                                                         *)
(* The transcript is the sequence of message types hashed so far.  A key   *)
(* is named by its level, by the transcript it is derived from and by the  *)
(* number of updates applied to it: a record can be read iff reader and    *)
(* writer hold the same key.                                               *)
(***************************************************************************)
EXTENDS Integers, Sequences

Role == {"client", "server"}
Peer(r) == IF r = "client" THEN "server" ELSE "client"

(* What the applications configured, fixed for the life of a connection:    *)
(* ver         the version that will be negotiated, 12 or 13                *)
(* compat      who has SSL_OP_ENABLE_MIDDLEBOX_COMPAT                       *)
(* hit         will the server resume the session of the first ClientHello? *)
(* hrr         is the first key share one the server cannot use?            *)
(* early       how much early data the client writes before SSL_connect()   *)
(* readEarly   does the server read it (SSL_read_early_data())?             *)
(* request     does the server ask for a client certificate?                *)
(* cert        does the client have one?                                    *)
(* pha         is post-handshake authentication enabled on both sides?      *)
(* tickets     how many session tickets a server sends (1.2: none or one)   *)
(* auth, kx, hint  the cipher suite of TLS 1.2 and the PSK identity hint    *)
(* status, npn OCSP stapling and next protocol negotiation (TLS 1.2)        *)
(* allowReneg  SSL_OP_ALLOW_CLIENT_RENEGOTIATION of the server              *)
(* readAhead   may a side find records waiting in its read buffer?          *)
(* readDrives  is it SSL_read() that reads the records of a renegotiation?  *)
(* eager       may the server ask for a certificate (post-handshake) while  *)
(*             it owes a KeyUpdate?                                         *)
(* calls, data bounds: API calls after the handshake, records of data       *)
OptionRecord ==
    [ver : {12, 13}, compat : SUBSET Role, hit : BOOLEAN, hrr : BOOLEAN,
     early : Nat, readEarly : BOOLEAN, request : BOOLEAN, cert : BOOLEAN,
     pha : BOOLEAN, tickets : Nat, auth : {"cert", "anon", "psk"},
     kx : {"ephemeral", "static", "psk"}, hint : BOOLEAN, status : BOOLEAN,
     npn : BOOLEAN, allowReneg : BOOLEAN, readAhead : BOOLEAN,
     readDrives : BOOLEAN, eager : BOOLEAN, calls : Nat, data : Nat]

VARIABLES
    opt,    \* the configuration of the connection
    conn,   \* the SSL_CONNECTION of each side
    inbox,  \* records sent to a side and not read by it, in order
    calls,  \* API calls made after the handshake
    sent,   \* records of application data written by each side
    read    \* and those its application was given

vars == <<opt, conn, inbox, calls, sent, read>>

-----------------------------------------------------------------------------
\* Record keys.

NoKey == <<"none", <<>>, 0>>
EarlyKey(c) == <<"early", c.tr, 0>>
HandshakeKey(c) == <<"handshake", c.hsTr, 0>>
AppKey(c) == <<"app", c.sfTr, 0>>
UpdatedKey(k) == [k EXCEPT ![3] = @ + 1]
\* TLS 1.2: one key block per handshake.
KeyBlock(c) == <<"tls12", <<>>, c.handshakes>>

\* SSL_IS_FIRST_HANDSHAKE: one of the two Finished has not been seen yet.
FirstHandshake(c) == ~(c.finSent /\ c.finRead)

-----------------------------------------------------------------------------
\* The message a state stands for, and the state a received message leads to.

MsgOf ==
    [CW_CLNT_HELLO |-> "CH", CW_CHANGE |-> "CCS", CW_END_OF_EARLY_DATA |-> "EOED",
     CW_CERT |-> "CERT", CW_CERT_VRFY |-> "CV", CW_FINISHED |-> "FIN",
     CW_KEY_EXCH |-> "CKE", CW_NEXT_PROTO |-> "NPN", CW_KEY_UPDATE |-> "KU",
     SW_HELLO_REQ |-> "HR", SW_SRVR_HELLO |-> "SH", SW_CHANGE |-> "CCS",
     SW_ENCRYPTED_EXTENSIONS |-> "EE", SW_CERT_REQ |-> "CR", SW_CERT |-> "CERT",
     SW_CERT_STATUS |-> "STATUS", SW_CERT_VRFY |-> "CV", SW_KEY_EXCH |-> "SKE",
     SW_SRVR_DONE |-> "DONE", SW_SESSION_TICKET |-> "NST", SW_FINISHED |-> "FIN",
     SW_KEY_UPDATE |-> "KU"]

ClientReadState ==
    [SH |-> "CR_SRVR_HELLO", EE |-> "CR_ENCRYPTED_EXTENSIONS", CR |-> "CR_CERT_REQ",
     CERT |-> "CR_CERT", STATUS |-> "CR_CERT_STATUS", CV |-> "CR_CERT_VRFY",
     SKE |-> "CR_KEY_EXCH", DONE |-> "CR_SRVR_DONE", NST |-> "CR_SESSION_TICKET",
     CCS |-> "CR_CHANGE", FIN |-> "CR_FINISHED", KU |-> "CR_KEY_UPDATE",
     HR |-> "CR_HELLO_REQ"]

ServerReadState ==
    [CH |-> "SR_CLNT_HELLO", EOED |-> "SR_END_OF_EARLY_DATA", CERT |-> "SR_CERT",
     CKE |-> "SR_KEY_EXCH", CV |-> "SR_CERT_VRFY", CCS |-> "SR_CHANGE",
     NPN |-> "SR_NEXT_PROTO", FIN |-> "SR_FINISHED", KU |-> "SR_KEY_UPDATE"]

ReadState(r) == IF r = "client" THEN ClientReadState ELSE ServerReadState

-----------------------------------------------------------------------------
\* A connection before SSL_connect() or SSL_accept().
\* ed is early_data_state, early is ext.early_data, sched is s3.renegotiate.
InitialConn ==
    [st |-> "BEFORE", flow |-> "UNINITED", inInit |-> TRUE, err |-> "none",
     v13 |-> FALSE, finSent |-> FALSE, finRead |-> FALSE, cleanup |-> FALSE,
     hit |-> FALSE, hrr |-> "none", early |-> "notSent", ed |-> "none",
     certReq |-> "none", peerCert |-> FALSE, pha |-> "none", keyUpdate |-> "none",
     ticket |-> FALSE, sentTickets |-> 0, extraTickets |-> 0,
     rk |-> NoKey, wk |-> NoKey, tr |-> <<>>, hsTr |-> <<>>, sfTr |-> <<>>, phaTr |-> <<>>,
     handshakes |-> 0, ccs |-> FALSE, reneg |-> FALSE, newSession |-> FALSE,
     sched |-> FALSE, helloReq |-> FALSE, total |-> FALSE]

\* tls_setup_handshake(): a handshake starts with an empty transcript.
SetUp(c, r) ==
    [c EXCEPT !.tr = <<>>,
              !.hit = IF r = "client" THEN FALSE ELSE @,
              !.certReq = IF r = "client" \/ ~FirstHandshake(c) THEN "none" ELSE @]

\* tls_finish_handshake(): after a Finished (cleanuphand) the handshake's flags go.
Finished(c, r) ==
    LET d == IF c.cleanup
             THEN [c EXCEPT !.reneg = FALSE, !.newSession = FALSE,
                            !.cleanup = FALSE, !.ticket = FALSE]
             ELSE c
    IN [d EXCEPT !.pha = IF r = "client" /\ c.v13 /\ @ = "requested" THEN "ext" ELSE @]

\* SSLfatal(): nothing happens on this side any more.
Fail(c, why) == [c EXCEPT !.flow = "ERROR", !.err = why]
=============================================================================
