---------------------------- MODULE TlsHandshake ----------------------------
(***************************************************************************)
(* A TLS client and a TLS server that both run this library's handshake    *)
(* state machine (ssl/statem/statem.c) over a reliable byte stream: the    *)
(* first handshake, TLS 1.3 post-handshake messages, TLS 1.2               *)
(* renegotiation, and the application data in between.                     *)
(*                                                                         *)
(* A step writes or reads one message, with all that comes before and      *)
(* after it in write_state_machine() or read_state_machine(): between two  *)
(* messages a call may return for want of I/O and the other side may run.  *)
(* flow is MSG_FLOW_*; a call that finds SSL_in_init() enters the machine. *)
(***************************************************************************)
EXTENDS Tls13, Tls12

CONSTANT Options    \* the configurations to consider

ASSUME OptionsAssumption == Options \subseteq OptionRecord

Init ==
    /\ opt \in Options
    /\ conn = [r \in Role |-> InitialConn]
    /\ inbox = [r \in Role |-> <<>>]
    /\ calls = 0
    /\ sent = [r \in Role |-> 0]
    /\ read = [r \in Role |-> 0]

-----------------------------------------------------------------------------
\* The table of a side at the moment: TLS 1.3's once that version is agreed on.

ReadTable(c, r) ==
    IF r = "client" THEN IF c.v13 THEN ClientRead13(c) ELSE ClientRead12(c)
    ELSE IF c.v13 THEN ServerRead13(c) ELSE ServerRead12(c)

WriteTable(c, r, checkOk) ==
    IF r = "client" THEN IF c.v13 THEN ClientWrite13(c) ELSE ClientWrite12(c, checkOk)
    ELSE IF c.v13 THEN ServerWrite13(c) ELSE ServerWrite12(c)

WriteTransition(c, r, checkOk) ==
    LET table == WriteTable(c, r, checkOk)
    IN IF c.st \in DOMAIN table THEN table[c.st] ELSE "ERROR"

Leaving(c, r, checkOk) ==
    IF r = "client" THEN IF c.v13 THEN c ELSE LeavingClient12(c, checkOk)
    ELSE IF c.v13 THEN LeavingServer13(c) ELSE LeavingServer12(c)

-----------------------------------------------------------------------------
\* Writing.

\* States in which pre_work ends the run of the state machine.
Stops(c, r, t) ==
    \/ t = "OK"
    \/ t = "EARLY_DATA" /\ (r = "client" \/ c.ed = "accepting")
    \/ t = "PENDING_EARLY_DATA_END" /\ c.ed \notin {"finishedWriting", "none"}

\* The ClientHello: a second one goes out in the clear again, and early data is
\* held to be rejected until the server says otherwise.
BeforeClientHello(c) ==
    [c EXCEPT !.wk = IF c.early = "rejected" THEN NoKey ELSE @,
              !.early = IF c.ed = "connecting" THEN "rejected" ELSE @,
              !.pha = IF opt.pha THEN "ext" ELSE @,
              !.handshakes = IF c.hrr = "pending" THEN @ ELSE @ + 1]

\* A HelloRetryRequest drops the session and restarts the transcript.
BeforeServerHello(c) ==
    IF c.v13 /\ c.hrr = "pending" THEN [c EXCEPT !.hit = FALSE, !.tr = <<"HASH">>] ELSE c

\* Mutant: the ticket asked for is not counted off.
TicketSent_KeepsExtra(c) == [c EXCEPT !.sentTickets = @ + 1]

\* tls_update_ticket_counts()
TicketSent(c) ==
    [c EXCEPT !.sentTickets = @ + 1, !.extraTickets = IF @ > 0 THEN @ - 1 ELSE 0]

\* What pre_work and the construction function of state t change.
BeforeSend(c, r, t) ==
    LET d == IF c.v13 THEN BeforeSend13(c, r, t) ELSE c IN
    CASE t = "CW_CLNT_HELLO" -> BeforeClientHello(d)
      [] t = "SW_SRVR_HELLO" -> BeforeServerHello(d)
      [] t = "SW_CERT_REQ" -> [d EXCEPT !.certReq = "sent"]
      [] t = "CW_FINISHED" -> [d EXCEPT !.finSent = TRUE,
                                        !.cleanup = @ \/ c.pha # "requested"]
      [] t = "SW_FINISHED" -> [d EXCEPT !.finSent = TRUE]
      [] t \in {"CW_KEY_UPDATE", "SW_KEY_UPDATE"} -> [d EXCEPT !.keyUpdate = "none"]
      [] t = "SW_SESSION_TICKET" -> IF c.v13 THEN TicketSent(d) ELSE d
      [] OTHER -> d

\* The record of state t, written by d; c is the connection before its construction.
Message(c, d, t) ==
    LET mt == MsgOf[t] IN
    CASE mt = "CH" -> [mt |-> mt, key |-> d.wk, early |-> c.ed = "connecting",
                       pha |-> opt.pha, resume |-> ~c.newSession]
      [] mt = "SH" -> [mt |-> mt, key |-> d.wk, hrr |-> d.hrr = "pending", hit |-> d.hit,
                       ticket |-> d.ticket]
      [] mt = "EE" -> [mt |-> mt, key |-> d.wk, early |-> d.early = "accepted"]
      [] mt = "CERT" -> [mt |-> mt, key |-> d.wk, full |-> c.certReq # "empty"]
      [] mt = "FIN" -> [mt |-> mt, key |-> d.wk, digest |-> d.tr]
      [] mt = "KU" -> [mt |-> mt, key |-> d.wk, request |-> c.keyUpdate = "requested"]
      [] OTHER -> [mt |-> mt, key |-> d.wk]

\* ssl3_do_write(): which messages the writer hashes.
Hashed(c, mt) == mt # "CCS" /\ ~(c.v13 /\ mt \in {"NST", "KU"})

AfterSend(c, t) ==
    LET d == IF Hashed(c, MsgOf[t]) THEN [c EXCEPT !.tr = Append(@, MsgOf[t])] ELSE c
    IN IF c.v13 THEN AfterSend13(d, t) ELSE AfterSend12(d, t)

Sending(r, m) == inbox' = [inbox EXCEPT ![Peer(r)] = Append(@, m)]

\* One turn of write_state_machine() in state t.
WriteMessage(c, r, t) ==
    LET b == [c EXCEPT !.st = t] IN
    IF t \notin DOMAIN MsgOf
    THEN /\ conn' = [conn EXCEPT ![r] =
                       IF Stops(c, r, t)
                       THEN [Finished(b, r) EXCEPT !.flow = "FINISHED", !.inInit = FALSE]
                       ELSE b]
         /\ UNCHANGED inbox
    ELSE LET d == BeforeSend(b, r, t) IN
         /\ conn' = [conn EXCEPT ![r] = AfterSend(d, t)]
         /\ Sending(r, Message(b, d, t))

\* What RECORD_LAYER_read_pending() lets ssl3_renegotiate_check() say.
RenegotiateChecks(r) == IF opt.readAhead /\ inbox[r] # <<>> THEN BOOLEAN ELSE {TRUE}

Write(r) ==
    /\ conn[r].flow = "WRITING"
    /\ \E checkOk \in RenegotiateChecks(r) :
          LET t == WriteTransition(conn[r], r, checkOk)
              c == Leaving(conn[r], r, checkOk)
          IN CASE t = "READ" -> /\ conn' = [conn EXCEPT ![r] = [c EXCEPT !.flow = "READING"]]
                                /\ UNCHANGED inbox
               [] t = "ERROR" -> /\ conn' = [conn EXCEPT ![r] = Fail(c, "internal")]
                                 /\ UNCHANGED inbox
               [] OTHER -> WriteMessage(c, r, t)
    /\ UNCHANGED <<opt, calls, sent, read>>

-----------------------------------------------------------------------------
\* Reading.

\* ossl_statem_skip_early_data()
SkipsEarlyData(c, r) ==
    /\ r = "server"
    /\ c.early = "rejected"
    /\ c.st = "EARLY_DATA"
    /\ c.hrr # "complete"

\* Mutant: only servers take application data before a renegotiation has begun.
AppDataAllowed_Server(c, r, inRead) ==
    inRead /\ c.total /\ r = "server" /\ c.st \in {"BEFORE", "SR_CLNT_HELLO"}

\* ossl_statem_app_data_allowed(); inRead: is SSL_read() running (in_read_app_data)?
AppDataAllowed(c, r, inRead) ==
    /\ inRead
    /\ c.total
    /\ c.st \in (IF r = "client" THEN {"CW_CLNT_HELLO"} ELSE {"BEFORE", "SR_CLNT_HELLO"})

\* Is the call that reads the next record of a handshake an SSL_read()?
InReads == IF opt.readDrives THEN {TRUE} ELSE BOOLEAN

\* The record layer ignores a ChangeCipherSpec in the first handshake of TLS 1.3.
IgnoresCcs(c, m) ==
    /\ m.mt = "CCS"
    /\ c.v13 \/ c.hrr = "pending"
    /\ FirstHandshake(c)

\* Mutant: data is skipped wherever a handshake message is expected.
Dropped_AnyData(c, r, m) ==
    \/ IgnoresCcs(c, m)
    \/ m.mt = "DATA"
    \/ r = "client" /\ c.st # "OK" /\ m.mt = "HR"

\* A record no step of the handshake sees.
Dropped(c, r, m) ==
    \/ IgnoresCcs(c, m)
    \/ m.mt = "DATA" /\ SkipsEarlyData(c, r)
    \/ r = "client" /\ c.st # "OK" /\ m.mt = "HR"

\* tls_get_message_body(): the transcript, and the Finished check that uses it.
Received(c, r, m) ==
    LET d == IF c.v13 /\ r = "client" /\ c.st = "OK" /\ m.mt = "CR"
             THEN [c EXCEPT !.pha = "requested", !.tr = c.phaTr] ELSE c
        e == IF Hashed(c, m.mt) THEN [d EXCEPT !.tr = Append(@, m.mt)] ELSE d
    IN [e EXCEPT !.st = ReadState(r)[m.mt],
                 !.v13 = @ \/ (m.mt = "SH" /\ ~m.hrr /\ opt.ver = 13),
                 !.finRead = @ \/ m.mt = "FIN"]

\* process_message() and post_process_message(): hit is the server's session lookup.
Processed(c, r, m, hit) ==
    CASE m.mt = "KU" -> ProcessKeyUpdate(c, m)
      [] m.mt # "KU" /\ r = "client" ->
            IF c.v13 THEN ClientProcess13(c, m) ELSE ClientProcess12(c, m)
      [] m.mt # "KU" /\ r = "server" ->
            IF opt.ver = 13 THEN ServerProcess13(c, m) ELSE ServerProcess12(c, m, hit)

\* tls_process_finished(): the peer hashed the same messages, and in TLS 1.2 said so
\* after a ChangeCipherSpec.
FinishedError(c, m) ==
    CASE ~c.v13 /\ ~c.ccs -> "unexpected"
      [] (c.v13 \/ c.ccs) /\ m.digest # c.tr -> "digest"
      [] OTHER -> "none"

\* One message m of the handshake for r.
HandshakeMessage(c, r, m, hit) ==
    LET table == ReadTable(c, r)
        expected == c.st \in DOMAIN table /\ m.mt \in table[c.st]
        d == Processed(Received(c, r, m), r, m, hit)
    IN CASE ~expected -> Fail(c, "unexpected")
         [] expected /\ m.mt = "FIN" /\ FinishedError(c, m) # "none" ->
              Fail(c, FinishedError(c, m))
         [] OTHER ->
              LET e == IF m.mt = "FIN" THEN [d EXCEPT !.ccs = FALSE] ELSE d IN
              IF (IF d.v13 THEN EndsReading13(d, m) ELSE EndsReading12(m))
              THEN [e EXCEPT !.flow = "WRITING"] ELSE e

\* A ClientHello that is answered with the no_renegotiation alert.
RefusedHello(c) ==
    [c EXCEPT !.st = "SR_CLNT_HELLO", !.flow = "WRITING", !.tr = Append(@, "CH")]

Popped(r) == [inbox EXCEPT ![r] = Tail(@)]

\* The server's sessions: opt.hit tells for the first handshake; a renegotiation
\* resumes or not as the cache has it, if the client offers a session.
Hits(c, r, m) ==
    IF r = "client" \/ m.mt # "CH" THEN {FALSE}
    ELSE IF FirstHandshake(c) THEN {opt.hit}
    ELSE IF m.resume THEN BOOLEAN ELSE {FALSE}

\* One turn of read_state_machine(), or of the SSL_read() it serves.
Read(r) ==
    /\ conn[r].flow = "READING"
    /\ inbox[r] # <<>>
    /\ LET c == conn[r]
           m == Head(inbox[r])
       IN CASE Dropped(c, r, m) ->
                  conn' = conn /\ inbox' = Popped(r) /\ read' = read
            [] ~Dropped(c, r, m) /\ m.key # c.rk ->
                  conn' = [conn EXCEPT ![r] = Fail(c, "decrypt")] /\ UNCHANGED <<inbox, read>>
            [] ~Dropped(c, r, m) /\ m.key = c.rk /\ m.mt = "ALERT" ->
                  /\ conn' = [conn EXCEPT ![r] = Fail(c, "noRenegotiation")]
                  /\ UNCHANGED <<inbox, read>>
            [] ~Dropped(c, r, m) /\ m.key = c.rk /\ m.mt = "DATA" ->
                  \E inRead \in InReads :
                     IF AppDataAllowed(c, r, inRead)
                     THEN conn' = conn /\ inbox' = Popped(r) /\ read' = [read EXCEPT ![r] = @ + 1]
                     ELSE /\ conn' = [conn EXCEPT ![r] = Fail(c, "unexpected")]
                          /\ UNCHANGED <<inbox, read>>
            [] OTHER ->
                  /\ \E hit \in Hits(c, r, m) :
                        IF m.mt = "CH" /\ r = "server" /\ RefusesRenegotiation(c)
                        THEN /\ conn' = [conn EXCEPT ![r] = RefusedHello(c)]
                             /\ inbox' = [Popped(r) EXCEPT ![Peer(r)] =
                                            Append(@, [mt |-> "ALERT", key |-> c.wk])]
                        ELSE /\ conn' = [conn EXCEPT ![r] = HandshakeMessage(c, r, m, hit)]
                             /\ inbox' = Popped(r)
                  /\ read' = read
    /\ UNCHANGED <<opt, calls, sent>>

-----------------------------------------------------------------------------
\* Calls of the applications.

\* The state machine is not running and the last handshake is over.
InitFinished(r) ==
    conn[r].flow = "FINISHED" /\ ~conn[r].inInit /\ conn[r].st = "OK"

\* SSL_connect(), SSL_accept(), or the first SSL_write_early_data() or SSL_read_early_data().
Start(r) ==
    /\ conn[r].flow = "UNINITED"
    /\ conn' = [conn EXCEPT ![r] =
         [SetUp(@, r) EXCEPT !.flow = "WRITING",
              !.ed = IF r = "client" THEN IF opt.early > 0 THEN "connecting" ELSE "none"
                     ELSE IF opt.readEarly THEN "accepting" ELSE "none"]]
    /\ UNCHANGED <<opt, inbox, calls, sent, read>>

\* state_machine(), entered again because SSL_in_init() holds.
Enter(r) ==
    /\ conn[r].flow = "FINISHED"
    /\ conn[r].inInit
    /\ conn' = [conn EXCEPT ![r] =
                  [(IF @.reneg THEN SetUp(@, r) ELSE @) EXCEPT !.flow = "WRITING"]]
    /\ UNCHANGED <<opt, inbox, calls, sent, read>>

\* SSL_write_early_data() once the ClientHello is out.
WriteEarlyData ==
    LET c == conn["client"] IN
    /\ c.flow = "FINISHED" /\ c.st = "EARLY_DATA"
    /\ c.ed \in {"connecting", "writeRetry"}
    /\ sent["client"] < opt.early
    /\ conn' = [conn EXCEPT !["client"].ed = "writeRetry"]
    /\ Sending("client", [mt |-> "DATA", key |-> c.wk])
    /\ sent' = [sent EXCEPT !["client"] = @ + 1]
    /\ UNCHANGED <<opt, calls, read>>

\* SSL_connect() after the last SSL_write_early_data() (ossl_statem_check_finish_init()).
EndEarlyData ==
    /\ conn["client"].flow = "FINISHED" /\ conn["client"].st = "EARLY_DATA"
    /\ conn["client"].ed = "writeRetry" /\ sent["client"] = opt.early
    /\ conn' = [conn EXCEPT !["client"].ed = "finishedWriting", !["client"].inInit = TRUE]
    /\ UNCHANGED <<opt, inbox, calls, sent, read>>

\* SSL_read_early_data() when SSL_accept() has come back in it: it goes on reading, or
\* there is nothing to read and SSL_accept() is called.
ReadEarlyData ==
    LET c == conn["server"] IN
    /\ c.flow = "FINISHED" /\ c.st = "EARLY_DATA" /\ c.ed = "accepting"
    /\ conn' = [conn EXCEPT !["server"] =
         IF c.early = "accepted" THEN [c EXCEPT !.ed = "reading"]
         ELSE [c EXCEPT !.ed = "finishedReading", !.inInit = TRUE]]
    /\ UNCHANGED <<opt, inbox, calls, sent, read>>

\* SSL_read() outside a handshake: data, or a message that starts one.
ReadApp(r) ==
    LET c == conn[r]
        m == Head(inbox[r])
    IN /\ c.flow = "FINISHED" /\ ~c.inInit /\ inbox[r] # <<>>
       /\ c.st = "OK" \/ c.ed = "reading"
       /\ c.sched => FALSE \in RenegotiateChecks(r)
       /\ CASE IgnoresCcs(c, m) ->
                 conn' = conn /\ inbox' = Popped(r) /\ read' = read
            [] ~IgnoresCcs(c, m) /\ m.key # c.rk ->
                 conn' = [conn EXCEPT ![r] = Fail(c, "decrypt")] /\ UNCHANGED <<inbox, read>>
            [] m.key = c.rk /\ m.mt = "DATA" ->
                 conn' = conn /\ inbox' = Popped(r) /\ read' = [read EXCEPT ![r] = @ + 1]
            [] ~IgnoresCcs(c, m) /\ m.key = c.rk /\ m.mt \in {"CCS", "ALERT"} ->
                 conn' = [conn EXCEPT ![r] = Fail(c, "unexpected")] /\ UNCHANGED <<inbox, read>>
            [] OTHER ->
                 conn' = [conn EXCEPT ![r].inInit = TRUE] /\ UNCHANGED <<inbox, read>>
       /\ UNCHANGED <<opt, calls, sent>>

\* SSL_write(): a pending KeyUpdate or ticket goes first; a renegotiation, too, unless
\* records waiting in the read buffer put it off.
WriteApp(r) ==
    /\ InitFinished(r)
    /\ IF conn[r].keyUpdate # "none" \/ conn[r].extraTickets > 0
       THEN /\ conn' = [conn EXCEPT ![r].inInit = TRUE]
            /\ UNCHANGED <<inbox, sent>>
       ELSE /\ sent[r] < opt.data + (IF r = "client" THEN opt.early ELSE 0)
            /\ conn[r].sched => FALSE \in RenegotiateChecks(r)
            /\ Sending(r, [mt |-> "DATA", key |-> conn[r].wk])
            /\ sent' = [sent EXCEPT ![r] = @ + 1]
            /\ conn' = conn
    /\ UNCHANGED <<opt, calls, read>>

Call == calls < opt.calls /\ calls' = calls + 1

\* SSL_key_update()
KeyUpdate(r) ==
    /\ conn[r].v13 /\ InitFinished(r) /\ Call
    /\ \E type \in {"requested", "notRequested"} :
          conn' = [conn EXCEPT ![r].keyUpdate = type, ![r].inInit = TRUE]
    /\ UNCHANGED <<opt, inbox, sent, read>>

\* SSL_verify_client_post_handshake(), by an application that first writes the
\* KeyUpdate it owes, unless it is eager.
VerifyClientPostHandshake ==
    /\ conn["server"].v13 /\ InitFinished("server") /\ Call
    /\ conn["server"].pha = "ext"
    /\ opt.eager \/ conn["server"].keyUpdate = "none"
    /\ conn' = [conn EXCEPT !["server"].pha = "requestPending", !["server"].inInit = TRUE]
    /\ UNCHANGED <<opt, inbox, sent, read>>

\* SSL_new_session_ticket()
NewSessionTicket ==
    /\ conn["server"].v13 /\ ~FirstHandshake(conn["server"]) /\ Call
    /\ conn["server"].inInit => conn["server"].extraTickets > 0
    /\ conn' = [conn EXCEPT !["server"].extraTickets = @ + 1, !["server"].inInit = TRUE]
    /\ UNCHANGED <<opt, inbox, sent, read>>

\* SSL_renegotiate() and SSL_renegotiate_abbreviated(), by an application that waits
\* for the handshake under way to finish.
Renegotiate(r) ==
    /\ opt.ver = 12 /\ InitFinished(r) /\ Call
    /\ \E new \in BOOLEAN :
          conn' = [conn EXCEPT ![r].reneg = TRUE, ![r].newSession = new, ![r].sched = TRUE]
    /\ UNCHANGED <<opt, inbox, sent, read>>

\* The check at the start of SSL_read(), SSL_write() and SSL_do_handshake().  With
\* records waiting in the read buffer it fails: ReadApp may go first.
CheckRenegotiate(r) ==
    /\ conn[r].flow = "FINISHED" /\ ~conn[r].inInit
    /\ conn[r].sched
    /\ conn' = [conn EXCEPT ![r] = RenegotiateCheck(@)]
    /\ UNCHANGED <<opt, inbox, calls, sent, read>>

-----------------------------------------------------------------------------
\* What the library and an application that waits for it do by themselves.
Step(r) == Start(r) \/ Enter(r) \/ Write(r) \/ Read(r) \/ ReadApp(r) \/ CheckRenegotiate(r)

EarlyData == WriteEarlyData \/ EndEarlyData \/ ReadEarlyData

Next ==
    \/ \E r \in Role : Step(r) \/ WriteApp(r) \/ KeyUpdate(r) \/ Renegotiate(r)
    \/ EarlyData
    \/ VerifyClientPostHandshake
    \/ NewSessionTicket

\* Both applications keep calling while their connection waits for something.
Progress == (\E r \in Role : Step(r)) \/ EarlyData

Spec == Init /\ [][Next]_vars /\ WF_vars(Progress)

-----------------------------------------------------------------------------
\* Properties.

\* The type invariant, with the bounds of the counters: a side is never given more
\* data than was written, and a server sends no more tickets than it was told to.
TypeOK ==
    /\ \A r \in Role :
         /\ conn[r].st \in {"BEFORE", "OK", "EARLY_DATA", "PENDING_EARLY_DATA_END"}
                          \cup DOMAIN MsgOf
                          \cup {ReadState(r)[mt] : mt \in DOMAIN ReadState(r)}
         /\ conn[r].flow \in {"UNINITED", "WRITING", "READING", "FINISHED", "ERROR"}
         /\ conn[r].hrr \in {"none", "pending", "complete"}
         /\ conn[r].early \in {"notSent", "rejected", "accepted"}
         /\ conn[r].pha \in {"none", "ext", "requestPending", "requested"}
         /\ conn[r].keyUpdate \in {"none", "requested", "notRequested"}
         /\ conn[r].sentTickets \in 0 .. (opt.tickets + opt.calls)
         /\ conn[r].extraTickets \in 0 .. opt.calls
         /\ sent[r] \in Nat /\ read[r] \in 0 .. sent[Peer(r)]
    /\ calls \in 0 .. opt.calls

\* Both sides have finished their handshakes and everything sent has been read.
Settled == \A r \in Role : InitFinished(r) /\ inbox[r] = <<>>

\* Every record is read with the key it was written with, although each side changes
\* its keys in its own time: deferred for early data and middleboxes, at a Finished, a
\* ChangeCipherSpec or a KeyUpdate that crosses another one.
KeysInStep == \A r \in Role : conn[r].err # "decrypt"

\* Two sides running this state machine never send each other a message the other one
\* has no transition for, and no transition ends in "shouldn't happen": the read table
\* of one side and the write table of the other agree for every configuration and
\* every interleaving of calls, and application data meets a renegotiation only where
\* it is allowed, as long as SSL_read() is what reads it.
NeverUnexpected == \A r \in Role : conn[r].err \notin {"unexpected", "internal"}

\* The Finished messages verify: both sides hashed the same messages in the same order,
\* over HelloRetryRequests, post-handshake authentication and renegotiations.
TranscriptsAgree == \A r \in Role : conn[r].err # "digest"

\* When all is read the sides agree: on the keys in both directions, on resumption, on
\* the fate of early data, on post-handshake authentication being over, and the server
\* that asked for a certificate has the client's if there is one.
SidesAgree ==
    Settled =>
        LET c == conn["client"]
            s == conn["server"]
        IN /\ c.wk = s.rk /\ s.wk = c.rk
           /\ c.hit = s.hit
           /\ c.early = s.early
           /\ c.pha = s.pha
           /\ s.certReq = "sent" /\ ~s.hit => s.peerCert = opt.cert

\* Early data the server took no part of.
Discarded == IF conn["server"].early = "rejected" THEN opt.early ELSE 0

\* Application data is neither lost nor made up by a handshake it meets: all of it is
\* read, except early data, which is read as a whole or not at all.
DataAccountedFor ==
    Settled => /\ read["client"] = sent["server"]
               /\ read["server"] = sent["client"] - Discarded

\* Every handshake comes to an end on both sides, unless the server refuses it, and
\* every certificate the server asks for after the handshake is asked for and answered.
HandshakesComplete ==
    <>[]\/ Settled /\ conn["server"].pha \notin {"requestPending", "requested"}
        \/ \E r \in Role : conn[r].err = "noRenegotiation"
=============================================================================
