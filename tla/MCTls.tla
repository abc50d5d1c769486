------------------------------- MODULE MCTls -------------------------------
(***************************************************************************)
(* Configurations of TlsHandshake for TLC.                                 *)
(***************************************************************************)
EXTENDS TlsHandshake

Plain ==
    [ver |-> 13, compat |-> {}, hit |-> FALSE, hrr |-> FALSE, early |-> 0,
     readEarly |-> FALSE, request |-> FALSE, cert |-> FALSE, pha |-> FALSE,
     tickets |-> 1, auth |-> "cert", kx |-> "ephemeral", hint |-> FALSE,
     status |-> FALSE, npn |-> FALSE, allowReneg |-> FALSE, readAhead |-> FALSE,
     readDrives |-> TRUE, eager |-> FALSE, calls |-> 0, data |-> 0]

\* No client certificate is asked for; one is asked for and there is none; there is one.
ClientAuth == {<<FALSE, FALSE>>, <<TRUE, FALSE>>, <<TRUE, TRUE>>}

\* Every first handshake of TLS 1.3, with one record of data each way.
First13 ==
    {[Plain EXCEPT !.compat = compat, !.hit = hit, !.hrr = hrr, !.early = early,
                   !.readEarly = readEarly, !.request = auth[1], !.cert = auth[2],
                   !.data = 1] :
        compat \in SUBSET Role, hit \in BOOLEAN, hrr \in BOOLEAN, early \in {0, 2},
        readEarly \in BOOLEAN, auth \in ClientAuth}

\* Key updates, post-handshake authentication and tickets on request.
Post13 ==
    {[Plain EXCEPT !.pha = TRUE, !.cert = variant[1], !.tickets = variant[2],
                   !.compat = variant[3], !.calls = 2, !.data = 1] :
        variant \in {<<FALSE, 0, {}>>, <<TRUE, 2, Role>>}}

\* <<auth, kx, hint>> of the cipher suites of TLS 1.2.
Suites == {<<"cert", "ephemeral", FALSE>>, <<"cert", "static", FALSE>>,
           <<"cert", "psk", FALSE>>, <<"anon", "ephemeral", FALSE>>,
           <<"psk", "psk", TRUE>>, <<"psk", "psk", FALSE>>, <<"psk", "ephemeral", FALSE>>}

First12 ==
    {[Plain EXCEPT !.ver = 12, !.compat = Role, !.hit = hit, !.tickets = tickets,
                   !.status = status, !.npn = npn, !.auth = suite[1], !.kx = suite[2],
                   !.hint = suite[3], !.request = auth[1], !.cert = auth[2], !.data = 1] :
        hit \in BOOLEAN, tickets \in {0, 1}, status \in BOOLEAN, npn \in BOOLEAN,
        suite \in Suites, auth \in ClientAuth}

Renegotiations ==
    {[Plain EXCEPT !.ver = 12, !.allowReneg = allow, !.tickets = tickets, !.request = cert,
                   !.cert = cert, !.kx = "static", !.calls = 2, !.data = 1] :
        allow \in BOOLEAN, tickets \in {0, 1}, cert \in BOOLEAN}

\* One renegotiation at a time when records may wait in the read buffers.
ReadAhead == {[o EXCEPT !.readAhead = TRUE, !.calls = 1] : o \in Renegotiations}

\* Renegotiations in which SSL_write() and SSL_do_handshake() read records, too.
AnyCall == {[o EXCEPT !.readDrives = FALSE] : o \in Renegotiations}

\* The server asks for a certificate at any time.
Eager == {[o EXCEPT !.eager = TRUE] : o \in Post13}

AllOptions == First13 \cup Post13 \cup First12 \cup Renegotiations \cup ReadAhead
=============================================================================
