# A TLA+ verification project for QudoSSL Commercial

QudoSSL Commercial is OpenSSL 3.5 (`src/openssl/`) with a thin packaging layer
(`src/build/`, `src/docs/`). The logic that can go wrong in ways a test hardly
reaches is in OpenSSL's concurrent and protocol code. This project models six parts
of it:

- the RCU lock under which the lock-free hash table runs;
- the streams of a QUIC connection, from the application's call at one end to the
  application's call at the other;
- the receive buffer of a stream;
- the acknowledgement manager, on whose verdicts the streams rely;
- the key update of a QUIC connection;
- the TLS handshake state machine, client against server, in TLS 1.3 and 1.2.

TLC checks the models on small instances; TLAPS proves the RCU lock correct for any
number of threads, the acknowledgement manager and the key update for any number of
packets, the streams for any number of streams, packets and bytes, the receive buffer for
every size, and TLS 1.3 for every configuration and any number of records and calls.

## Inventory

| Component | State | Operations | Interacts with | What is hard |
|---|---|---|---|---|
| RCU lock (`crypto/threads_pthread.c`) | `reader_idx`, a counter per qp, ids, three mutexes, callback list | read lock/unlock, write lock/unlock, deref, assign, call, synchronize | hash table, configuration modules | lock-free readers, weak memory, order of retirement, lost wake-ups |
| QUIC flow control (`quic_fc.c`) | spent, credit, retired watermarks per stream and connection | consume, bump, receive, retire | packetiser, depacketiser, reader | two levels kept in step, credit lost in the network |
| Send buffer (`quic_sstream.c`) | which offsets are new, in flight, acknowledged; FIN | append, get frame, mark transmitted/lost/acked | packetiser, dispatcher | late acknowledgements, repeated losses |
| Receive buffer (`quic_rstream.c`, `quic_sf_list.c`, `ring_buf.h`) | sorted frames, ring buffer, read offset | queue, read, peek, records, move, resize | depacketiser, reader | overlap, gaps, wrap-around |
| Stream map (`quic_stream_map.c`) | send and receive state, active list, deletion | the transitions of RFC 9000 section 3, update_state | everything above | a stream with work that nobody looks at |
| TX packetiser (`quic_txp.c`), RX depacketiser (`quic_rx_depack.c`), dispatcher (`quic_fifd.c`) | flags of frames due; packets in flight | build, commit, process, on_acked, on_lost | all stream components | frames that must be repeated |
| Stream API (`quic_impl.c`) | stream objects | write, read, conclude, reset, free | stream map | calls in any state |
| Acknowledgement manager (`quic_ackm.c`) | packets in flight, numbers received, loss and ACK timers | on_tx, on_rx, on_ack, timeout, get_ack_frame | packetiser, record layer, dispatcher, congestion control | timers against late acknowledgements; bounded memory of what was received |
| Congestion control (`cc_newreno.c`) | window, bytes in flight | on_data_sent, on_data_acked, on_data_lost | acknowledgement manager | counts kept in step |
| Connection-id managers, channel, port | ids, handshake and termination state, idle timer | rotate, retire, close, drain | all of QUIC | closing while data is in flight |
| Engine, reactor, thread assist | one mutex, condition variables, deadlines | tick, block, wake | channel, API | missed wake-ups |
| QUIC record layer and key update (`quic_record_rx.c`, `quic_record_tx.c`, `quic_channel.c`) | key epochs and slots, deferred packets, update in progress | start an update, detect one, decrypt, encrypt | channel, acknowledgement manager | packets across a key update, both ends updating at once |
| Hash table | buckets behind an RCU pointer | insert, delete, grow, iterate | RCU lock | readers during growth |
| TLS state machine (`ssl/statem/`, `rec_layer_s3.c`) | message flow, hand state, transcript, keys of each direction | one table per side and version, API calls | record layer | message order, when keys change, data in between |
| TLS session cache (`ssl_sess.c`) | cached sessions | add, remove, expire | TLS state machine | eviction while in use |
| Provider core, init, async jobs, DRBG, FIPS self test, BIO pairs | activation counts, run-once flags, job pool, seeds, rings | activate, fetch, start job, reseed | everything | lock order, fork, restart |
| Primitives, encoders, X.509, packaging scripts | - | - | - | data, not control |

`PROJECT.json` lists all of them with what is and is not modelled, and the
hazards of the code at the lines where they bite.

## Modules

| Module | What it is |
|---|---|
| `RcuLock` | the RCU lock, one action per atomic access or critical section |
| `RcuLockProofs` | its theorems |
| `MCRcuLock` | symmetry for TLC |
| `QuicStreams` | both ends of a QUIC connection's streams and the network between |
| `MCQuicStreams` | symmetry and model values for TLC |
| `QuicStreamsProofs` | what its operators do, facts about sums, and its theorems: credit, limits and final sizes, then the active list, bytes and delivery |
| `RecvBuffer` | what a receive buffer promises |
| `RStream` | the frame list and ring buffer that implement it |
| `RStreamProofs` | the proof that they do, and its other theorems |
| `PacketFate` | what the sender of packets is promised: each ends once, acknowledged only if handled |
| `QuicAckm` | the acknowledgement managers of both ends, which implement it |
| `QuicAckmProofs` | its theorems |
| `MCQuicAckm` | bounds per endpoint for TLC |
| `QuicKeyUpdate`, `MCQuicKeyUpdate` | key update at both ends; symmetry for TLC |
| `QuicKeyUpdateProofs` | its theorems |
| `NatLemmas` | least and greatest elements, quotients and remainders, for the proofs |
| `TlsState` | the fields of a TLS connection, its keys and records |
| `Tls13`, `Tls12` | the transition tables and message handlers of each version |
| `TlsHandshake` | the state machine that drives them, and the API calls |
| `MCTls` | the configurations for TLC |
| `TlsStages` | the stages of a connection of TLS 1.3 and the invariant about them |
| `TlsWriteProofs` | what writing does to a stage |
| `TlsProofs` | what reading and the calls do, the invariant, and the theorems |

Next to some definitions stands a second one of a similar name, such as
`NotReleased` beside `ReleasedIdx`: the same step with a plausible mistake in it.
They are not used by the specification; `PROJECT.json` pairs each with the
property that notices the mistake.

### RcuLock

`pc[t]` is the place of thread t in `ossl_rcu_read_lock`, `ossl_rcu_read_unlock`,
the publishing sequence of a caller (`write_lock`, `assign_uptr`, `rcu_call`,
`write_unlock`, as in `ossl_ht_insert`), or `ossl_synchronize_rcu`. The other
variables have the names of the fields of `struct rcu_lock_st`.

Memory is weak. `reader_idx` is the history of its stores, and a thread may load
any store not older than its *view*. Acquire operations join the view that was
released with what they read; mutexes hand on views; relaxed operations do
neither. So `get_hold_current_qp` can load a stale index as often as the memory
orders in the code permit, and the only thing that makes its re-check work is the
`ATOMIC_ADD_FETCH(users, 0, RELEASE)` of `update_qp`, exactly as the comment there
says. The spin in `ossl_synchronize_rcu` may return any value the counter had
since that call's own update (`sawZero`).

Not modelled: one thread holding several locks at once (the `thread_qps` table and
its `MAX_QPS` limit), `ossl_rcu_lock_free`, allocation failures.

### QuicStreams

`st[e][s]` is the `QUIC_STREAM` of stream s at endpoint e, with its send buffer
(`new`, `acked` and what is in packets), its TXFC (`txSwm`, `txCwm`), its RXFC
(`rx`), its receive buffer (`got`), its two state machines and its `want_` flags;
`conn[e]` has the connection-level controllers. A slot of `pkt` is a packet that the
network may still deliver (`onWire`) or that the sender still counts on
(`inflight`); the two ends in either order, so that an acknowledged packet was
delivered, and a packet taken as lost may arrive late.

Each action is a whole handler: `Write`, `Conclude`, `ConcludeByEmptyWrite`,
`Reset`, `Free`, `Read`, `ReadReset` for the API; `TxPacket` for building,
committing and writing one packet with its bookkeeping; `Deliver` for the
depacketiser over all frames of a packet; `Ack` and `Lose` for the dispatcher. The
packetiser chooses how much of what is due goes into a packet, since room in a
packet is not modelled. Elapsed time decides in the code whether a window is doubled;
here that is a free choice at each read.

Streams exist at both ends from the start; stream creation, MAX_STREAMS, the accept
queue, collection of streams and connection closing are not modelled yet. After a
protocol error an endpoint does nothing more. A failure of the record layer after a
packet was committed is left out: the channel then closes the connection.

### RecvBuffer and RStream

`RecvBuffer` is the buffer as QuicStreams uses it: a set of bytes, an offset, and
whether the end is known. `RStream` is the code: a sorted list of frames that keep
pointers into packets until `MoveToRbuf` copies them into a ring buffer. The value
of a byte is its offset, so a copy to the wrong place is seen. `ImplementsRecvBuffer`
is the abstract specification under the mapping `got <- Received`: queueing is
`Receive`, reading is `Read`, and moving and resizing are stuttering. `RecvBuffer` reports
the end of the stream exactly with its last byte. The code does not when the ring buffer's
end cuts a record from the last frame; `CutsLast` says whether the reader asks for
such a record, and the run and the refinement theorem have it FALSE (see "Other
divergences"). Wiping of data (`cleanse`) and allocation failures are not modelled.

### QuicAckm and PacketFate

`PacketFate` is the promise that `Ack` and `Lose` of QuicStreams are built on: a packet
that was sent is at some time acknowledged or lost, not both and not twice, and it is
acknowledged only if the peer has handled it. It says nothing of how. `QuicAckm` is the
code of both ends, with the three places that drive it: the packetiser, which asks for
ACK frames and reports what it sent; the receiver, which decrypts a batch of datagrams
(`Decrypt`, with the check for duplicates) and then handles them one by one (`Handle`);
and the channel, which fires the loss timer (`Timeout`). `ImplementsPacketFate` maps
`out` to `history`, the list `tx_history`.

`sent[e]` is every packet ever sent, and any of them may arrive at any time, again, or
never. On the transmit side are the history, the counters, the deadline and the probes
that were asked for; on the receive side the set of numbers (`set`) with its
`watermark`, below which everything counts as received, the last ACK frame, and what
decides on the next. ACK frames have at most `FrameRanges` ranges and the set keeps at
most `MaxRanges`, and what is dropped moves the watermark. A packet that holds only an ACK
frame without ranges is no action of the model: the packet whose acknowledgement moves the
watermark is numbered above everything it makes the receiver forget and is stored
itself, so an ACK frame that is due has something to report.

Time is abstract: packets are sent in the order of their numbers, so the packets overdue
at some moment are a prefix of them (`Overdue`); a timer that is set may fire at any
time. RTT estimates, `pto_count` and ECN only scale delays or counts and are left out;
every packet has size 1, and is in flight iff it is ACK-eliciting. The model covers the
application data space after the handshake is confirmed: discarding the other spaces,
the anti-deadlock probes before that and the loss declared on a Retry
(`ossl_ackm_mark_packet_pseudo_lost`) are not modelled.

### QuicKeyUpdate

`rx`, `tx`, `ch` and `ackm` hold the fields of `OSSL_QRX`, `OSSL_QTX`, `QUIC_CHANNEL` and
`OSSL_ACKM` that a key update reads or writes. Keys are named by their epoch: a packet
authenticates iff the slot its phase bit selects holds the key of its own epoch. The
receiver has two slots, for the current and the next key, or during an update for the
current and the previous one. Datagrams are decrypted in batches before the first of
them is handled, so `batch` holds packets whose keys were chosen before the channel knew
of an update that an earlier packet of the batch completes. Both handshakes are
confirmed at the start. `Acked` says whether a 1-RTT packet of each side has been
acknowledged by then; the passing run needs it (see `key_update_twice`). Discarding of
old keys after a time is the action `RxkuTick`, at any time. The limits on how much a key
may encrypt are not counted: an update may be started whenever the code permits one.

### TlsState, Tls13, Tls12 and TlsHandshake

`conn[r]` is the `SSL_CONNECTION` of one side; `inbox[r]` are the records under way to
it, in order, each with the key it is protected with; `opt` is what both applications
configured, chosen in the initial state. The transcript is the sequence of message
types hashed so far, and a key is named by its level, the transcript it was derived from
and the number of updates applied to it. So a side that switches keys one message early
or late, or hashes one message too many, meets a record it cannot read or a Finished that
does not verify.

`Tls13` and `Tls12` have the four tables `ossl_statem_{client,server}{,13}_{read,write}_transition`
and what the messages do; `TlsHandshake` has `write_state_machine`, `read_state_machine`
and the calls of the application. A step writes or reads one message with its pre- and
post-work, since between two messages a call may return for want of I/O and the other side
may run.

Assumptions. The protocol is TLS over a reliable stream (no DTLS, no QUIC). Early data is
written before `SSL_connect`, which ends it; a server that reads early data reads it to
the end before it does anything else, and does not write in between. Anonymous
suites together with `SSL_VERIFY_FAIL_IF_NO_PEER_CERT` are not configured. Compressed
certificates count as certificates. `SSL_renegotiate` is called only between handshakes, and
records wait in a read buffer (`readAhead`) only with one renegotiation at a time (see
"Other divergences" for both). A renegotiation is driven by `SSL_read` where `readDrives`
is set: `in_read_app_data`, without which application data in a handshake is fatal, is
set by `ssl3_read_internal` and by nothing else, and the run `tls_any_call` shows what other
calls do. A server's application asks for a certificate after the handshake only when
the connection owes no KeyUpdate, unless `eager` is set (see "Other divergences"). Fatal alerts and `SSL_shutdown` are not modelled: an error
stops the side, and the properties say that none occurs.

## Runs

Each run takes about three minutes or less with two workers.

| Run | Bounds | Shows |
|---|---|---|
| `rcu` | 1 reader nesting twice, 2 writers, 3 qps, 3 synchronizes, 2 objects | no object is released under a reader; retirement in order; callbacks run once; the inductive invariant |
| `rcu_live` | 4 writers, one of which also reads and nests twice, 3 qps, 4 synchronizes | counters are exact; readers keep a free qp; every synchronize returns |
| `streams` | 1 stream, 2 bytes, windows of 1, 2 packets, the reader may free its stream object | limits, retransmission, delivery, final sizes and activation agree; the collection assertion holds |
| `streams_shared` | 2 streams, 1 byte each, connection window from 1 to 2, 1 packet, resets and empty concluding writes | shared credit is not overspent; the sums agree; windows grow within their bounds |
| `streams_live` | 1 stream, 2 bytes, connection window 1, 1 packet | a concluded stream is read to its end |
| `rstream` | 4 bytes, ring buffers of 0, 2 and 3 bytes | list and ring buffer implement the plain buffer; no assertion fails |
| `ackm` | 5 and 2 packets, batches of 2 and 1, threshold 2, 2 ranges kept and 1 sent, an ACK every 2 packets, 1 probe of the larger sender | what is in flight has the right timer and is counted exactly; ACK frames owed are sent or repeated; a number that was handled is not accepted again; packets end as PacketFate says |
| `key_update` | 5 packets, 2 updates started, batches of 2 | each end can decrypt the other; no end takes the other for a violator; an answer is not answered |
| `tls` | 192 + 2 configurations of TLS 1.3 and 336 + 16 of 1.2; 1 record of data each way, 2 of early data, up to 2 calls | keys and transcripts in step, no message unexpected, both sides agree, no data lost, every handshake ends |

Why the bounds are enough to be interesting. Three synchronize calls on three qps make
`reader_idx` come back to a value a stale reader may still hold, which is the case the
re-check exists for. Four calls on three qps are the fewest with two waiters for a free qp
(`alloc_signal`, which wakes one of them) while of the two calls that have one the later waits
for its turn (`prior_signal`); with three calls or two qps nobody competes for a wake-up. Two bytes with windows of one force a stream through
blocked, extended, and blocked again; two packet slots are the least with which data
can be reordered, lost and repeated, and acknowledged late. A connection window below
the sum of two streams' windows is what makes sharing matter. Four bytes are enough
for a frame with a neighbour on either side that overlaps both, and a ring buffer
smaller than the stream is needed for wrap-around. A stream object that is freed sends STOP_SENDING, to
which the peer answers with a reset in whatever state it is, so `streams` needs no further
resetting application. A writer that frees its own stream object is too many states for this run;
`CollectedIsFinished` and the other stream theorems hold for every choice of who frees. Five packets are the fewest
that leave three ranges at the receiver, so that one is dropped and the watermark matters
while the sender still waits; a batch of two is the least with a stale check. Five packets
and two updates suffice for both ends to update at once and for one to start a second
update as soon as it may. The configurations of `tls` are the product of all options that
meet in a table. CHECK_DEADLOCK is off where a
finite amount of work ends (everything written, read and acknowledged).

Runs that end in a violation, each against a statement of the repository:

| Run | The code | The statement |
|---|---|---|
| `stream_credit_lost` | a MAX_STREAM_DATA by itself has no chunk and is not repeated when its packet is lost | quic-fifm.md: MAX_STREAM_DATA is REGEN |
| `key_update_twice` | before the first acknowledgement of a 1-RTT packet `largest_acked` is UINT64_MAX, so `txku_in_progress` is false and a second update may follow at once, which the peer cannot decrypt | SSL_key_update.pod:91-93: `SSL_key_update` fails if the requirements for a further update are not met |
| `tls_any_call` | application data that arrives in a renegotiation is accepted only inside `SSL_read`; if `SSL_write` or `SSL_do_handshake` drives the handshake it is an unexpected record (statem.c:971, rec_layer_s3.c:1097-1120) | SSL_key_update.pod:69-71: a new handshake "will be handled transparently by calling any OpenSSL IO function" |

The passing runs keep out what these runs are about: `streams_live` gives the stream a
window wide enough never to need MAX_STREAM_DATA and resets nothing, only
`streams_shared`, which does not look at activation, concludes by an empty write,
`key_update` starts with an acknowledged packet, and in `tls` renegotiations are driven by
`SSL_read`.

### Other divergences

Met while modelling; they have no run of their own.

- Streams. A lost RESET_STREAM is not repeated, nor a STOP_SENDING once the stream's own
  sending part is over: the dispatcher skips streams without a send buffer
  (quic-fifm.md says REGEN for both). A write of no bytes with the conclude flag does not
  activate the stream (SSL_write.pod: as though `SSL_stream_conclude` was called); freeing
  such a stream in Ready makes the assertion in `qsm_ready_for_gc` false. A record cut at
  the ring buffer's end keeps the end-of-stream flag of its frame (quic_rstream.c:191-226),
  although quic_stream.h:374-375 says "*fin is set to 1 if the end of the chunk is the
  last of the stream data chunks"; with `CutsLast = TRUE` in `MCRStream.cfg` TLC finds
  `ImplementsRecvBuffer` violated. The library gives its receive streams no ring buffer.
  `ossl_sframe_list_insert` puts a frame in front of a longer one that starts at the same
  offset, although quic_sf_list.h says that no frame is encompassed by another; reading is
  not affected, so `ListOrdered` states the order that does hold.
- Acknowledgements. An ACK frame has at most three ranges, since `OSSL_NELEM` is taken of
  the first dimension of `ack_ranges` (quic_ackm.c:1626), although 32 are stored. A
  number that was received late and never reported is forgotten when a higher one
  becomes provably acknowledged, so its packet is repeated in vain (the comment at
  263-292 describes the trade). A datagram that arrives twice within one batch passes the
  check for duplicates twice and is handled twice, which the model allows. Declaring a
  packet pseudo-lost neither lowers the controller's bytes in flight nor sets the timer
  anew. `is_inflight` is read after `on_acked`, which by its comment may free the packet
  (1031-1034). The answer to a PING passes an encryption level for a packet number space
  (quic_rx_depack.c:57); for 1-RTT this is APP, and that is all the model uses.
- TLS. A CertificateRequest after the handshake waits behind a KeyUpdate (statem_srvr.c:484-490):
  the KeyUpdate is sent, the state machine ends (582-586) and the request stays pending until
  yet another call, while SSL_CTX_set_verify.pod:214-215 says "A write operation must take place
  for the Certificate Request to be sent to the client, this can be done with
  SSL_do_handshake() or SSL_write_ex()". With `Options <- Eager` in `MCTls.cfg` TLC finds
  `SidesAgree` violated: all is read and the server still has its request. A call of
  `SSL_renegotiate` while a handshake runs is lost but leaves `s3.renegotiate` set
  (statem_lib.c:1476). With records in the read buffer, a HelloRequest that finds a
  renegotiation of the client's own pending leaves `total_renegotiations` at zero.

### Fairness

`rcu_live`: a thread inside a function goes on (weak fairness), and a thread that has
entered a read section ends it (strong, since it may nest in between). Nobody has to
start anything. The mutexes need no more than this: in the model a lock is granted to a
thread by its own step, and only finitely many calls are made.

`streams_live`: both ends tick again and again, readers read, and a packet under way
is at some time acknowledged, taken as lost, or gone: this is what the engine's tick
and the loss timers do. The network may lose any number of packets but, given for ever
packets with something new in them, delivers one in time for its acknowledgement to
count. Without that no protocol makes progress. `Tx` is strongly fair because a slot
may be taken when a tick comes.

`tls`: weak fairness of `Progress`, all steps that go on with what has begun: both
applications call the library again as long as a handshake or a record is pending. They need
not write, renegotiate or update keys. Which side runs is left open, since a finite
exchange over a reliable stream admits only finitely many steps of either.

`ackm` and `key_update` are safety only: a timer that is set may fire, but need not.

## Proofs

### RCU lock

`RcuLockProofs` proves for every finite set of threads, every number of qps and all
bounds:

| Theorem | Statement |
|---|---|
| `Invariance` | `Spec => []IInv` |
| `TypeCorrect` | `Spec => []TypeOK` |
| `ReadersProtected` | `Spec => []NoUseAfterFree` |
| `CountersExact` | `Spec => []UsersExact` |
| `QpsDistinct` | `Spec => []ReadersHaveFreeQp` |
| `GraceHolds` | `Spec => GracePeriod` |
| `CallbackRunsOnce` | `Spec => []CallbacksRunOnce` |

Assumptions: `ThreadsAssumption` (finitely many threads, and the value for "no
holder" is none of them) and `NumWritersAssumption` (an integer; the code raises it to
at least 2).

`NoUseAfterFree` is far from inductive. The argument of `IInv` is this.

- `IdInv`: the calls of `ossl_synchronize_rcu` between `update_qp` and retirement own
  the ids `next_to_retire .. id_ctr - 1`, one each; there are fewer than there are qps,
  and the qp of an id is the id modulo their number. So no two of them wait for the same qp.
- `StoreInv`: the k-th store of `reader_idx` has the value k modulo the number of qps and
  releases a pointer view that only grows.
- `ViewInv`, `CheckInv`: once an id is retired, whoever takes the counter of its qp
  joins a view past that id's store, so the re-load cannot return an older index.
- `ReadingInv`: a read section relies on a store that is not retired, and has only
  objects that were current at that store or later.
- `ZeroInv`: when a waiting call has been able to see its counter at zero, a thread that
  holds the counter will fail its re-check.
- `ObjectInv`: an object in a callback list was replaced before the store that the
  release waits for.

The last two give `NoUseAfterFree`: a released object is older than the store of the last
retired id, and what a reader holds is not. Each conjunct has a lemma with a step per
action. `rcu` checks `IInv` with TLC on a small instance.

`CallbacksRunOnce` needs its own strengthening, `OnceInv`: what has been handed to
`ossl_rcu_call` is older than the current object, and older than what a writer that has
published but not yet called is about to hand over, so nothing is handed over twice; and
none is lost: every object that was replaced is about to be handed over, on the list, taken by
a synchronize call that has not yet run it, or released. So the theorem says both
that a queued callback is somewhere and that it is in one place only.

### Acknowledgement manager

`QuicAckmProofs` proves for all numbers of packets, thresholds, ranges, batches and probes:

| Theorem | Statement |
|---|---|
| `Invariant` | `Spec => []IInv` |
| `TypeCorrect` | `Spec => []TypeOK` |
| `CountsExact` | `Spec => []InFlightExact` |
| `AlwaysArmed` | `Spec => []TimerArmed` |
| `AcksArePaid` | `Spec => []AckOwed` |
| `HandledNeverAgain` | `Spec => NeverAgain` |
| `FateImplemented` | `Spec => ImplementsPacketFate` |

Assumption: `AckmConstants` (two endpoints; thresholds and numbers of ranges are at least 1;
bounds are natural numbers).

The parts of `IInv` besides `TypeOK`, `InFlightExact` and `AckOwed`:

- `FateInv`: every packet sent is in the history, acknowledged or lost, and none is both in
  the history and acknowledged.
- `LargestInv`: what was resolved is not above `largestAcked`, which was sent. A new packet
  is therefore above it, and no loss candidate.
- `HandledInv`: what is stored or was ever reported was handled, hence sent; what was handled
  is stored or below the watermark. The first half makes an acknowledgement mean
  something; the second is why no number is accepted again although the set forgets.
- `BatchInv`: packets that wait were sent.
- `SinceInv`: the counter stays below its limit while no ACK frame is desired.
- `TimerInv`: the deadline is the one `ackm_set_loss_detection_timer` would set now.

`TimerInv` is where the early return of `ossl_ackm_on_rx_ack_frame` matters: a frame that
acknowledges nothing new leaves without setting the timer. It may do so because it cannot
raise `largestAcked` either: the numbers it reports were sent (`HandledInv`) and are
resolved (`FateInv`), so they are not above `largestAcked` (`LargestInv`). For `AckOwed` the
facts about ranges are lemmas: the highest ranges contain the largest number, nothing
above them is left out (`TopRangesLemma`), and the watermark covers what is dropped
(`TrimmedLemma`). Each action has a lemma with a step per conjunct it can disturb.

### Streams

`QuicStreamsProofs` proves for every number of streams, packets
under way and bytes, and for all windows:

| Theorem | Statement |
|---|---|
| `FlowInvariant` | `Spec => []FlowInv` |
| `PeersNeverAccuse` | `Spec => []NoProtocolError` |
| `ConnectionIsCharged` | `Spec => []ConnAccounting` |
| `MaxDataSurvivesLoss` | `Spec => []ConnCreditNotForgotten` |
| `WindowsBounded` | `Spec => []BufferBounded` |
| `FinalSizesAgree` | `Spec => []FinalSizeAgreed` |
| `StreamsTypeCorrect` | `Spec => []TypeOK` |
| `EveryByteInOnePlace` | `Spec => []BytesAccountedFor` |
| `DeliveredIsReceived` | `Spec => []DeliveredMeansReceived` |
| `PacketiserSeesAll` | `ZeroConcluders = {}` and `Spec` imply `[]NothingStranded` |
| `CollectedIsFinished` | `ZeroConcluders = {}` and `Spec` imply `[]DeletedIsFinished` |

Assumptions: two endpoints (`EndAssumption`), finitely many streams and packets
(`StreamAssumption`), windows of at least 1 that start below their maxima
(`WindowAssumption`), and `RoleAssumption`, `MaxSizeAssumption`. `ZeroConcluders = {}`
is needed where it stands: the two theorems are false if an application concludes a
stream by a write of no bytes, since that write does not call
`ossl_quic_stream_map_update_state` (see "Other divergences"). An application that
concludes in any other way meets the hypothesis.

That no endpoint sees a flow control error is a fact about both ends and every packet
ever sent. `FlowInv` has, besides types:

- `StreamInv`: for a sender t and its receiver q,
  `q.rx.hwm <= t.txSwm <= t.txCwm <= q.rx.cwm`: received, spent, known and granted credit
  in that order; once q knows the final size, t has ended there (`Ended`).
- `PacketInv`: a packet that may still arrive says nothing its sender has gone back on: its
  data ends within what is charged, its MAX_STREAM_DATA is not above what was granted, its
  FIN or RESET_STREAM names the final size.
- `ConnInv` and `MaxDataInv`: the same for the connection, and a MAX_DATA that was
  delivered is known.
- `ConnAccounting`, which is what carries a stream's charge to the connection: an arriving
  packet may raise `hwm` of several streams at once, and the sum stays within the connection's
  credit because each is at most the sender's charge and those sum to the sender's total.

Sums over streams are `SumFunction` of the community modules, a fold. That it is monotone,
additive and changes by what one summand changes is proved in its first part by taking a
least counterexample (`NatLemmas`), since induction with an operator parameter is out of
the provers' reach.

`ActiveInv` says of each stream that it is listed if it should be, that it is not concluded
while Ready, and that it is finished if deleted. The interesting case is `Deliver`, where
MAX_DATA changes the credit of all streams at once: the model visits every stream, as
`depack_do_frame_max_data` does.

`DataInv` adds `ByteInv` (the send buffer and the packets in flight share out the bytes,
pairwise disjoint) and `DelivInv`. The latter connects three places: what is in a packet
that has left the wire the receiver has or has declined (`ArrivedInv`); so has what was
acknowledged (`Deliv`); and a receiver that knows the final size and lacks nothing has
moved to Data Recvd (`RecvOK`). A sender reaches Data Recvd when all bytes and the FIN are
acknowledged, so the receiver has them all and the final size, hence is in Data Recvd
itself; no reset can have come in between because `ResetIn` would mean that the
sender had reset the stream.

### Key update

`QuicKeyUpdateProofs` proves for all numbers of packets, updates and batch sizes, with
`Acked` (a packet of each side was acknowledged before the first update; without it the
statements are false, see `key_update_twice`):

| Theorem | Statement |
|---|---|
| `KeyTypeCorrect` | `Acked` and `Spec` imply `[]TypeOK` |
| `SenderIsUnderstood` | `Acked` and `Spec` imply `[]PeerCanDecrypt` |
| `NoFalseAlarm` | `Acked` and `Spec` imply `[]NoUpdateError` |
| `UpdatesDoNotBreed` | `Acked` and `Spec` imply `[]EpochsInitiated` |

Assumption: `KeyUpdateConstants`. The argument of `KeyInv`: a packet's number tells its epoch
(`Transit`), so what a side has received tells which epoch of the peer it has seen
(`Received`); an acknowledgement travels in a packet whose own epoch shows that the update
was answered (`AckKnown`). `Unconfirmed` is why the next update cannot come too soon:
until a side has acknowledged the packet that brought the new keys, its peer's update is in
progress and no packet under way can end it. Packets decrypted but not handled count as
under way (`InTransit`), which is what makes batches harmless.

### Receive buffer

`RStreamProofs` proves for every final size, every set of ring buffer sizes and every order
of arrivals and calls:

| Theorem | Statement |
|---|---|
| `BufferInvariant` | `Spec => []IInv` |
| `ListStaysOrdered` | `Spec => []ListOrdered` |
| `NoAssertionFails` | `Spec => []AssertionsHold` |
| `RecvBufferImplemented` | `~CutsLast` and `Spec` imply `ImplementsRecvBuffer` |

Assumptions: `SizeAssumption`, `RbufAssumption`, `CutsLastAssumption`. The hypothesis
`~CutsLast` is needed: without it the refinement is false. `IInv` has, besides types:

- `ListInv`: the list is sorted by both bounds (`Sorted`); the ring buffer starts at the read
  offset and holds no more than its size (`RingOK`); every frame ends after the read offset,
  and what it has is in its packet or, byte by byte, in the cell of the ring buffer where a
  reader will look for it (`Good`).
- `FinInv`: once the end is known the list reaches it or it was read. It is why dropping the
  frame that came with the FIN, when others cover it, loses nothing.
- `RecordInv`: a record that is held starts at the read offset and is covered by the list,
  also after data was moved under it.

Each operator gets a lemma that says what it does as far as its callers can tell. The two
hard ones are `InsertEffect`, that an insertion covers the old bytes and the new ones and
keeps the order whichever frames it swallows, the new one included, and `MoveEffect`, that the
loop which copies and merges frames loses no byte and overwrites none. The latter is a fold
(`FoldLeft` of the community modules); `MoveFold` unrolls it, and the induction over the
frames takes the least iteration that would go wrong. That no two bytes in reach share a cell
is `ModDistinct` of `NatLemmas`, an argument about quotients.

For the refinement, `Peekable` frames are without a gap and the offset after them is not
covered, so that what the code can peek at is exactly `Avail` (`AvailIs`); then `ReadIs` shows
that `read_internal` returns what the plain buffer does, bytes and end, and the other calls
follow. `MoveToRbuf` and `ResizeRbuf` leave the bytes as they were and are stuttering steps.

### TLS 1.3

`TlsProofs` proves for every configuration of TLS 1.3: any amount of early and application
data, any number of tickets and of calls for key updates, post-handshake authentication and
further tickets, with or without resumption, HelloRetryRequest, middlebox compatibility on
either side, client certificates, and early data that is offered, accepted, rejected or
not read:

| Theorem | Statement |
|---|---|
| `Inductive` | `Spec => []Inv13` |
| `Tls13TypeOK` | `Spec => [](opt.ver = 13 => TypeOK)` |
| `Tls13KeysInStep` | `Spec => [](opt.ver = 13 => KeysInStep)` |
| `Tls13NeverUnexpected` | `Spec => [](opt.ver = 13 => NeverUnexpected)` |
| `Tls13TranscriptsAgree` | `Spec => [](opt.ver = 13 => TranscriptsAgree)` |
| `Tls13SidesAgree` | `Spec => [](opt.ver = 13 /\ ~opt.eager => SidesAgree)` |
| `Tls13DataAccountedFor` | `Spec => [](opt.ver = 13 => DataAccountedFor)` |

Assumption: `OptionsAssumption`, that configurations are records of `OptionRecord`. The
version is chosen in the initial state and never changes, so `opt.ver = 13` selects
behaviours, not moments; so does `~opt.eager`, without which `SidesAgree` is false.

None of the properties is inductive. A side cannot know that the next record will suit it:
that depends on what its peer wrote, perhaps many steps before, when its own state was
another. `TlsStages` has the strengthening:

- The configuration decides in advance which records will be exchanged. `ToServer` and
  `ToClient` say, place by place, which record may come next in each direction, under which
  key and, for a Finished, over which transcript. A position also counts the key updates,
  the records of data and the rounds of authentication passed.
- `ClientStage` and `ServerStage` list the stages of a side: the hand state and the flow, the
  fields that matter there, the place it reads next and the place it has written up to.
- `Path`: the records on the way form a path from the position of their reader to
  that of their writer. Reading takes the first step off the path, writing adds one
  at its end. The number of records under way is not bounded.
- `ReadsOn` says why a side that is set up runs its state machine at all: something to write,
  or a handshake message waits. Without it a side could read data where it expects a
  message.
- `Asked` and `Answered` tie the rounds of post-handshake authentication of the two sides
  together; a client that answers lags behind a server that asked, and key updates and
  data may pass in between. `AboutToAsk` is the server between the application's call and its
  CertificateRequest: it is not done, so its pending request is never all that is left.
- `GivenData`: what the server's application was given, of the records passed; rejected early
  data is passed and not given.

Keys in step, no unexpected message and Finished messages that verify are then the same
argument: the stage of the reader and the first step of the path agree. When both inboxes are
empty the paths are empty, the positions of reader and writer are the same, and the
agreement of the two sides follows from their stages (`InvSettled`).

The proof has one lemma for each message that is written or read, one for each group of
stages and direction, and one for each action and side. A change of the transition tables
shows up as the failure of the lemma about that message.

### Only model-checked

- The liveness properties (`SynchronizeReturns`, `ConcludedIsRead`, `HandshakesComplete`),
  which the prover does not handle.
- TLS 1.2 with renegotiation: the run covers its configurations completely, with 1 record of
  data each way. A proof needs other stages and positions, since a renegotiation starts
  the conversation anew inside the keys of the last one.
- `Inv13` itself is proved and not evaluated by TLC: it quantifies over all positions. The six
  properties that follow from it are those of the run `tls`.
- The three statements that the code violates.

## Not modelled

Cryptographic primitives, encoders, X.509 and the tables behind them are most of the
repository's lines; they are numeric and data-format code, out of a model checker's reach and
tested against vectors. The command-line programs and the packaging scripts are
sequential. What has control worth modelling and is not modelled yet is the plan.

## Plan

1. `QuicAckm` in place of the oracle in QuicStreams; the three packet number spaces with
   discarding and the anti-deadlock probes; NewReno on top.
2. The stream map's lists: active list with its cursor, accept queue, collection,
   shutdown flush, MAX_STREAMS credit.
3. Connection ids: `quic_rcidm.c` (rotation, retirement with a limit), `quic_lcidm.c`.
4. The channel: handshake confirmation, closing, draining, idle timeout; the thread assist with
   blocking calls.
5. The hash table on top of `RcuLock`; several locks of one thread.
6. Integer sets (`uint_set.c`) as an algorithm against sets; the send buffer with its
   ring buffer, with the empty FIN chunk.
7. Provider activation, DRBG reseeding, the session cache, DTLS retransmission.

Theorems worth proving next: the invariants of `TlsHandshake` for TLS 1.2, with stages per
renegotiation.
