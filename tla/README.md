# A TLA+ model of quicsy

quicsy is a QUIC client and server on top of ngtcp2, nghttp3, OpenSSL and libev. Those four are
submodules or system libraries and their code is not in the repository: the models take from
them what `src/quicsy_server.cc` and `src/quicsy_client.cc` assume of their functions, and let
them answer anything the code distinguishes. The code of the repository is one libev loop per
process, so a callback is the unit of atomicity; what is hard is the order of the callbacks, and
that the same connection is kept in several tables (of the server, of ngtcp2, of nghttp3) that
have to agree.

Paths below are relative to the repository's root.

## Inventory

### Server, `src/quicsy_server.cc`

| Part | State | Operations | What makes it correct |
|---|---|---|---|
| Datagram routing | `handlers_` (scid -> Handler), `ctos_` (other ids -> scid) | `Server::on_read`, `associate_cid`, `dissociate_cid`, `remove` | no entry names a handler that is gone (asserted); every id the server issued leads to its own connection and to no other; nothing is left behind |
| Life of a Handler | `draining_`, `conn_closebuf_`, `timer_`, `rttimer_`, `wev_`, the periods of ngtcp2 | `on_read`, `on_write`, `writecb`, `timeoutcb`, `retransmitcb`, `handle_error`, `start_closing_period`, `start_draining_period`, `disconnect` | a closing connection sends its close packet only, a drained one nothing; no watcher outlives its handler; every handler is removed in the end |
| Address validation | `static_secret`; otherwise stateless | `send_retry`, `generate_token`, `verify_token`, `send_stateless_connection_close` | with `-V` no connection without a fresh token for its address; the `original_connection_id` the client expects; one connection per client |
| HTTP/3 streams | `streams_`, beside the tables of ngtcp2 and nghttp3 | `on_stream_open`, `on_stream_close`, `recv_stream_data`, the nghttp3 callbacks, `start_response`, `push_content` | nghttp3 calls back only about listed streams (asserted); each stream's credit returned once; each request answered once |
| Dynamic responses | `dyndataleft`, `dynbuflen`, nghttp3's queue, flow control windows | `dyn_read_data`, `http_acked_stream_data`, `write_streams`, `extend_max_stream_data` | bounded memory, exact bytes, no stalled stream |
| CRYPTO buffers | `crypto_[3]` | `write_server_handshake`, `remove_tx_crypto_data`, `on_key` | data lives until it is acknowledged, levels do not mix |

`Server::on_read` takes up to ten datagrams, finds the Handler through the tables and calls
`Handler::on_read`, which calls `ngtcp2_conn_read_pkt`; ngtcp2 calls back (ids, streams,
acknowledgements), those callbacks call nghttp3, and nghttp3 calls back (requests, stream ends).
`signal_write` arms `wev_`, whose callback runs `on_write` and `write_streams`. `timer_` is idle
timer and period timer, `rttimer_` ngtcp2's expiry. SIGINT breaks the loop and `disconnect` removes
every handler.

### Client, `src/quicsy_client.cc`

| Part | State | Operations | What makes it correct |
|---|---|---|---|
| Event loop | `sendbuf_`, `wev_`, `rev_`, five timers, `last_error_`, `should_exit_` | `on_read`, `on_write`, `write_streams`, `send_packet`, `handle_error`, `disconnect`, the timers' callbacks, `run`, the destructor | a blocked packet is sent before anything else and to where it was meant; errors lead to one close packet, then silence; the loop ends |
| Requests | `streams_`, `nstreams_done_`, `delay_stream_timer_`, stream credit | `make_stream_early`, `on_extend_max_streams`, `handshake_completed`, `on_stream_close`, `http_stream_close` | each request on one stream, once and in order, early data included; nothing before the delay is over; callbacks find their stream |
| Migration, key update | `fd_`, `local_addr_`, `remote_addr_`, ngtcp2's path | `change_local_addr`, `select_preferred_address`, `initiate_key_update` | a new socket takes over the watchers; what waits is still sent |

### Programs and parts that stand alone

| Part | State | What makes it correct |
|---|---|---|
| Options, `main` of client and server | `config` | a program that starts does what its command line says |
| `src/util.cc` | none | parsers accept what they document, nothing wraps, what is shown is read back |
| `src/abr/mpd_parse.c` | the manifest being filled, and what one Representation leaves to the next | each level gets the segments its Representation declares |
| `streaming/tcp_streaming/tcp_server.c`, `tcp_client.c` | one socket | the file arrives whole; neither side waits for ever |
| `streaming/transcoder.c` (twice) | FFmpeg's codecs and muxer | audio keeps its order; no packet is doubled; what is lost was refused by the encoder or is left in the decoder |
| `streaming` (decoder, GLFW window), `scripts`, `src/abr/adaptation.c`, `src/debug.cc`, `src/http.cc`, `src/keylog.cc`, `third-party` | library or none | not modelled |

`PROJECT.json` lists every component with its status, and the hazards, each at its line.

### Hard behaviours

- Ids are issued and retired inside reads, writes and expiries, and five callers remove handlers.
- A write or expiry that was pending when a connection began to close or drain.
- The idle timeout sets `draining_` only; ngtcp2 goes on as before and a late write still goes out.
- Retries, copies of Initial and 0-RTT packets, tokens that outlive a restart or a clock change.
- nghttp3 keeps a stream after QUIC has closed it while a header block waits for the encoder stream.
- A full buffer of a dynamic response and the acknowledgement that has to resume it; blocked
  streams and the window update that has to unblock them.
- In the client, a packet that waits for the socket while timers fire, the socket is replaced, or an
  error wants to send its close packet; errors that meet in one turn of the loop.
- Requests made from four places (before the handshake, at its end, after the delay, with new credit).
- CRYPTO data acknowledged in cuts that are no buffer's; ngtcp2 holds pointers into it.
- Two TCP processes that read variables nobody set, and of which either may be killed.

## Modules

| Module | Models | Checked by | Proofs |
|---|---|---|---|
| `QuicsyServer` | routing tables and the life of Handlers | `MCQuicsyServer`, 2 runs | `QuicsyServerProofs` |
| `CidRouting` | abstract: connection ids have owners | implemented by `QuicsyServer` | `QuicsyServerProofs` |
| `AddressValidation` | Retry and tokens, with clients and network | `MCAddressValidation`, 2 runs | `AddressValidationProofs` |
| `HttpStreams` | streams, requests, pushes of a server connection | `MCHttpStreams`, 2 runs | `HttpStreamsProofs` |
| `RequestService` | abstract: requests take and give back places | implemented by `HttpStreams` | `HttpStreamsProofs` |
| `ResponseFlow` | dynamic bodies under flow control | `MCResponseFlow`, 1 run | `ResponseFlowProofs` |
| `QuicsyClient` | the client's event loop, sockets and end | `MCQuicsyClient`, 1 run | `QuicsyClientProofs` |
| `ClientStreams` | the client's requests and streams | `MCClientStreams`, 2 runs | `ClientStreamsProofs` |
| `CryptoBuffer` | CRYPTO data of client and server | `MCPrograms` | `StreamProofs` |
| `TcpFile` | both TCP programs | `MCPrograms` | `StreamProofs` |
| `Transcoder` | the two transcoders | `MCPrograms` | `StreamProofs` |
| `MpdParser` | MPD to segment URLs | `MCPrograms` | `ParserProofs` |
| `Util` | numbers and units | `MCPrograms`, used by `Options` | `ParserProofs` |
| `Options` | command lines of client and server | `MCPrograms`, 2 runs | `ParserProofs` |

### QuicsyServer

A handler is identified with its `scid_`. `conn` is "none" while the handler is not in `handlers_`, else
the state of its `ngtcp2_conn`; `draining`, `closebuf`, `timer`, `rttimer`, `wev` are the members of the
same name; `rcid`, `pscid` the two ids a handler stores; `scids` what `ngtcp2_conn_get_scid` would list;
`ctos` is `ctos_`. `sent` holds what the last step sent.

One action per callback and result: for a datagram of no connection `Misversioned`, `Refuse`,
`NewDropped` (the Handler was built and failed before it was registered) and `NewRegistered`; for one
of a connection `Receive`, with `ReadClosing`, `ReadDraining`, `ReadOk`, `ReadPeerClosed`, `ReadError`,
`ReadRetry` in the order of the code's tests; `WriteCb`, `RetransmitCb`, `TimeoutCb`; `SigInt` and one turn
of the loop of `disconnect`. An accepted Initial may carry any id that leads nowhere (`Startable`): one its client made up, or
one the server drew and has retired or removed since. `ScheduleRetransmit` starts `rttimer_` or, when ngtcp2's expiry is exactly
now, stops it: `ev_timer_again` with a repeat of 0 does. `CidCallbacks` is part of every step in which ngtcp2 may issue or
retire ids. `FailConnection` is `handle_error` with both outcomes: the close packet was written and the closing
period starts, or it was not and the caller removes the handler. `Remove` is `Server::remove` with the
destructor.

Modelled as assumptions: random ids do not repeat, nor does one a client made up meet one drawn later; ngtcp2 issues none before the handshake
completes (so a Handler that is dropped unregistered has none in `ctos_`), keeps at least one,
writes no close packet for a draining connection and a non-empty one otherwise. `send_packet`
always returns `NETWORK_ERR_OK`, so its blocked outcome, which the callers test, does not exist.
A close buffer is stored before the packet is written into it; where writing fails the handler is removed, so `closebuf`
holds the buffers with a packet. `config.timeout` may be 0: `timer_` is then unarmed between `init` and
the first read, within one step.

`CidRouting` states what the tables together promise, without tables: an id has one owner, only
ids nobody owns get one, and only fresh ones after a connection was opened. `RoutesFaithfully` is
`CidRouting!Spec` with `owner[c]` mapped to the lookup of `on_read`, `handlers_` first and then `ctos_`. Its `first` holds the ids
a connection was opened with besides its name (`rcid_` and `pscid_`): when the connection ends they are nobody's, whoever
owns them by then. That is what the code does: `Server::remove` erases the entries of both
(`src/quicsy_server.cc:2801`) whatever became of the ids. A preferred address's id that was retired is free, a client may open another connection with
it, and the removal of the first takes the route of the second, which then is reached by its own ids only. `RoutesExact` excepts
this case and no other: ids in `scids` keep their entries always, and a client's own id unless the server drew it for a preferred address.

### AddressValidation

`net`, `retries` and `closes` only grow: a packet may arrive late, twice or never. A token is what
`generate_token` encrypts: address, time, the id the Initial was sent to, and the secret. `Read` takes the
branches of `on_read` for a packet of no known connection; whether the id is known is asked of the
live connections (that `ctos_` answers the same is `RoutesExact`). `Restart` draws a new secret and forgets
connections; `ClockMoves` sets `system_clock` to any time. Clients follow the first Retry that answers
their packet, as ngtcp2 does for `src/quicsy_client.cc`, may move, and give up when refused.

### HttpStreams

`quic`, `streams` and `h3` are the three tables: ngtcp2's, `streams_`, nghttp3's. A step is one ngtcp2
callback with every nghttp3 callback inside it. `request` counts how far nghttp3 has read a
request; `ReadOn` moves it on and starts the response where `Starts` says. `CloseUnknown`,
`CloseKnown` and `CloseWaiting` are the three outcomes of `nghttp3_conn_close_stream`. `Fail` is a callback
that returns an error: ngtcp2 gives up the read and the Handler closes, which is module QuicsyServer's
matter, so the model of the streams stops. Any path through `start_response` is possible for any request:
headers, path and file are not modelled. `on_stream_reset` is left out: it sets a flag
of nghttp3's stream and nothing else.

`main` stores `optarg` into `config.early_response`, and `optarg` is null for an option without
argument (`src/quicsy_server.cc:3322`), so the binary never runs with `EarlyResponse = TRUE` (a finding, below). The
handlers implement that case; the theorems hold for it, the runs have `EarlyResponse = FALSE`.

`RequestService` states what a connection promises without streams: a request takes one of `max_streams_bidi` places, is answered
once at most and only while it has its place, and gives the place back when it is over. `ServesRequests` is
`RequestService!Spec` with the free places mapped to the streams the client may still open, and a request over when neither
ngtcp2 nor nghttp3 has its stream. It says that requests in service are bounded, where `http_leak` shows that
entries of `streams_` are not.

### ResponseFlow

The loop of `write_streams` is cut into `Fill` (nghttp3 calls `dyn_read_data`), `Send` (ngtcp2 takes some of
what is queued) and `Block`, because the loop may end after any of them. Sizes are body bytes; `queued`
is what nghttp3 holds, `flight` what ngtcp2 sent unacknowledged. `FlowAssumption` requires `MaxBuf > Chunk`
(1 MiB and 16 KiB in the code): with less room the unsigned `MAX_DYNBUFLEN - 16384` is zero or wraps and a
waiting stream is never resumed or always.

### QuicsyClient

A method of `Client` is an operator from the client before the call to the set of its results, each a return
value and the client after; callbacks of the loop are the actions and compose them as the code does. `client` is a
record of the members the properties need. `sendbuf` is the packets written into `sendbuf_` since it was reset, each with
its kind and the address it was written for: in the code the last one of a blocked `write_streams` stays there, `on_write`
sends it first and asserts room, and `handle_error` throws it away for the close packet.

`SendPacket` has the outcomes the code tells apart (sent, EAGAIN, an error) and, with `tx_loss_prob`, a packet
dropped on purpose. `HandleError`, `Disconnect`, `WriteStreams`, `Write`, `OnWrite`, `OnRead` are the functions of that
name; `Progress` is what the loop of `write_streams` has sent when it ends in one of its five ways. `WriteCb`, `ReadCb`,
`TimeoutCb`, `RetransmitCb`, `KeyUpdateCb`, `DelayStreamCb`, `ChangeLocalAddrCb` and `SigInt` are the watchers; `Run`,
`SetUpFails`, `EvRunReturns` and `Destroy` are `run` and the end of `main`. `disconnect` stops every watcher but
`wev_`; `EvRunReturns` waits for that one too.

Migration is part of it: `change_local_addr` gives the client a second address, ngtcp2's path follows
(NAT rebinding) or migrates or refuses, and datagrams on a path ngtcp2 does not know are ignored. `PreferredAddrs` is
`select_preferred_address`. Assumed of ngtcp2: it writes at least one packet before the client waits (the Initial),
fails `write_connection_close` for a draining connection, and writes nothing else once closing. `Schedule` may stop `rttimer_`
as on the server, so `WatchersMatchConnection` is about `rev_`, `timer_` and the signal, and not about `rttimer_`. `config.timeout` is taken to be above 0
(its default is 30 seconds): with `--timeout=0` the idle timer is unarmed until the first packet sent or read.

### ClientStreams

Stream `i` is the `i`-th bidirectional stream the client opens; `quic`, `h3`, `streams` are the tables of
ngtcp2, nghttp3 and the client. `submitted` records the value of `nstreams_done_` each request was submitted with.
`OnExtendMaxStreams` is the whole loop of `on_extend_max_streams`: as many streams as there are requests left and credit for,
or fewer and one without a request where nghttp3 refuses. `Start` is `Client::init` with `make_stream_early`, `OnKey` the keys
of the application level with `setup_httpconn`, `Handshake` `handshake_completed` followed by
`extend_max_local_streams_bidi`, which ngtcp2 calls next. `HandshakeRejected` is the same callback after early data was rejected; what
ngtcp2 then makes of the early stream is not in the repository, so the model stops there.

### CryptoBuffer

`crypto_data`, `acked_offset` as in `Crypto`. ngtcp2 counts bytes by offset, `remove_tx_stream_data` by the sizes of buffers; a call of it
is cut into the turns of its loop. Keys may be discarded at any time, after which nothing is read or
acknowledged of the level. The client's and the server's code are the same.

### TcpFile

`server` and `client` say where `sentFile` and `recvFile` are; `answer` and `wire` are what is under way. `exist`, set only when
the file is missing, and `told`, read over when the peer is gone, begin with any sign. `open`'s -1 passes the test for 0 and
the server "spins": it goes on reading and sending -1 bytes. `CopyUnopened` lets such a send fail or find
something to copy (bounded by `FileLen`).

### Transcoder

A packet and its frame are a number. One turn of each of the three loops is an action: `ReadFrame` of `main`, `TranscodeVideo` of the loop over the
decoder's frames, `ReceivePacket` of `encode_video`'s loop over the encoder's packets; `EncodeVideo` gives a frame to the encoder, `Flush` the null frame
at the end. A codec holds frames as long as it likes and gives back any of them: libx264 makes B-frames, so packets leave in the order of decoding.
`encode_video` returns 0 when `avcodec_send_frame` fails, so the frame is lost and `main` goes on (`lost`); for an encoder that did
not open (`prepare_video_encoder`'s result is not looked at) that is every frame, and a missing one is a null pointer. `Fail` is any call whose failure
ends `main`. The input's streams are in any order, and `PrepareDecoder` takes the last of each kind. `written` is the order of the
calls of `av_interleaved_write_frame`; what the muxer makes of it is FFmpeg's.

### MpdParser

`mpd` holds `parse_mpd`'s variables, which it keeps from one Representation to the next. `SegmentTemplate` folds
`Attribute` over the attributes in their order, because `media` makes a level out of what was read so far. The segment duration and
the timescale are attributes too, and are kept from the template before where one gives none; the number of segments is
computed at the end of each template, and that of the last one counts for every level (`src/abr/mpd_parse.c:142`). `Quotients` is
the division: exact where a segment lasts whole seconds, and one more or less elsewhere, since `segdur / timescale` is a rounded `float`;
without a segment duration it is infinite or no number, which as an `int` is `INT_MIN` on x86, and the document is rejected.
URLs are records of what they were made from. `Seconds` is `get_duration`, with what `atof` makes of a text beginning with "PT". Left out: several
Periods, a Period without `duration`, a Representation with other than one SegmentTemplate, fractions of seconds, negative durations and timescales, and
`segment_dur_ms`, which only a test prints.

### Util and Options

`Util` translates `parse_uint_internal`, `parse_uint_iec`, `parse_duration`, `format_uint`, `format_uint_iec` and
`format_duration`, with `uint64_t` of width `MaxUint` and units of size `Worth`. `Options` takes options one by one as the `getopt_long`
loops do, each with the reader of its kind. `--max-streams-bidi` and `--max-streams-uni` are read with `strtoull` (too many digits are the greatest,
a minus sign is taken modulo 2^64), `--nstreams` with `strtol` into a `size_t` (clamped to a `long`, then modulo 2^64). What a negative count or a
duration without a unit should mean nobody says, or `--help` and the code say different things: the models read them as the code does,
and `ConfigFollowsLine` and `NumbersReadBack` leave them out. Then `--data`, the URIs and the default of `--nstreams`. The probabilities
`-t`, `-r` and the QUIC version `-v`, read with `strtod` and `strtoul` and not looked at further, are left out.

## Runs

| Run | Instance | Shows |
|---|---|---|
| `server_lifecycle` | 1 client id, 3 server ids, 2 ids per connection | `WatchersMatchHandlers`, `ClosePacketReady`, `PeriodUndisturbed`, `TerminalIsFinal`, `PeriodsEnd`, `ShutdownCompletes` |
| `server_routing` | 2 client ids, 4 server ids, 3 ids per connection, preferred address | `RoutesExact`, `RoutesFaithfully` |
| `validation` | `-V`, 2 clients, 2 addresses, 2 Retry ids, 3 packets, 1 restart | `AddressValidated`, `OneConnectionPerClient` |
| `no_validation` | 1 client, 4 packets, 2 Retry ids | `OriginalIdFits` |
| `http_requests` | 3 requests, limit 2, 2 pushes, 3 promises | `KnownStreamsListed`, `CreditExact`, `AnsweredOnce`, `EntriesExplained`, `ServesRequests`, `AllStreamsServed` |
| `http_leak` | 3 requests, limit 2 | a violation of `ConcurrentStreamsBounded`, see Findings |
| `response_flow` | 2 streams, 7 units in chunks of 2, limit 3, windows of 1 | `BufferBounded`, `BytesAccounted`, `NoLostWakeup`, `BlockedForCause`, `AllDelivered` |
| `client_loop` | every timer, loss, preferred address, one change of socket without rebinding | `RoomForPacket`, `WatchersMatchConnection`, `CloseSentOnce`, `WaitingGoesWhereMeant`, `TerminalIsSilent`, `ClosedClientEnds` |
| `client_requests` | 4 requests of 3 URIs, 2 streams at first, 1 early, 2 pushes, delay, refusals | `RequestsOnce`, `EntriesFollowHttp3`, `UniCreditExact`, `NothingInDelay`, `AllServed` |
| `client_rejected` | the same with `--quiet` | a violation of `RejectionTold` |
| `programs` | six small systems, one at a time | `BytesKept`, `OutputIsFile`, `TransferEnds`, `OutputFollowsInput`, `SegmentsAsDeclared`, `ConfigFollowsLine`, `NumbersReadBack` |
| `early_response` | command lines of up to 2 options | a violation of `EarlyResponseObeyed` |

`MCPrograms` puts the parts that share no state into one module: a behaviour is of one of them, the others have nothing
to do. The type invariants of the server's and the client's modules are theorems and no run repeats them.

**Bounds.** `ServerCid` is finite, so a behaviour draws at most three or four ids: enough for two
connections of which one renews an id while the other is opened or removed, for one to be
removed and another opened under the same client id, and for one opened with an id the other has retired; with preferred addresses four ids are two
connections, and retirement frees the second id of the first. `CidLimit` bounds the ids alive in one
connection; the code asks ngtcp2 for up to seven. Two handlers are enough for every property of
routing, each of which is about a pair. `MaxPackets`, `MaxTime` and `MaxRestarts` bound the validation model: three packets are
an Initial, the copy after a Retry and one of another client or type; the window of 1 (0 in `no_validation`) with two (one) later
times has fresh, just valid and expired tokens. In `HttpStreams` three requests under a limit of two
make credit matter, and a push limit below the promises makes a promise without stream possible. In `ResponseFlow`
the limit is passed in the middle (a chunk of 2 at 3 gives 4), the third chunk waits, the last is a short one, and the windows are smaller than a chunk.
`QuicsyClient` needs no bound: the change of address happens once and a close packet ends the writing.
In `ClientStreams` four requests over two streams at a time need credit twice, and the fourth takes the first URI again. In
`programs` CRYPTO data of 4 bytes is cut into buffers and acknowledgements of every size; a file of 5 bytes takes three
buffers of 2, the last a short one, over a wire of 4; four packets in and five layouts let
both codecs hold frames back, reorder and refuse them; three Representations (the limit of levels is 3, so the third is refused) take what the ones
before left, with segments of 2 seconds written in two ways, of 3/2 seconds, and of what the template before left; three options include one given twice, with counts that are absent, negative or too large; with `MaxUint` 255 every multiplication has values just below and above the width.
The theorems below have no bounds.

**Deadlock** is not checked: every system here may stop (all ids drawn, all streams closed, a failed
connection, a process that ended), and the liveness properties say where it must not.

**Symmetry** is used for ids and clients in safety runs only.

**Fairness.** `QuicsyServer` assumes that libev fires `timer_` of a handler whose period is over
while the loop runs, and that the loop of `disconnect` goes on; nothing of clients, sockets or SIGINT.
`HttpStreams` assumes a client that uses its credit, that ngtcp2 ends its streams, and a
reliable encoder stream. `ResponseFlow` assumes that what is offered is written
(every read is followed by `signal_write`, and a full batch arms `wev_` again), and a peer that acknowledges and extends its
windows, as the repository's own client does for all it consumes. `QuicsyClient` assumes that libev runs
`wev_`'s callback and that the socket does not refuse it for ever, and that `run` and the destructor go on; no timer and nothing of the
server. `ClientStreams` assumes a handshake that goes on, the delay timer, and a server that answers, completes its
header blocks and returns credit. `TcpFile` assumes that both processes are scheduled.

**Mutants.** Each property of a passing run has a mutant: an operator beside the one it changes, marked
"Mutant" in its comment, that makes the mistake the property would catch.

## Findings

- `http_leak`: `on_stream_close` gives the credit back when nghttp3 does not know the stream
  but leaves the `Stream` in `streams_` (`src/quicsy_server.cc:2010`). Opening and resetting streams makes the table
  grow past `max_streams_bidi`, "the number of the concurrent bidirectional streams"
  (`include/quicsy/server.h:86`), until the connection ends. `EntriesExplained` says that nothing else
  is left behind.
- `client_rejected`: `handshake_completed` asks whether early data was rejected, and tells ngtcp2, inside
  `if (!config.quiet)` (`src/quicsy_client.cc:522`). With `--quiet`, which is documented to change output only, a rejected early request stays
  unanswered.
- `early_response`: the server's `--early-response` stores `optarg`, which is null (`src/quicsy_server.cc:3322`): the option has no
  effect.

Seen while modelling, where the models follow the code:

- A duration without a unit is in nanoseconds (`src/util.cc:409`); `--help` says seconds (`src/quicsy_client.cc:2478`,
  `src/quicsy_server.cc:3197`).
- `--nstreams=-1` asks for 2^64 - 1 requests, and `--max-streams-bidi=-1` is read as that many streams.
- `Server::remove` takes away the route of a connection that a client opened with the retired preferred-address id of the one removed
  (`src/quicsy_server.cc:2802`).
- A `rttimer_` scheduled for an expiry that is exactly now is stopped instead (`src/quicsy_client.cc:1229`, `src/quicsy_server.cc:1900`), until
  the next packet is read or written.
- `parse_mpd` counts the segments of every level by the last template it read, and a template without `duration` or `timescale` takes those
  of the one before.
- `--verify-client` also sets `SSL_VERIFY_FAIL_IF_NO_PEER_CERT` (`src/quicsy_server.cc:2977`): a certificate is required, not only
  requested.
- `parse_mpd` loops for ever over a Representation whose first attribute is not `bandwidth` (`src/abr/mpd_parse.c:69`), and gives a level
  the start number of the Representation before when `media` precedes `startNumber`, as in
  `src/abr/examples/BBB_1s_final.mpd:7`. Its `$Number%d$` is not a placeholder `parse_mpd` knows. `get_duration` loses minutes and
  seconds where there are no hours.
- `tcp_server.c` sends `exist` uninitialised when the file is there, so the client may take it for missing.
- The transcoder loses frames and returns 0: those the encoder refuses (`streaming/transcoder.c:242`; all of them if it did not open), those it
  still holds if it refuses to be flushed, and those the decoder holds at the end, since it is not flushed. `OutputFollowsInput` says that these are all.
- A stream opened for a request that nghttp3 refuses stays open in the client (`src/quicsy_client.cc:1604`, marked TODO); `AllServed`
  excepts it.

## Proofs

All theorems hold for every value of the constants that meets the module's named assumption, and are
proved from `Spec` alone. Each `...Proofs` module has an inductive invariant, one lemma per
action or kind of action, and short theorems at the end.

- `QuicsyServerProofs`. `RoutesExact` is not inductive. `RoutingInv` adds that the ids of registered handlers were
  drawn and have no `ctos_` entry, that listed ids, stored `pscid_` and those `rcid_` that are the server's were drawn, that an id
  nobody drew has no entry (`IdsDrawn`), that `rcid_` and `pscid_` name no handler and are listed by nobody else (`FirstIdsApart`:
  this is why `remove` can take no issued id from another connection), and that an unregistered handler has no
  `rcid_` and lists nothing (`NothingLeft`). `LifeInv` is the three lifecycle invariants and that a connection
  draining in ngtcp2 has `draining_` set. From them: `TypeCorrect`, `RoutesAreExact`, `AssertedRouteExists`,
  `WatchersCorrect`, `ClosePacketKept`, `PeriodsUndisturbed`, `ClosedStaysClosed`. `TablesImplementRouting` proves the
  refinement of `CidRouting` by the shape of a step (`StepShape`): one that leaves the tables alone is a stutter, one that
  retires and issues ids is `Renew`, `Server::remove` is `Close`, registering a handler is `Open`.
- `AddressValidationProofs`. The invariant says of every Retry sent, every token a client has, every packet on the
  network and every connection where it came from; `ConnsDistinct` (live connections differ in the id
  they were created with) is what makes `ConnectionsAreSingle` follow, since after one Retry a client's packets with a token all carry
  one id.
- `ResponseFlowProofs`. `BytesAccounted` is inductive with the types; `NoLostWakeup` needs the bound
  `MaxBuf > Chunk`.
- `HttpStreamsProofs`. The three tables agree: what nghttp3 has open QUIC has open, what it keeps for the encoder stream is
  closed in QUIC and waits, an open stream it does not know has not been read. `ReadOnShape` brings every way a
  read can go into one form, over which the other lemmas are stated. `CreditIsExact` counts the streams that are over (`Over`): each step
  adds one and its credit, or none, on each of the three paths of `on_stream_close` and for a stream that had to wait.
  `RequestsAreServed` proves the refinement of `RequestService` from these invariants: `PlacesLeft` turns the credit into free places
  (streams opened are in service or over), and each callback is `Begin`, `Answer`, `End` or a stutter.
- `ClientStreamsProofs`. `RequestsOnce` and the tables are inductive together with the fact that the streams opened are a prefix
  (`BidiInv`: stream `i` is open or closed iff `i < Opened`) and that no more are open than allowed in each phase (`StageInv`, the early
  stream included), which is what makes the number of new streams of `OnExtendMaxStreams` a natural number. `MakeStreamsInv` is shared by every place that
  makes requests; `DelayIsKept` follows since the timer is tested there.
- `QuicsyClientProofs`. A method of `Client` has a lemma that says what it makes of a well-formed client (`WellFormed`: one packet at most,
  for the address packets go to; one close packet, and nothing else behind it; one change of address), and a callback a lemma over
  those of the methods it calls. `Ends` is the contract of `handle_error`, `OnWrites` that of `on_write`: it has failed and
  disconnected, or the client goes on with all its watchers, or its close packet waits again. `ClientInv` adds that a
  terminal client has nothing but a close packet to send, which `TerminalStaysSilent` needs, and how the
  client is before `run()`, which `WatchersFollow` starts from.
- `StreamProofs` is about the three parts that pass data on in pieces.
  CRYPTO data: `Holds` says that the buffers of a level lie one after the other from `acked_offset` to the bytes
  submitted; appending and removing the first keep it, and the loop frees a buffer only below the acknowledged offset.
  The TCP file: `Pieces` says that the output, the wire and the rest of the file are the file, `Steps` that two living
  processes follow each other, so that a server that ended under a client that copies has read everything; both need the file to
  be there and openable and no write to have failed, conditions no step brings back.
  The transcoder: `VideoInv` says that the packets written, the frames in the encoder, those in the decoder and those lost part
  the video read (`Parted`), so that a frame moves from one to the next and is never in two; `InputInv` that the audio written is all the audio read, and
  `Once` that numbers do not repeat and audio's go up. `StreamsInv` adds that a packet is written with the index of an input stream of its kind.
- `ParserProofs` is about the parts that read text.
  `Util`: `PushDigitsIs` says that the loop of `parse_uint_internal` has the number the digits say, or has refused it since it is too large;
  `FormatUintIs` that `format_uint` writes digits that say the number; `FormatWithSays` that a number formatted with the largest unit that
  divides it says that number. `NumbersCorrect` follows for integers of any width and units of any size.
  `Options`: `OptionsInv` says that each option on the line so far has for its value what its last argument means (`Taken`), and that
  what is refused ends the program. `ReadMeans` says that what is read is what the argument means, by `ParseIs` for `Util`'s numbers and by `CountIs` and
  `LongIs` for the library's; `ConfigCorrect` follows.
  `MpdParser`: `ReadUpTo` is the invariant of the loop over the attributes of a SegmentTemplate, and `Reading` that of the document: the levels are in
  its order, a complete Representation has its level, and after the first of them the template of the initialization never is empty again, which
  makes the index of the segments right for all. `QuotientsAre` says what a count of segments fills, exact or one more or less.

What a recursive function on digits or attributes computes is proved by induction. The library's induction theorems take an operator, which the
provers cannot instantiate; `NatSetInduction` of `StreamProofs` takes a set `T` instead (`0 \in T` and a step from `n` to `n + 1`) and follows from the
well-foundedness of the inclusion of finite sets: the least of the sets `0 .. m` with `m` outside `T` has no `m`. Each recursive
function has a lemma that it exists (`PushedExists`, `FormattedExists`, `AttributesExist`), by the same induction, and only then one that says what it is.

The assumptions on constants say what the code's types and inputs ensure. `UtilAssumption`: `uint64_t` holds a digit and every unit.
`OptionsAssumption`: an argument is a sign or none, digits and a rest. `TranscoderAssumption`: streams are video, audio or something else.
`MpdAssumption`: hours, minutes and seconds are natural numbers or absent, segment durations and timescales are natural numbers, and an XML
element has one `media` attribute at most.

Only model-checked: the liveness properties (`PeriodsEnd`, `ShutdownCompletes`, `AllStreamsServed`, `AllDelivered`, `ClosedClientEnds`, `AllServed`,
`TransferEnds`), because liveness under fairness is beyond the prover. Every invariant and every action property the runs check is a theorem.

## Not modelled

The plan is carried out. Left out for good: cryptography and TLS, what ngtcp2, nghttp3 and FFmpeg do inside, the content of HTTP
messages and files (`request_path`, `resolve_path`, downloads), sockets, endpoints and addresses of the server (they select
an address and no connection), version negotiation of the client (it ends the program), `on_stream_reset`, session and transport parameter files, logging, the
GLFW window, scripts, `adaptation.c` (empty) and vendored code.
