# camera-daemon: TLA+ specifications and proofs

The daemon (`src/camera_daemon.c`, `src/rtpworker.c`) runs on a Raspberry Pi. It
builds an MMAL pipeline (camera, splitter, resizer, H.264 encoder, JPEG encoder)
and serves it over HTTP: a snapshot, a live stream over the client's own
connection, or an SRTP cast to an address. Three threads share the global
`userdata` (and `srtpctx`): the server (`main`), which handles one request at a
time, and the callbacks of the two encoders' output ports. One mutex and one
condition variable protect the snapshot; nothing protects the rest. Three
libraries are kept in the repository and linked: http-parser reads the requests,
cJSON their bodies, and libsrtp protects the packets.

## The system's parts

| part | state | operations | what is hard about it |
|---|---|---|---|
| snapshot | `snapshot_request_n`, `image_buffer`, `image_size`, `img_lock`, `img_cond`, the callback's statics | GET /snapshot (`server_on_url`), `jpeg_encoder_output_buffer_callback` | the callback reads `trylock` the wrong way round; a signal may precede the wait; a picture comes in several buffers; the reply's writes may block with `img_lock` held |
| output pools | MMAL pool queue, port | `fill_port_buffer`, tail of both callbacks | filling overlaps with callbacks; a failed send loses a buffer |
| live video | `client_fd`, `have_active_client`, `stream_header`, static `frame_start`, the connections | GET /live, `create_server`, `video_encoder_output_callback` | descriptors are reused; flags are set and cleared by two threads; a write may block, fail or raise SIGPIPE |
| SRTP cast | `srtpctx`, `have_active_srtp_receiver`, static `srtp_frame_start` | POST /srtp_cast_to, GET /stop_srtp, `prepare_srtp_sender`, `srtp_sender_callback` | two threads in one unprotected context; nothing is released; results are ignored |
| start-up | the MMAL components and connections | `main`, `setup_*`, `connect_ports` | each of some thirty calls may fail |
| HTTP server | `last_url`, the read buffer, a parser per read | `handle_request`, `server_on_url`, `server_on_body` | the buffer is not terminated; requests come in pieces; memory may be short |
| key decoding | none | `util.c`, the key check of `prepare_srtp_sender` | characters that are no digits |
| libsrtp sessions | streams, their template, what they share | add, clone, update, remove | who owns what, when any call fails |
| libsrtp packets | replay databases, pending rollover counter, keys | `srtp_protect`, `srtp_unprotect` and the RTCP forms | 16-bit numbers that wrap; loss, repetition, reordering, damage |
| libsrtp kernel | lists of cipher and auth types | `srtp_init`, `srtp_shutdown`, load, replace, self-tests | a failure half way |
| http-parser | `struct http_parser` | `http_parser_execute`, `http_parser_parse_url` | pieces of any length, pauses, limits |
| cJSON | items in linked lists; print and parse buffers | `cJSON_*` | aliasing, failed allocations, buffer estimates |

`PROJECT.json` lists each part with its status, and each hazard at its line.

## Modules

The daemon:

| module | models | actions |
|---|---|---|
| `JpegFrames` | the JPEG encoder's output: pictures of one to `MaxParts` buffers, the last marked FRAME_END (external) | operators only |
| `SnapshotService` | what the snapshot promises: request, capture of one picture begun after it, reply with it | abstract specification |
| `Snapshot` | both threads of the snapshot, one action per access to shared state | `Server*` are lines 657-680, `Callback*` lines 95-140; `SpuriousWake`; `ClientChanges`: the client reads, does not read, or has gone |
| `BufferPool` | one pool, counting buffers | `Fill*` are 226-240, `Callback*` 208-223; a send may fail |
| `LiveClient` | server, video callback and the connections | `Live*` are 681-698, `Config*` 157-166, `Frame*` 172-191; peers close, reset, stall |
| `SrtpSegments` | the loop that cuts a buffer into packets | `Iterate`, `NextCall` |
| `SrtpCast` | server and video callback in `srtpctx` | `Prepare*` and `Create*` are `prepare_srtp_sender`, `Sender*` is `srtp_sender_callback` in either thread; `LiveBranch` and `LiveBlocks` are the write to a live client before it (172-191), as far as it holds or ends the video thread |
| `Startup` | `main` and the setup functions, each as the sequence of its calls and what a failure leads to | `Succeed`, `Fail`, `CreateServer` |
| `HttpServer` | one read of a request, its parser and callbacks | `Send` (a client), `handle_request` |
| `Encodings` | hexadecimal and base64 of `util.c`, the key of a cast | `ToHex`, `FromHex`, `ToBase64`, `FromBase64`, `Key` |

libsrtp:

| module | models | actions |
|---|---|---|
| `SrtpSession` | the streams of a session and the objects they own or share with the template; the place of the failing call is chosen in each action | `Create`, `AddStream`, `RemoveStream`, `UpdateStream`, `Protect`, `Unprotect`; `UpdateTemplate` begins `update_template_streams`, and its loop is one `UpdateClone` per stream up to `UpdateTemplateReturns`, or `UndoClone` and `UndoTemplate` after a failure; `srtp_dealloc` is `Dealloc`, one `DeallocStream` per stream and `DeallocSession` |
| `SrtpPacket` | a sending and a receiving session, and the network between them | `Protect`, `ProtectRtcp`, `Receive` (RTP and RTCP, sent or damaged), `SetRocTx`, `SetRocRx` |
| `SrtpPolicy` | the policy setters, DTLS profiles and the derivation of session keys, octet by octet | operators only |
| `ReplayDb` | `rdbx.c` and `rdb.c`; a bitmask is a set of bits | operators only |
| `ReplayIndices`, `ReplayReceiver` | a receiver's use of the replay databases once a packet is authentic; the abstract specification of `SrtpPacket`'s receiver (the mapping is in `SrtpPacketRefinement`) | `ReceiveRtp`, `ReceiveRtpPending`, `ReceiveRtcp` |
| `BitVectors` | the word-by-word shifts `ReplayDb` takes as one shift | `SetBit`, `LeftShift`, `RightShift` |
| `KeyLimit`, `KeyUse` | `key.c`, and a key that is used packet by packet | `Use` |
| `AesIcm` | counter mode; a keystream octet is its position | `srtp_aes_icm_set_iv`, `srtp_aes_icm_encrypt` |
| `Sha1Hmac` | the block buffer, the padding and HMAC; the compression function is abstract | `Start`, `Update`, `Compute` |
| `HeaderExtension` | the walk over header extension elements on both sides | `Write`, `Protect`, `Unprotect` |
| `CryptoKernel` | the kernel's lists, the self-tests, init and shutdown; a call is a sequence of steps, any of which may fail | `SrtpInit` followed by `LoadInit*`, `BecomeSecure`, `LoadSrtpModule`, or by `Status*` on a secure kernel; `LoadType` followed by `AddType`, `TypeRefused`, `TestAgainstOld`, `ReplaceType`, `TypeFailed`; `Test*` is one step of a self-test; `SrtpShutdown`, `AllocObject`, `DeallocObject` |
| `Lifecycle` | `BufferPool`, `Startup`, `SrtpSession`, `CryptoKernel` and `KeyUse` together | none of its own |

http-parser and cJSON:

| module | models | actions |
|---|---|---|
| `HttpUrl` | character classes, `parse_url_char`, `http_parser_parse_url` | operators only |
| `UrlFields` | every URL of a small alphabet | `Extend` |
| `HttpParser` | `http_parser_execute`, one operator per group of its states | operators only |
| `HttpStream` | streams of messages in pieces, with callbacks that pause or fail | `Feed`, `Resume`, `Eof` |
| `CjsonTree` | items, lists, strings and references in memory; `doc` is what the caller asked for | one action per public operation that changes a tree |
| `CjsonText` | parser, printer and minifier, with buffers and allocations | operators only |
| `CjsonRoundTrip` | a document printed in any way, minified, commented or damaged, and parsed | `Print*`, `Comment`, `Minify`, `Lose`, `Gain`, `Parse` |

`MCLiveClient` and `MCSrtpCast` instantiate one component for TLC.
`MCLifecycle` (which has `Snapshot` too), `MCPacketPath` and `MCText` instantiate
several that share no state: a constant variable `which` says which of them runs, and each property is
the component's own for that choice. Definitions named `X_Y` and commented
"Mutant" are plausible bugs in the code `X` models; each property is violated by
one of them.

How the parts fit together: `HttpServer` uses `HttpParser` and records the command
that `Snapshot`, `LiveClient` or `SrtpCast` carries out. `SrtpCast` uses libsrtp
as `SrtpPacket` shows it to behave: a packet is protected under a number that was
not used, or left as it is. `SrtpPacket` uses `ReplayDb` and `SrtpPolicy`, and its
receiver implements `ReplayReceiver`; memory and the life of streams are in
`SrtpSession`, the key limit in `KeyUse`. `BitVectors`, `AesIcm`, `Sha1Hmac` and
`HeaderExtension` justify what the others take as single steps.

### Abstractions

- Pictures, frames and packets are identities and kinds, not octets. The video
  header is absent, partly stored or stored. A connection is known by its
  descriptor and the state of its peer.
- Variables marked "history" or "ghost" record what a client or caller has seen or
  means; no guard of the program's actions reads them, except the bounds.
- In `SrtpCast`, a libsrtp session is the ssrc of its stream and the set of
  sequence numbers it has protected. The connection of a live client is left to
  `LiveClient`; here its write returns, blocks or ends the process. The two stores of `hdr->seq` (host, then
  network order) are one step after the load, and the receiver's address and port
  are written together.
- In `SrtpPacket` cryptography is perfect: a tag passes exactly when key, packet
  and rollover counter are the sender's.
- A number too large for TLC is a constant: `SEQ_MAX` stands for 2^16, `ROC_MAX` for
  2^32, `MODULUS` for 2^64, `ULLONG_MAX` for itself; `URL_SIZE` is the 16 octets
  `last_url` starts with. Overflow and wrap-around are at the constant.
- A failing call is a choice: an action takes it as a disjunct, or is given the place
  of the call that fails, or (cJSON) the number of allocations that succeed.
- libsrtp's AES-GCM is in `srtp.c` and in `SrtpPacket`, but the default build
  (`ENABLE_OPENSSL` off) compiles it out of reach; http-parser is in strict mode.

## Runs

Passing runs:

| run | shows | bounds |
|---|---|---|
| `live` | a client that becomes live while nobody is starts with a key frame; a live client gets frames or, once closed, is released | 2 descriptors, enough for takeover and reuse |
| `srtp_cast` | casts that wait for the one before to be over: one user of `srtpctx` at a time, packets protected by the right session and numbered 1, 2, 3..., header and key frame first; every completed cast, overlapping or not, is streamed, unless writes to a live client block the video thread again and again | 2 casts, 2 ports, 2 ssrcs, frames of 1-2 packets, 3 packets per cast |
| `lifecycle` | Snapshot: a reply is one complete picture begun after the request; the buffer holds at most one picture and is not written while it is sent; a captured request and a sleeping server get to their reply; the two threads refine `SnapshotService`. Buffers: conserved, no get finds the queue empty, the encoder is fed until every buffer is lost. Start-up: a callback is registered after what it uses is stored, and a server that starts has the pipeline the checked calls build. Sessions: nothing is freed twice, used after free or leaked, and no stream's index falls back in an update. Kernel: ciphers are handed out only when tested, replaced only by compatible ones, nothing leaks, `srtp_init` needs a clean kernel. Keys expire at their limit | 3 requests (a late unlock reaches the next critical section), pictures of 1-3 buffers, 3 identities; 6 buffers, 4 splitter outputs; 2 SSRCs, up to 2 master keys, 2 streams beside a template and its replacement, 1 packet, seven policies (wildcards with MKI and encrypted extensions or two keys, specific, undefined, no keys, too many, one not given); five standard types and six others under their ids, every step of a call failing in turn; limits below, at and above a soft limit of 3, counter mod 24 |
| `packet_path` | segments add up to the buffer. No index is accepted twice or protected twice, what is accepted is intact, what is timely is accepted, a sender that counts on is not refused, trailers are as long as announced, derived keys share no octets, and the receiver implements `ReplayReceiver`. Shifts, keystream, tag and header extensions are what they stand for | packets of 4 octets, lengths 0-41; sequence numbers mod 4 up to index 6 (one wrap), rollover counters mod 4, and windows of 2 (every case of the estimate, inside, at the edge and beyond the window); 2 RTP and 1 RTCP packets at a time; four policies: default, 32-bit tags with two keys and MKI, null cipher with repeats, GCM; vectors of 3-bit words; counter mode blocks of 4; messages to 130 octets in pieces of 1, 50, 58, 64 (all padding cases); extensions of up to two words |
| `text` | HTTP: pieces do not matter, well-formed streams lead to the callbacks they stand for, bodies are as long as declared, ends of file, header limit, the parser's assertions, URL fields. Requests: a body has its request's URL, a request in one read is served. JSON trees: no bad access, lists are the document, everything is owned once, members are found, duplicates are all or nothing. JSON texts: round trip, no leak, no access outside a buffer, five spare octets are enough. Keys: what is written is read back, an accepted key is what the first characters of its text stand for | every method, bodies counted, chunked and until the end, about eighty damaged streams, pieces of 1 and 5 octets and the rest; header limit 60, lengths to 999; URLs of up to three characters after five beginnings; 2 requests, a buffer of 60, cuts at 12 and 46, `last_url` starting with 10 octets; 4 items, with and without references and keys equal up to case; JSON of three levels (the nesting limit), print buffers of 0, 1 and 13 octets, the first, second or no allocation failing, one character lost or added; texts of up to 4 octets, keys with up to 3 characters more or with one that is no digit |

Runs in which the code disagrees with its own comments or headers (the findings in
`PROJECT.json` quote them):

| run | the code |
|---|---|
| `snapshot_answered` | may signal before the server waits: the request is never answered |
| `live_key_frame_first` | lets a client that takes over start with a delta frame |
| `live_lost_activation` | clears the flag of a client that has just become live |
| `srtp_segments_data` | copies the octets after the segment |
| `srtp_recast_exits` | exits on a second cast to the same port |
| `srtp_unprotected` | sends a packet in the clear when casts overlap |
| `key_expired` | forgets that a key has expired: the counter wraps and the next packet passes |

Deadlock is not checked where the model stops by design: the process has ended,
every buffer is lost, a document is parsed, or a bound is reached.

### What the properties except

The code does these things; the properties are stated with them excepted, and the
definitions say so where they do it.

- A client that asks for /live, or a cast requested, before the encoder's
  configuration buffer is stored is streamed without the video header (lines 695,
  750). A new connection that gets the descriptor of a closed live client gets its
  video (865). A write to a connection that was reset ends the process with SIGPIPE
  (184, 675, 676), and one to a client that does not read blocks its thread, the
  server with `img_lock` held. The server may start with an encoder that is not connected (533, 602).
- A request that arrives in several reads is not put together, and one that fills
  the buffer, or is followed by octets of an earlier one, is parsed with what
  follows it (camera_daemon.c:792). A NUL in a base64 key counts as a digit
  (util.c:177), so a key text that is too short may be read beyond its end; and the
  length of the text is compared with the number of hexadecimal digits
  (rtpworker.c:83), so that of a base64 text of up to 60 characters the first 40 are
  read and the others ignored. A buffer whose `mmal_port_send_buffer` fails is lost
  to the pool.
- libsrtp: the 48-bit packet index ends. `srtp_index_guess` keeps the rollover counter
  in 32 bits, so it starts again at 0 while `rdbx->index` goes on, and nothing raises
  `event_packet_index_limit`; what is said of indices holds up to `LastRtpIndex`
  (2^48 - 2^15 - 1), from which the guess cannot yet be one that has wrapped. A key derivation that fails half way, and a template that cannot be initialised in
  an update, leave memory behind. A rollover counter set by the user is not entered
  into the database on the GCM path. SRTCP's MKI is looked for behind a tag of the
  RTP policy's length. A pending rollover counter that did not move the index stays,
  and refuses the first packet after the next wrap; while it is pending, a sender may be
  refused. A stream that the application removes and adds again starts at index 0. A malformed header extension is
  refused with earlier elements already changed. `srtp_init` that failed once fails
  until `srtp_shutdown`.
- http-parser: a pause forgets the header octets counted so far in the call.
- cJSON: a reference whose key cannot be copied is lost; a replacement whose key
  cannot be copied is linked without one. `cJSON_Minify` takes the quote after an
  escaped backslash for an escaped one. `ensure` with a block of size 0 and no
  realloc copies one octet from it.

### Fairness

- Each thread is weakly fair: the kernel schedules it. A wait for `img_lock`, for
  a signal or in a blocking write is not a step that is enabled, so fairness does
  not end it. Peers, requests and spurious wakeups are not fair.
- An encoder goes on delivering buffers while it has one, pictures end
  (`Snapshot`), and key frames recur (`LiveClient`, `SrtpCast`: strong fairness,
  since the callback is busy in between).
- `VideoFairSpec` asks nothing of the server; the violations of liveness are under
  `FairSpec`, in which both threads are fair.

Nothing is assumed of peers. `LiveClientIsServed` excepts a video thread stuck in a
write to a stalled peer: the code does block there. So does the server in its reply to
/snapshot: `SleeperIsServed` ends with the server about to write its header.
`CastIsStreamed` excepts a video thread that is blocked again and again by a live
client, a process that has ended, and the bound `MaxSeq`. The
libraries run in their caller's thread and promise nothing by themselves, so their
modules have safety properties only; that a timely packet is opened, or a sender
goes on, is stated of the result of the next call.

## Proofs

TLAPS checks these for every value of the constants, under the assumptions named
in the modules (`JpegAssumption`, `BufferNumAssumption`, `FdsAssumption`,
`SegmentsAssumption`, `CastAssumption`, `ReplayAssumption`, `IndicesAssumption`,
`PacketAssumption`, `KeyLimitAssumption`, `IcmAssumption`, `SplitterAssumption`,
`SessionAssumption`, `KernelAssumption`):
sizes are natural numbers, the sequence number space is even and at least 4, the
RTP window is no longer than half of it (libsrtp asks for less than 2^15), a policy
has at least one key, a key's limit fits its counter, and a cipher's block is not
empty. `LastIndex` bounds the indices of `ReplayReceiver` that `SrtpPacket` can
reach, by its bound `MaxIndex` and the rollover counters set; it may be as large as
`LastRtpIndex`, where the 32-bit rollover counter would wrap. libsrtp's own types pass
their tests and have ids of their own.

- `HttpProofs`, about what the server and a callback do for an HTTP client.
  `Snapshot`: type correctness, `ReplyIsOneFreshPicture`, `ImageIsAtMostOnePicture`,
  `NoWriteWhileSending`, and `SnapshotSpec => ServiceSpec`. None of them is inductive.
  The invariant adds what the inverted lock leaves as protection: the callback touches
  the image only while `snapshot_request_n` is 1, the server sends only after it is 0,
  and between the two the collected buffers are a prefix of the encoder's current
  picture, which began after the request. `LiveClient`: type correctness,
  `CleanStartIsKeyFrame` and `GateShutWhenIdle`, with the value of the gate at each
  place of the callback.
- `PipelineProofs`, on `SrtpCast`: type correctness and the three calm properties, for
  any number of casts, ports, ssrcs and packets. `IInv` says who owns `srtpctx`: while the
  server is in a cast the video thread is locked out by the flag and the shut gate
  and the context is prepared up to the server's step (`CastInv`); while the flag
  is set it is the latest cast's (`HandedOver`); and the header's sequence number
  is the count of packets sent, above every index the session has used
  (`PacketInv`, `SettledInv`). Without calm only the types remain.
- `ReplayProofs`: `NoReplay`, `WindowsRemember` and `TimelyIsAccepted` of
  `ReplayReceiver`. No replay is inductive only together with what the windows
  remember (`IInv`): every marked bit is an accepted index, every accepted index in
  the window is marked, and nothing beyond the newest was accepted. Lemmas give each
  operation of the databases its effect: entering an index shifts the marks
  (`AddRemembers`, `RtcpAddRemembers`), a rollover counter set by the user moves so
  far that the emptied window forgets nothing (`AdvanceRemembers`), and the estimate
  is exact within half the sequence number space (`EstimateIsExact`), by the cases of
  `srtp_rdbx_estimate_index` and the arithmetic of quotient and remainder.
- `SrtpPacketProofs`: the two sessions of
  `SrtpPacket`, for any policies, sequence number range and window sizes, with calls
  that fail and rollover counters set on either side: type correctness,
  `IndexNotReused`, `AcceptedOnceAndIntact`, `TrafficGoesOn`, `TrailerIsLongEnough`
  and the refinement `ImplementsReceiver`. The ghosts `reused`, `again` and
  `garbled` record that something bad has happened, so that it never does is not
  inductive: what prevents it is in the databases. `PacketIInv` adds that every RTP
  packet in the network is marked in the sender's window or older than it and every
  SRTCP packet is numbered up to the sender's counter (`SenderKeepsTrack`: the next
  index is new); and that the receiver's databases mark what was accepted, and
  nothing else (`ReceiverKeepsTrack`). The second half of that is for `TrafficGoesOn`:
  a window that marks too much refuses a packet in reach. A GCM stream whose rollover
  counter was set is the exception in both (the ghost `told`): its index 0 may be
  marked without having been accepted. The invariant
  is in `SrtpPacketInvariant`. Its two halves are proved apart, since protecting a
  packet leaves the receiver alone and unprotecting one leaves the sender: lemmas say
  what a call leaves behind whichever of its steps fails, one per action, on top of
  what `ReplayProofs` shows of the databases; the theorems join the halves. For the refinement, an accepted packet is a step of `ReplayReceiver`
  with the same index (by the estimate if no counter is pending, by the pending one
  if there is), and every other step leaves the receiver's databases alone.
  `PacketIInv` itself was checked with TLC on `packet_path`'s constants.
- `PipelineProofs` also has five smaller components, each with its own invariant.
  - `BufferPool`: type correctness, `BuffersConserved` and `QueueNeverEmptyAtGet`.
    The strengthening relates the queue to what `fill_port_buffer` has yet to take:
    a callback releases before it gets, so it never eats into that share.
  - `SrtpSegments`: type correctness and `SegmentsAddUp`, from `sent = offset` and
    the number of packets sent so far.
  - `KeyUse`: type correctness and `ExpiresAtItsLimit`. The counter and the state are functions of the
    number of uses, wrapping included.
  - `AesIcm`: type correctness and `KeystreamIsConsecutive`, for any block size and
    counter width and any division of a message into calls. The invariant
    (`CounterCovers`) is the balance of the counter: the blocks drawn since the IV
    was set are the octets used and those left in the buffer, and the buffer holds
    the last block. The proof is the arithmetic of the three parts of
    `srtp_aes_icm_encrypt`: what the buffer still holds, whole blocks, and the rest.
  - `Startup`: `SetUpInOrder` and type correctness, for a splitter with any number
    of outputs and any calls failing. The sequence of calls is put together from the
    setup functions; lemmas show that putting sequences together keeps their order
    and what they check. The invariant (`SetupKeepsTrack`) says what the calls passed
    so far have left behind: a success unless the result is ignored.

- `StreamProofs` and `SessionProofs`: `SrtpSession`, for any policies, keys per stream
  and number of streams, with any allocation or initialisation failing: type
  correctness, `StreamMemoryIsOwned` and `IndexNeverFallsBack`. That memory is owned is
  inductive only with who shares what (`SessionInv`): streams have generations of their
  own; a clone holds its own struct, key array, MKIs and bitmask and, of its template,
  exactly the ciphers, auths, limits and extension list; what two streams share belongs
  to the template of one of them; and during `update_template_streams` the clones of
  the old template and of the new one are told apart by the auth function of their
  first key, which is the test the code makes. `StreamProofs` has the lemmas about one
  stream (what `srtp_stream_alloc`, `srtp_stream_init`, `srtp_stream_clone` and
  `srtp_stream_dealloc` take and give back), `SessionProofs` one lemma per action.
- `KernelProofs`: `CryptoKernel`, for any types and test data: type correctness,
  `KernelMemoryIsOwned`, `SecureIsTested`, `InitNeedsCleanKernel` and
  `ReplacementIsCompatible`. The invariant relates a test in progress to what it has
  passed so far and to what it holds, and `srtp_init` in progress to the modules and
  types it has loaded: on a clean kernel its next step finds nothing in its way.
- `LifecycleProofs` puts these together for the properties that the run `lifecycle`
  checks: `PartsTypeOK`, `MemoryIsOwned`, `KernelIsTested`, `ReplacementKeepsState`.

Only model-checked, and why:

- all liveness, which is outside the prover's reach, as is ENABLED;
- `BitVectors`, `Sha1Hmac` and `HeaderExtension`: folds and recursion over words,
  blocks and elements, whose result for every length takes an induction over data that
  the prover cannot do;
- `HttpParser`, `HttpUrl`, `HttpServer`, `CjsonTree`, `CjsonText` and `Encodings`:
  recursive operators and folds over characters and items;
- that session keys share no octets (`SrtpPolicy`), a property of the derivation's
  table, checked for every policy the code can build.

## Not modelled

- The rounds and tables of AES and SHA-1 (`aes.c`, the compression function in
  `sha1.c`): pure functions of 128 and 512 bits, whose values no property tells
  apart. The variants for OpenSSL and NSS are not built.
- `ekt.c`: no stream has an EKT context.
- Error reporting, printing, statistics, test programs and allocation wrappers of
  libsrtp; the octet layout of RTP headers; the user data of a session.
- http-parser's and cJSON's functions that only read a field or return a text, and
  cJSON's fractions and exponents.
- The RTP timestamp, which nothing in the program reads; `destroy_srtp_sender`,
  which has no caller, and the disabled variant of `srtp_sender_callback`.
- The assertions on the fields of a cast's JSON body (camera_daemon.c:729).
- Formats, sizes and MMAL parameters.
