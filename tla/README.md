# A TLA+ model of s2n-tls

TLA+ modules that model s2n-tls as it is in `src/`, TLC
configurations that check them on small instances, and proofs, checked by
TLAPS, of what holds for every instance. `PROJECT.json` lists the components,
the runs, the source lines behind every definition, the hazards the properties
are aimed at, and the places where the code and its documentation disagree.

## The system

s2n-tls is a library without threads or I/O loops of its own. An application
owns a *connection* and calls `s2n_negotiate`, `s2n_send`, `s2n_recv` and
`s2n_shutdown` on it; each call does as much as the socket allows and returns,
possibly to be called again. What is hard in it follows from that: every call
may stop between two records (`S2N_ERR_IO_BLOCKED`), at a callback that answers
later (`S2N_ERR_ASYNC_BLOCKED`, `S2N_ERR_EARLY_DATA_BLOCKED`), and must go on
later as if nothing had happened; two machines, and up to two threads on each,
interleave their steps.

| Component | State | Operations | Hard because | What makes it correct |
|---|---|---|---|---|
| Handshake state machine (`s2n_handshake_io.c`, `s2n_handshake_type.c`) | `handshake_type`, `message_number`, `paused`, `handshake.io` | compute and adjust the type; write, flush, read, retry a message; advance | the type is recomputed while the number counts; handlers block and run again | every type has a row; no recomputation changes what was passed; both ends walk the same row and finish |
| Message handlers and extensions (`s2n_client_hello.c`, `s2n_server_hello.c`, `s2n_server_hello_retry.c`, ..., `extensions/`) | versions, session id, ticket status, chosen PSK, key share, certificate flags | one send and one receive handler per message | two computations of the same decisions from partial knowledge | the two ends decide the same |
| Early data (`s2n_early_data.c`, `s2n_early_data_io.c`) | `early_data_state`, `early_data_expected`, callback | request, accept, reject, end, trial decryption | data in flight when the verdict comes | all of it or none of it is delivered, under the early keys |
| TLS 1.3 secrets and keys (`s2n_tls13_secrets.c`, `s2n_tls13_key_schedule.c`), TLS 1.2 switch of keys (`s2n_change_cipher_spec.c`, `s2n_*_finished.c`) | secret reached, key and sequence number per direction | update after each message, reset, clean | each end changes keys after messages of its own choosing | a record always meets the key it was sealed with; no nonce repeats |
| Record layer (`s2n_record_*.c`) | sequence numbers, `conn->in`, `conn->out` | write, parse | hidden content type, plaintext exceptions | as above |
| Application I/O (`s2n_send.c`, `s2n_recv.c`, `s2n_shutdown.c`) | `current_user_data_consumed`, `conn->out`, `conn->in`, `closing`, `closed` | send, flush, recv, shutdown | partial writes and retries; flush is shared by all calls, and by two threads | the stream arrives intact, what is reported is on the wire, shutdowns meet |
| Alerts (`s2n_alerts.c`) | two alert stuffers, `alert_in` | queue, send, process | sent by whichever flush comes next | no data after a close |
| Key update, tickets (`s2n_key_update.c`, `s2n_post_handshake.c`, `s2n_server_new_session_ticket.c`) | `key_update_pending`, `tickets_sent` | check limit, send, receive | inside `s2n_send`, may block there | both ends change keys at the same record; the limit holds |
| Session resumption and PSK (`s2n_resume.c`, `s2n_psk.c`, `extensions/s2n_*_psk.c`) | session id, ticket, ticket keys, cache, PSK list, early data limits | set session, add and expire keys, decrypt a ticket, look up the cache, offer, choose | the cache answers later; keys expire; a retry shortens the offer | both ends agree on whether they resume and with what; limits hold on both sides |
| Asynchronous private keys (`s2n_async_pkey.c`) | `async_state`, the operation | invoke, perform, apply, free, set output | another thread owns the operation; the connection may be wiped under it | done once, applied to its own handshake, freed |
| Connection and configuration (`s2n_connection.c`, `s2n_config.c`, `s2n_socket.c`) | everything | new, configure, wipe, free, blind | reuse of a connection; a wipe that fails half-way; sockets shared with the application | a wiped connection is a new one; memory has one owner; errors are delayed once the kill succeeded |
| Certificates (`s2n_certificate.c`, `s2n_x509_validator.c`, `s2n_map.c` by name) | chains, names, trust store, validator state | load, add, look up, validate | ownership between config and application; names from several fields | a served name is accepted by the client that asked for it; nobody is trusted unverified |
| Parameter selection (`s2n_cipher_suites.c`, `s2n_signature_algorithms.c`, `s2n_auth_selection.c`, `s2n_security_policies.c`, `s2n_cipher_preferences.c`, `s2n_kex.c`) | the policies' tables | choose version, suite, group, scheme, certificate | large tables, two computations of one decision | the choice is acceptable to both and is the most preferred one |
| Secrets and records (`s2n_prf.c`, `s2n_tls13_handshake.c`, `s2n_server_key_exchange.c`, `s2n_client_key_exchange.c`, `s2n_record_*.c`, `s2n_cbc.c`, `s2n_hash.c`, `s2n_hmac.c`) | transcript, secrets, keys, sequence numbers, hash states | derive, protect, open, copy, reset | what is hashed when; sizes at their limits | both ends derive the same and erase it; what was altered is refused, but for a type in a TLS 1.3 header and SSLv3 padding |
| Utilities (`stuffer/`, `utils/`) | buffers, maps, sets, random state, fork generation | | bounds, failing allocations, fork | a stuffer is a queue; containers hold what was put in; no state is shared across a fork |
| libcrypto, `pq-crypto/`, bindings, command line tools | | | out of a model checker's reach | |

Components interact through `struct s2n_connection` (shared state) and plain
calls: `s2n_negotiate` calls the handlers through the tables `state_machine[]`
and `tls13_state_machine[]`; a handler calls extension callbacks, the early data
and resumption code and the application's callbacks; after a message
`s2n_tls13_secrets_update` and `s2n_tls13_key_schedule_update` run; every
writer goes through `s2n_record_writev`, `conn->out` and `s2n_flush`, every
reader through `s2n_read_full_record` and `conn->in`. The two ends interact by
records only.

## The modules

The handshake:

* **HandshakeTypes** - the messages of the two state machines with writer,
  record type and wire type, and the rows `handshakes[]` and
  `tls13_handshakes[]` as functions of the handshake type, with the set of types
  that have a row. A type is the set of its flags. `ActiveMessage` reads a
  missing entry as `CLIENT_HELLO`, as the static tables do.
* **Connection**, **Handlers** - the state of one connection that steers a
  handshake, and its handlers. A handler is a function from a state to a verdict
  and a state; `Then` is a `POSIX_GUARD` between two calls.
* **Negotiate** - two connections running `s2n_negotiate` against each other. A
  step is one trip around the loop of `s2n_negotiate_impl`, cut where the call
  may return. `passed` is a history.
* **AsyncHandshake** - one connection that reads messages out of records cut at
  will, and the operations that another thread performs and applies.
  **MessageOrder** is what it promises, and what it is shown to implement.
* **SecurityPolicies**, **CipherPreferences**, **CipherSuites** (the tables, in
  full), **Selection** - the choice of parameters in a hello exchange with retry.
* **Extensions** - sending, receiving and missing extensions, and the features
  they negotiate; an end with QUIC refuses less than TLS 1.3. **Psk** - the list of PSKs, offers, early data limits, tickets,
  sessions. **MCHello** composes Selection, Extensions and Psk.
* **TicketKeys** - the ticket keys of a config and the connections that use them.
  `now` is the wall clock, which every call reads anew; `issued` is what clients
  and cache hold; `due` and `promise` are histories.

After the handshake:

* **ConnectionIO** - two connections: `s2n_send`, `s2n_recv`, `s2n_shutdown` and
  the `s2n_flush` they share, each cut where the socket may refuse, with key
  updates, tickets and alerts. `at[e][t]` is where thread `t` of connection `e`
  is. Bytes are named by their position; `acked`, `written`, `flushed` and
  `delivered` count them at four points.
* **Receive** - one connection against any legal peer: alerts halved or several
  in a record, key updates, tickets and hellos whole or cut in two, a
  renegotiation, warnings, and what an interrupted call leaves in `conn->in`.

Endpoints:

* **Config** - the settings a connection reads. **ConnectionLife** - a connection
  made, configured, given descriptors or callbacks, used, blinded, wiped and
  freed, with allocations that fail. Memory is the set of the members that own
  some; `last` is the last call and whether it succeeded.
* **Certificates** - loading, ownership, lookup by name, validation of chain, host
  and stapled response. **MCEndpoint** composes it with ConnectionLife.

Cryptographic state, with keys, digests and ciphertexts as terms:

* **Prf**, **KeyExchange**, **KeySchedule**, **Secrets** - every secret with what
  it is derived from, and its erasure, through two handshakes.
* **Hashes** - hash and HMAC states, of callers that leave a state alone once a call on
  it has failed, as every `POSIX_GUARD` does: a copy or a reset that fails leaves a
  state half changed, and it still says that it is ready. **Records** - sizes, padding, MACs, nonces and
  sequence numbers of every record algorithm. **MCCrypto** composes these.

The library under it:

* **Stuffer**, which implements **ByteQueue**; **Containers**; **Encodings**
  (pure conversions against reference definitions); **Random**;
  **ForkDetection** (the generation number under its lock). **MCLibrary**
  composes them.

Proofs: **NegotiateProofs**, **ConnectionIOProofs**, **ReceiveProofs**,
**AsyncHandshakeProofs**, **TicketKeysProofs**, **EndpointProofs**,
**ForkDetectionProofs**, **StufferProofs**.
**MCNegotiate**, **MCConnectionIO** and **MCTicketKeys** hold the constants of
their runs.

A composing module lets one of its parts take place in a behaviour (`part`) and
leaves the others as they are: the parts share no state in the code either.
Definitions named `X_Something` and marked "Mutant" are wrong versions of the
definition after them; replacing it by one of them breaks the property that
`PROJECT.json` names, which shows that the property can fail. The map of
`PROJECT.json` gives the source lines of a definition; most helpers whose lines
lie within those of the definition that uses them are not listed again.

## The runs

| Run | What it checks | Distinct states |
|---|---|---|
| `tls12` | TLS 1.2 between all combinations of client authentication, stapling, key exchange, tickets, cache, renewal and asynchronous answers: the part of the row already passed is never rewritten (`NoRewritingThePast`), a record meets the key it was sealed with (`KeysInStep`), the ends agree (`Agreement`), no nonce repeats (`NonceNeverRepeats`), every handshake ends and compatible ones succeed (`Completes`) | 31 199 |
| `tls13` | the same for TLS 1.3 with retry, middlebox compatibility, QUIC, client authentication, PSK, early data and fallback, and `EarlyDataAllOrNothing` | 31 758 |
| `io` | one call at a time: `NothingSkippedOrRepeated`, `ReportedIsOnTheWire`, `StreamIntact`, `KeysInSync` | 717 347 |
| `io_live` | `EverythingArrives`, `ShutdownsMeet` | 15 044 |
| `receive` | `StreamUnderstood` (only data is delivered, and a conforming peer causes no error but by a post-handshake message cut in two or a renegotiation, which are refused), `EndIsNoticed` | 452 045 |
| `async` | `NothingLost`, the refinement `InOrder`, `HandshakeEnds` | 56 980 |
| `ticket_keys` | keys added, expiring, wiped and freed between the steps of handshakes: `KeysInOrder`, `Tls12SessionHonoured`, `PromiseCanBeKept` | 66 537 |
| `hello` | `SelectionRight`, `FeaturesRight`, `PskRight` | 722 147 |
| `library` | `LibraryRight`, `ForkNoticed`, the refinement `StufferIsQueue` | 218 938 |
| `crypto` | `SecretsRight`, `DigestsRight`, `RecordsRight` | 579 725 |
| `endpoint` | `WipedLikeNew`, `NothingLeaked`, `DelayEnforced`, `PeerChecked`, `ServedNameIsAccepted`, `PeerVerified` | 601 000 |
| `psk_retry` | finds `PskAgreed` violated: see below | |

`SelectionRight`, `LibraryRight` and the others that end so are the conjunction
of what one part promises; the conjuncts are stated one by one in its module.

### Bounds

* `MaxMessages = 16`: the longest row has 15 messages with its retry; a
  connection that reaches the bound stops writing, which `Completes` would show.
* `MaxEarlyData = 2` records: one to be the first under the early key and one to
  follow it, before or after the server's verdict.
* `io`: `StreamLen` 2 bytes one way and 1 the other, `PayloadSizes = {1, 2}`: a
  call in one record, in two, cut short after one, retried with less.
  `encryption_limit = 1`: a key update before every second record.
  `tickets_to_send = 1`, `Capacity` 1 or 2 records: the socket is full, and is
  emptied, at every point.
* `receive`: `MaxRecords = 3`, `MaxSent = 2`: a part of an alert or of a message, its
  rest and what comes behind; `CoalesceAlerts = FALSE`, see the notes.
* `async`: two units per message and `MaxRecordUnits = 4`: a message cut in two, two
  in a record; `MaxWipes = 1`: an operation of the last handshake in this one.
  `CoalesceAfterAsync = FALSE`, see the notes.
* `ticket_keys`: `MaxTime = 5` with lifetimes of 2 and 1 ticks: a key is
  introduced, encrypts, only decrypts and expires within them, and a second one
  (`Intro = {0, 3}`) overlaps it in each phase. Two keys fit, of two names and
  three contents, so that the set is full and a name is used again. Names and
  contents are only compared, so permuting them is a sound symmetry; the run has
  no liveness property.
* `hello`: pairs of policies, certificates and older clients in
  `SelectionSetups`; `MaxRounds = 2` connections, the second resuming the first;
  `MaxSends = 2` early data sends of `Sizes = {5, 20}` around the limits;
  `MaxClock = 5` around the lifetimes.
* `library`: `UINT32_MAX = 3`, `GROWTH = 2`, `Radix = 2`: a stuffer grows, is full and
  cannot grow; a map of capacity 2 that doubles once; one failing allocation, one
  fork, two threads in Random, three callers of the fork detection; PEM lines of
  1, 64 and 65 dashes, and 32 and 33 where two lines meet.
* `crypto`: real sizes around the limits of a record and of a hash block; a
  sequence number of two bytes with two values instead of eight with 256
  (`SeqBase`, `SeqLen`), so that it wraps; `MaxFaults = 1` record lost, repeated,
  moved, or altered in its body, its padding alone or the type in its header; one
  HMAC of each block size and the SSLv3 MAC. `RecordVersions` are TLS 1.0, 1.2 and
  1.3: without an explicit IV, with one, and with the type inside.
* `endpoint`: `MaxCalls = 3` calls besides negotiating, wiping and freeing, one
  socket, one failing allocation, two pairs of configs that differ in every
  setting a connection reads: both accepted, or one refused at once by a client and
  half-way by a server; two chains of seven PEMs. The clock ticks (`MaxTime`) until
  no delay lasts; a kill may get no random number or no clock.
* TLC visits the whole state space: nothing else bounds it.

### Fairness

* `Negotiate`: weak fairness of each end's steps and of the client's end of
  early data. The code is deterministic once called: the assumption is that the
  application keeps calling `s2n_negotiate` and answers what it was asked, which
  is what the API demands.
* `ConnectionIO` (`FairSpec`): a call runs on (weak); the application keeps
  polling, and the socket takes a record again and again while it has room
  (strong, because another call of the same thread may get in between).
  `ShutdownsMeet` allows for the one deadlock left: both sockets full, both ends
  writing.
* `Receive`: weak fairness of `s2n_recv`: the application polls.
* `AsyncHandshake`: the peer sends its records, the application calls
  `s2n_negotiate`, the callback returns (weak); the worker sets an output for an
  operation (weak) and applies it (strong: a call on the connection can get in
  between). These are duties of the application and the peer, not of s2n.

## The proofs

What TLC checks on an instance the theorems state for every value of the
constants. Each rests on an inductive invariant, with one lemma per action or
per conjunct; the invariants, or for Stuffer the properties, were checked with TLC
before they were proved.

* **NegotiateProofs** (`NegotiateAssumption`: any set of pairs of configs;
  `SessionAssumption`). `PastIsNeverRewritten`: `Spec => []NoRewritingThePast`. The
  property is not inductive: that a type can be recomputed at a message without
  touching what lies before it depends on the fields the type is computed from.
  `ClientOk` and `ServerOk` say which values these have before and after the type
  is computed (a client that has none is at the version it offers, one that has one
  at the version agreed on), `ClientEntered` and `ServerEntered` where a computed type can be
  met, `Waiting` what a paused handler or an unflushed record tells of the message
  in force. A client adjusts its type to what arrives, so the invariant also says
  what is on its way: `Says` which versions and session ids the hellos carry,
  `RequestsInTime` that no CertificateRequest comes behind the message (`Late`) from
  which a client could no longer make room for it. The proof has three layers.
  Lemmas on the tables say how long two rows agree (`RetypeAtHello`,
  `RetypeAtClientCert`, `RetypeAtStatus`, `RetypeAtRequest`). Lemmas on the handlers say
  what each does to the fields the type depends on (`Writes`, `Reads`, `Finishes`);
  fields it does not depend on are left open (`Same`). One lemma per action puts the
  two endpoints together (`WriteStep`, `FlushStep`, `HandledStep`, ...).
* **ConnectionIOProofs** (`IOAssumption`: any stream lengths, payload sizes, record
  limit, tickets, capacity).
  `TypeCorrect`: `Spec => []TypeOK`, whose content is that
  `current_user_data_consumed -= user_data_sent` of a blocked send never goes
  below zero. `Accounting`: `Spec => []NothingSkippedOrRepeated`, with one thread
  or two. `ReportedOnceOnTheWire`: `~Duplex => (Spec => []ReportedIsOnTheWire)`.
  `IInv` adds to types and accounting which thread may be where (`ThreadRoles`)
  and how the locals of `s2n_send` are ordered at each point of it
  (`SendLocals`); without it a step from an unreachable state could write a
  record of negative length. `WireInv` adds that one call is active, where
  `conn->out` is empty, and that what is written and not flushed lies in it.
  `StreamDelivered`: `~Duplex => (Spec =>
  []StreamIntact)`; `KeysMeet`: `~Duplex => (Spec => []KeysInSync)`;
  `RecordsPerKey`, with two threads as well: no key seals more than the limit, the
  tickets and one alert. The records of `conn->in`, the channel and `conn->out`
  form one queue; every step leaves it (`Kept`), appends to it (`Wrote`) or takes
  from its head (`Took`). A send that fails on a tainted ticket stuffer (notes) leaves
  it too. That the queue is contiguous in bytes and in key and
  sequence number is kept by each of the three, whatever the action. Two more
  invariants say what may follow a close (`Closing`) and how many records a key
  still has (`Sealing`).
* **AsyncHandshakeProofs**. `MessagesInOrder`: `Spec` implements `MessageOrder`,
  for every record size and number of wipes, if the peer puts nothing behind the
  message that waits (`~CoalesceAfterAsync`). `NothingIsLost`: no message is taken
  for another, and a freed operation holds no memory. `Flow`: the units in flight
  continue one another. `Waiting`: the handshake waits at the one message that
  needs the key. `Operations`: of this handshake's operations at most one is not
  applied. `Logged` ties the history to the abstract one.
* **ReceiveProofs**. `PeerUnderstood`: `~CoalesceAlerts => (Spec =>
  []StreamUnderstood)`, for any number of records. What the property says of the
  data delivered and the keys in use does not carry over a step by itself: it has
  to be said of the records on their way as well. They are steps of a path whose
  points are, before and after each record, the number of data units, whether half
  an alert is pending (`Flow`) and the key generation (`ReadKeys`); the path leads
  from what the connection has to what the peer has sent. `WriteKeys` is the same
  for what the connection seals, `Errors` what an error tells of the state it was
  met in, `Refusals` that a message is refused, or on its way to be, only if the peer
  cut one in two or renegotiated. Reading takes the first step of a path off and the peer appends one.
  `CountPath` turns a path of keys into the number of KeyUpdates that the
  property counts.
* **TicketKeysProofs** (`TicketKeysAssumption`: any lifetimes and times, any limit on
  the number of keys). `KeysStayInOrder`: the keys of a config stay sorted by
  introduction time and distinct in name and content. `SessionsAreHonoured`: a
  TLS 1.2 session offered before its key expires is resumed. `PromisesCanBeKept`:
  a ticket promised in a handshake can be encrypted as long as the clock stands
  still. `TicketKeysTyped`: types, and never too many keys. The invariant adds to
  these that every ticket's key is known as long as it is valid (`TicketsKnown`)
  and that a promise is backed by a key that encrypts (`PromisesMade`). The search
  of `s2n_set_add` and the loop that wipes expired keys are recursive functions:
  a solution of the recursive equation is shown to exist, and what every solution
  returns by looking at the least argument for which it would not
  (`LeastNatural`). The comparator of ticket keys never answers "equal", so that
  the search always ends at the place of insertion.
* **ForkDetectionProofs**. `ForkAlwaysNoticed`: for any processes and threads,
  whichever mechanism the system has, whoever asks after a fork gets another number
  than the parent had.
* **StufferProofs** (`StufferConstants`: any growth step, page size, largest length).
  `StufferImplementsQueue`: `StufferSpec => StufferIsQueue`. `SecretsAreWiped` and
  `CursorsStayInOrder` for the two properties of those names. That the cursors are
  in order is not enough: a wipe reaches only the high water mark, and zeroing
  before memory is given back only what the blob says is allocated. `Sound` adds
  that the bytes above the mark are harmless and that the allocator's blobs know
  all of their memory. Each operation takes a sound stuffer to a sound one and
  keeps, appends, moves, erases, drops or patches (relations on memory and
  cursors); six lemmas turn these into the actions of `ByteQueue`. A failed call
  may leave a larger blob: it keeps the queue, not the stuffer.
* **EndpointProofs** (`LifeAssumption`: the delays are numbers; `CertAssumption`: no
  handle is NULL).
  `MemoryHasOneOwner`: the I/O contexts are those the connection manages, and a
  freed connection owns nothing. `DelayAlwaysEnforced`: `s2n_shutdown` does not
  succeed before the shortest delay has passed since the last kill that succeeded,
  whatever is called in between, a wipe that fails or a kill that gets no random
  number or no clock included. A kill that fails enforces nothing itself (notes). `PeerAlwaysChecked`: the validator and the host
  callback are those that the config and the connection's own settings call for.
  `WipedIsNew`: a wiped connection is a new one that was given the same config.
  `SocketsAlwaysRestored`: after the handshake or a wipe every socket is corked
  exactly if the application had corked it. `Base` says who owns the contexts and the memory (`Holdings`) and that the
  config is one the connection accepts (`Settled`): `s2n_connection_zero` does not
  look whether setting it again succeeds, so that a wiped connection would
  otherwise have none. On top of it stand `Timers`, `PeerInv`, `WipeInv` (a
  wiped connection is `Blank(mode, config)`, and the order in which it becomes
  blank and gets the config makes no difference) and `SocketInv`: the sockets
  differ from what the application left in the one that is written to at most,
  only while corked I/O is in the middle of a handshake, and the send context
  still remembers how it was. A wipe that fails has either not come to the sockets
  or restored them. `EverythingIsGivenBack`, `MCSpec => []NothingLeaked`, adds to
  contexts, memory and sockets the chains of a config. `ChainInv`: a chain that
  is there has an owner and has not been freed; a config that made its own chain
  (`s2n_config_add_cert_chain_and_key`) has it as a default, which is where
  `s2n_config_free_cert_chain_and_key` looks for it, because that config was
  empty and had no explicit defaults before.

Hypotheses, each with a reason in the code:

* `SessionAssumption`: a client that requires its own authentication was given no
  TLS 1.2 session. No server gives it one; with one of a connection that was
  configured otherwise the theorem fails (notes).
* `~Duplex`, one call at a time: with a sending and a receiving thread the
  properties fail (first note below). `Accounting` and `RecordsPerKey` do without.
* `~CoalesceAfterAsync`: such a message is thrown away (notes).
* `~CoalesceAlerts`, the peer puts at most one alert in a record:
  `s2n_process_alert_fragment` drops a second one (notes).
* `~LateAuth`: the client auth type is set before the config. Set after, the
  validator stays as the config made it (notes).
* configs whose `psk_mode` is `RESUMPTION`, in `WipedIsNew`: an external one is
  lost by a wipe (notes).

Only model-checked:

* liveness, which the prover cannot do;
* the handshake's `KeysInStep`, `Agreement`, `EarlyDataAllOrNothing` and
  `NonceNeverRepeats`: what is true of a pair of states
  half-way through two rows of the tables is a case for every message of every
  row, and TLC visits every combination of the configs of its runs;
* `SelectionRight`, `FeaturesRight`, `PskRight`, `SecretsRight`, `RecordsRight`,
  `DigestsRight`, `LibraryRight` (but for the stuffers), `ServedNameIsAccepted` and
  `PeerVerified`: pure computations against a reference definition. Written
  with recursive functions and folds, each would need an induction by least
  counterexample as in TicketKeysProofs, and the tables as hypotheses.

## Where the code surprises

`psk_retry` is a run of its own: after a HelloRetryRequest the client offers only
the PSKs that fit the chosen hash (`s2n_client_psk_send`), and looks the server's
index up in the full list (`extensions/s2n_server_psk.c:81`).

The models have the following behaviours too. Where they would hide everything
else, a constant or the choice of configs keeps them out of a run:

* *Two threads.* `s2n_recv` calls `s2n_flush` (`s2n_recv.c:165`), which races with
  that of a sending thread, though `docs/DEVELOPMENT-GUIDE.md:395` allows one
  thread for each direction. With `Duplex = TRUE` TLC finds data lost and
  `EverythingArrives` violated.
* `s2n_send` flushes a queued close_notify, closes, and writes data after it
  (`s2n_send.c:99`, against `docs/DEVELOPMENT-GUIDE.md:409`).
* A TLS 1.3 client offers a TLS 1.2 ticket without a session id and does not
  recognise the resumption (`s2n_client_hello.c:75`, `s2n_server_hello.c:166`); a
  client that requires client authentication and resumes gets a handshake type
  without a row (`s2n_handshake_io.c:827`, `s2n_handshake.c:343`). `tls12` leaves
  these configs out.
* A TLS 1.3 ticket whose key only decrypts is refused if another key encrypts
  (`s2n_resume.c:836`, against `api/s2n.h:1074`); the hashes of ticket keys outgrow
  `S2N_MAX_TICKET_KEY_HASHES` (`s2n_config.c:817`).
* `s2n_shutdown` may succeed without the peer's close_notify (against
  `api/s2n.h:1891`).
* A post-handshake message that spans two records, which TLS allows, is refused and
  kills the connection (`s2n_post_handshake.c:31`), and so does a renegotiation
  (`s2n_post_handshake.c:54`).
* A TLS 1.3 ticket whose flush blocks leaves the handshake stuffer tainted
  (`s2n_server_new_session_ticket.c:167` and `:172`): the retry, and every later
  `s2n_send`, fails with `S2N_ERR_RESIZE_TAINTED_STUFFER` (`stuffer/s2n_stuffer.c:120`).
  `io` has this and shows that nothing is lost or repeated; `io_live`, in which every
  send must get through, has no tickets.
* In TLS 1.3 a record whose header says alert is read in the clear after the
  handshake too (`s2n_record_read.c:110`), and the type in a header is not
  authenticated: a record of another type made an alert is parsed as one, and made a
  handshake record keeps its padding and inner type. SSLv3 padding is not checked
  (`s2n_cbc.c:83`); the run has no SSLv3.
* `s2n_connection_kill` returns early if there is no random number or no clock
  (`s2n_connection.c:1210` and `:1215`): the connection is closed, but no delay is
  enforced, or a new one with the timer of an earlier error, or of the connection's
  start.
* A second alert in the record of an ignored warning is dropped
  (`s2n_alerts.c:197`; `CoalesceAlerts`), and so is a message behind one whose
  handler was retried (`s2n_handshake_io.c:1327`; `CoalesceAfterAsync`).
* A client auth type set after the config does not change the validator
  (`s2n_connection.c:828` and `:380`, against `api/s2n.h:1947`; `LateAuth`). A wipe
  forgets an external `psk_mode` of the config (`s2n_connection.c:505`). A config
  refused late leaves the validator as that config made it (`s2n_connection.c:420`):
  such a connection is not used but to be wiped or freed (`Usable`).
* The page that a fork clears is one for all threads of a process
  (`utils/s2n_random.c:143`): if a thread started in the child draws first, the
  thread that forked goes on with the generators it inherited. `Random` states
  what holds until a child starts threads (`drawn.joined`).
* Early data and ALPN together are never accepted (`s2n_early_data.c:95`); the
  server's limit is that of the first PSK (`s2n_early_data.c:361`); rejected early
  data is counted with its overhead (`s2n_handshake_io.c:1187`).
* Certificates {RSA_PSS, ECDSA} at TLS 1.2 are left out of `SelectionRight`. The
  chart of `docs/USAGE-GUIDE.md:587` does not match policy "20200207".
* A chain with IP names only is served by its common name, which the client then
  refuses; of several common names the server enters all and the
  client checks the last; an exact match of another key type hides a wildcard.
* With validation skipped a stapled response sets `OCSP_VALIDATED`, after which
  `s2n_connection_get_peer_cert_chain` reads a store context that is NULL.
  `s2n_cert_chain_and_key_new` frees uninitialised blobs when its first
  allocation fails; `s2n_config_add_dhparams` leaves a dangling pointer;
  `s2n_connection_new` leaks on failure; mixing the two interfaces for adding
  chains leaks or frees the application's.
* `s2n_connection_set_server_name` keeps the tail of a longer name; freeing does
  not give the sockets' cork back; the delay is measured with the clock of the
  current config; `s2n_negotiate` on a killed connection draws a new delay.
* `s2n_prf_wipe` leaves the PRF's workspace: outside FIPS mode a wiped connection
  still has an HMAC keyed with the last secret (`s2n_prf.c:322` and `:438`, against
  `docs/USAGE-GUIDE.md:1751`). A low-level hash state has no implementation between
  `s2n_hash_new`, which zeroes it (`s2n_hash.c:140`), and `s2n_hash_init`: to update, copy
  or digest it dereferences NULL, and no caller of the model does. The hybrid PRF ignores the extended
  master secret; after `S2N_ERR_RECORD_LIMIT` the sequence number has wrapped and
  part of a record stays in `conn->out`, where the model of records stops.
* ASN.1 offsets of more than 23 minutes are refused; `s2n_stuffer_alloc_ro_from_fd`
  always fails; `s2n_stuffer_skip_expected_char` moves the cursor when it fails;
  an IPv6 address that ends with its run of zeros is written with one colon.

## Not modelled

* Common names longer than the buffer they are converted into.
* SSLv2 framing after the choice of parameters; alerts inside the handshake (an
  end that fails is seen as gone); `s2n_peek`; corking in ConnectionIO (it is in
  ConnectionLife).
* A record of which the socket takes a part: `s2n_flush` resumes it from the
  stuffer; the model lets it go whole.
* Ticket keys: changes of the lifetimes while keys exist, a session lifetime
  shorter than that of the keys, a clock that fails or goes back, overflow of
  times in 64 bits, rounding in the weighted draw, threads that share a config.
* A server that uses tickets and has no key to encrypt one with, in Negotiate and
  Extensions (`s2n_handshake_io.c:843`); TicketKeys has it. `PromiseCanBeKept` speaks
  of one reading of the clock: a key that expires in the round trip between promise and ticket
  fails the handshake.
* `s2n_stuffer_writev_bytes` with buffers that are NULL or of 4 GiB and more, refused
  after the cursor has moved (`stuffer/s2n_stuffer.c:345`).
* Servers that answer `status_request` and then send no status: an s2n server always
  does. The client's branch for them is in Negotiate and its proof, but no run meets it.
* TLS 1.0 and 1.1 in Negotiate, whose rows are those of TLS 1.2 (they are in
  Selection, Secrets and Records).
* Initialisation (`s2n_init` calls the other parts once, in a fixed order),
  getters, and setters that only store a value.
* The computations of libcrypto: ciphers, hashes, signatures and path building are
  constructors of terms or choices. `pq-crypto/`, bindings, command line tools,
  tests.

## Plan

Done: the modules above and their runs; the theorems above. Left, in this order:

1. `NonceNeverRepeats` and `KeysInStep` of Negotiate, on top of NegotiateProofs.
2. `Containers`: the sorted set with the argument that TicketKeysProofs uses.
