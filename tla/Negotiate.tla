----------------------------- MODULE Negotiate -----------------------------
(***************************************************************************)
(* s2n_negotiate (tls/s2n_handshake_io.c) run by a client and a server     *)
(* against each other, over two reliable byte streams.                     *)
(*                                                                         *)
(* A step is one trip around the loop of s2n_negotiate_impl, cut where the *)
(* call may return to the application: a message is prepared and put in    *)
(* conn->out; it is flushed (a full socket returns between the two); a     *)
(* record is read; an asynchronous handler is retried; the application     *)
(* answers.  One handshake message travels in one record.                  *)
(***************************************************************************)
EXTENDS Handlers

CONSTANTS
    Configs,        \* the pairs of configurations to negotiate: [C : Config, S : Config]
    MaxEarlyData,   \* records of early data the client sends at most
    MaxMessages     \* bound on message_number (the tables have 32 entries)

ASSUME NegotiateAssumption ==
    /\ Configs \subseteq [Mode -> Config]
    /\ MaxEarlyData \in Nat /\ MaxMessages \in Nat

\* A client that requires its own authentication has no TLS 1.2 session to
\* resume: a server that authenticates clients keeps none
\* (s2n_allowed_to_cache_connection, s2n_client_session_ticket_recv), and such a
\* client refuses one that does not.  Given the session of a connection that was
\* configured otherwise, it would compute NEGOTIATED | CLIENT_AUTH, for which
\* handshakes[] has no entry.
ASSUME SessionAssumption ==
    \A k \in Configs : k["C"].session \in {"TICKET", "CACHE"} => k["C"].auth # "REQUIRED"

VARIABLES
    cfg,        \* the two configurations
    conn,       \* the two connections
    out,        \* conn->out: records not yet flushed
    chan,       \* chan[e]: records on their way to e
    early,      \* records of early data: sent by the client, delivered to the
                \* server's application
    passed      \* passed[e]: the messages e has gone past, a history

vars == <<cfg, conn, out, chan, early, passed>>

----------------------------------------------------------------------------
(***************************************************************************)
(* The record layer.  A record is protected by the key in force; the       *)
(* content type of TLS 1.3 is hidden in the protected part.  QUIC brings   *)
(* its own protection and no records.                                      *)
(***************************************************************************)
PlaintextContent(c, type) == c.version = S2N_TLS13 /\ type = "TLS_CHANGE_CIPHER_SPEC"

NextSeq(key) == IF key.epoch = "NONE" THEN key ELSE [key EXCEPT !.seq = @ + 1]

s2n_record_write(config, c, type, message, body) ==
    LET plain == PlaintextContent(c, type) \/ config.quic
        key == IF plain THEN NoKey ELSE c.w
    IN  [record |-> [type |-> type, message |-> message, body |-> body, key |-> key,
                     outer |-> IF c.version = S2N_TLS13 /\ key.epoch # "NONE"
                               THEN "TLS_APPLICATION_DATA" ELSE type],
         c |-> IF plain THEN c ELSE [c EXCEPT !.w = NextSeq(@)]]

\* Mutant: the sequence number of the reader stands still.
RecordParse_SeqStands(config, c, record) ==
    IF PlaintextContent(c, record.outer) \/ config.quic \/ record.key = c.r THEN Ok(c) ELSE Fail(c)

\* The null cipher is never used for application data.
s2n_record_parse(config, c, record) ==
    LET plain == PlaintextContent(c, record.outer) \/ config.quic
    IN  IF plain THEN Ok(c)
        ELSE IF record.key = c.r /\ (c.r.epoch = "NONE" => record.outer # "TLS_APPLICATION_DATA")
        THEN Ok([c EXCEPT !.r = NextSeq(@)])
        ELSE Fail(c)

----------------------------------------------------------------------------
(***************************************************************************)
(* The end of a message: secrets, keys, next message and, when that is the *)
(* end of the handshake, the clean-up of the secrets.                      *)
(***************************************************************************)
s2n_tls13_secrets_clean(c) ==
    IF ACTIVE_MESSAGE(c) = "APPLICATION_DATA" /\ c.version >= S2N_TLS13
    THEN [c EXCEPT !.extract_secret = "NONE"] ELSE c

FinishMessage(e, c) ==
    LET secrets(d) == Ok(s2n_tls13_secrets_update(d))
        keys(d)    == s2n_tls13_key_schedule_update(e, d)
        advance(d) == Ok(s2n_advance_message(e, d))
        clean(d)   == Ok(s2n_tls13_secrets_clean(d))
    IN  Then(Then(Then(Then(Ok(c), secrets), keys), advance), clean)

\* The messages between two values of message_number, read off the order in
\* force when they are passed.
PassedBy(c, d) ==
    [i \in 1 .. d.message_number - c.message_number |->
        ActiveMessage(d.version, d.handshake_type, c.message_number + i - 1)]

\* The connection moves from conn[e] to the state a call left it in.
Become(e, res) ==
    /\ conn' = [conn EXCEPT ![e] =
                   IF res.r = "OK" THEN res.c
                   ELSE IF res.r = "ASYNC_BLOCKED" THEN [res.c EXCEPT !.paused = TRUE]
                   ELSE [res.c EXCEPT !.status = "ERROR"]]
    /\ passed' = [passed EXCEPT ![e] =
                     @ \o IF res.r = "OK" THEN PassedBy(conn[e], res.c) ELSE << >>]

Negotiating(e) ==
    /\ conn[e].status = "NEGOTIATING"
    /\ ACTIVE_MESSAGE(conn[e]) # "APPLICATION_DATA"

----------------------------------------------------------------------------
(***************************************************************************)
(* s2n_handshake_write_io, up to the record in conn->out.                  *)
(***************************************************************************)
Hashed(c, m) ==
    IF RecordType(m) = "TLS_HANDSHAKE"
    THEN [c EXCEPT !.transcript = Append(@, WireType(m))] ELSE c

\* The record of the message that the handler left in handshake.io.
Seal(e, c, m) ==
    s2n_record_write(cfg[e], c, RecordType(m), WireType(m), MessageBody(cfg[e], c, m))

WriteResult(e, res, m) ==
    \/ /\ res.r = "OK"
       /\ \E sealed \in {Seal(e, res.c, m)} :
             /\ Become(e, Ok([Hashed(sealed.c, m) EXCEPT !.io = "MESSAGE", !.paused = FALSE]))
             /\ out' = [out EXCEPT ![e] = <<sealed.record>>]
    \/ /\ res.r # "OK"
       /\ Become(e, [r |-> res.r, c |-> [res.c EXCEPT !.io = "MESSAGE"]])
       /\ UNCHANGED out

WriteMessage(e) ==
    /\ Negotiating(e)
    /\ ~conn[e].paused
    /\ conn[e].io = "WIPED"
    /\ CONNECTION_IS_WRITER(e, conn[e])
    /\ conn[e].message_number < MaxMessages
    /\ \E m \in {ACTIVE_MESSAGE(conn[e])} :
       \E res \in {WriteHandler(e, cfg[e], conn[e], m)} :
          /\ res.r # "EARLY_DATA_BLOCKED"       \* returns; handshake.io wiped again
          /\ WriteResult(e, res, m)
    /\ UNCHANGED <<cfg, chan, early>>

\* s2n_flush succeeds and the rest of s2n_handshake_write_io runs.
FlushMessage(e) ==
    /\ Negotiating(e)
    /\ out[e] # << >>
    /\ chan' = [chan EXCEPT ![S2N_PEER_MODE(e)] = @ \o out[e]]
    /\ out' = [out EXCEPT ![e] = << >>]
    /\ \E res \in {FinishMessage(e, [conn[e] EXCEPT !.io = "WIPED"])} : Become(e, res)
    /\ UNCHANGED <<cfg, early>>

----------------------------------------------------------------------------
(***************************************************************************)
(* s2n_handshake_read_io.                                                  *)
(***************************************************************************)
Reading(e) ==
    /\ Negotiating(e)
    /\ ~conn[e].paused
    /\ ~CONNECTION_IS_WRITER(e, conn[e])
    /\ chan[e] # << >>

ReceivedConn(e) == s2n_record_parse(cfg[e], conn[e], Head(chan[e])).c
Decrypts(e)     == s2n_record_parse(cfg[e], conn[e], Head(chan[e])).r = "OK"
Trial(e)        == s2n_early_data_is_trial_decryption_allowed(e, conn[e], Head(chan[e]).outer)

Consume(e) == chan' = [chan EXCEPT ![e] = Tail(@)]

\* Mutant: a message that was read is not hashed.
FinishRead_NotHashed(e, c, m) == FinishMessage(e, c)

\* s2n_finish_read
s2n_finish_read(e, c, m) == FinishMessage(e, Hashed(c, m))

\* Mutant: stapling is dropped by what follows the certificate status too.
AdjustType_DropsOcsp(e, c, message) ==
    Ok(IF e = "C" /\ message \in {"SERVER_KEY", "SERVER_HELLO_DONE"}
       THEN [c EXCEPT !.handshake_type = @ \ {"OCSP_STATUS"}] ELSE c)

\* A certificate request or the absence of a certificate status change the
\* order in force before the message is compared with it.
AdjustType(e, c, message) ==
    LET requested == e = "C" /\ cfg[e].auth = "OPTIONAL" /\ message = "SERVER_CERT_REQ"
        unstapled(d) == /\ e = "C"
                        /\ ACTIVE_MESSAGE(d) = "SERVER_CERT_STATUS"
                        /\ message # "SERVER_CERT_STATUS"
        unset(d) == Ok(IF unstapled(d)
                       THEN [d EXCEPT !.handshake_type = @ \ {"OCSP_STATUS"}] ELSE d)
    IN  Then(IF ~requested THEN Ok(c)
             ELSE IF IS_FULL_HANDSHAKE(c) THEN Ok(SetFlag(c, "CLIENT_AUTH")) ELSE Fail(c),
             unset)

HandshakeResult(e, c0, record) ==
    LET expected(c) == Ensure(/\ RecordType(ACTIVE_MESSAGE(c)) = "TLS_HANDSHAKE"
                              /\ WireType(ACTIVE_MESSAGE(c)) = record.message
                              /\ ~CONNECTION_IS_WRITER(e, c), c)
        handler(c) == ReadHandler(cfg[e], c, ACTIVE_MESSAGE(c), record.body)
        finish(c) == s2n_finish_read(e, c, ACTIVE_MESSAGE(c))
    IN  Then(Then(Then(AdjustType(e, c0, record.message), expected), handler), finish)

\* The record stays in conn->in while its handler is blocked.
ReadHandshake(e) ==
    /\ Reading(e)
    /\ Decrypts(e)
    /\ Head(chan[e]).type = "TLS_HANDSHAKE"
    /\ \E res \in {HandshakeResult(e, ReceivedConn(e), Head(chan[e]))} :
          /\ Become(e, res)
          /\ IF res.r = "ASYNC_BLOCKED" THEN UNCHANGED chan ELSE Consume(e)
    /\ UNCHANGED <<cfg, out, early>>

CcsExpected(e, c) ==
    RecordType(ACTIVE_MESSAGE(c)) = "TLS_CHANGE_CIPHER_SPEC" /\ ~CONNECTION_IS_WRITER(e, c)

\* A TLS 1.3 connection takes a ChangeCipherSpec at any point, but not in QUIC.
ReadChangeCipherSpec(e) ==
    LET c == ReceivedConn(e)
    IN  /\ Reading(e)
        /\ Decrypts(e)
        /\ Head(chan[e]).type = "TLS_CHANGE_CIPHER_SPEC"
        /\ Become(e, IF c.version # S2N_TLS13 \/ cfg[e].quic
                     THEN IF CcsExpected(e, c)
                          THEN Ok(s2n_advance_message(e, s2n_ccs_recv(c))) ELSE Fail(c)
                     ELSE Ok(IF CcsExpected(e, c) THEN s2n_advance_message(e, c) ELSE c))
        /\ Consume(e)
        /\ UNCHANGED <<cfg, out, early>>

\* S2N_ERR_EARLY_DATA_BLOCKED: the application takes the early data.
ReadEarlyData(e) ==
    LET c == ReceivedConn(e)
    IN  /\ Reading(e)
        /\ Decrypts(e)
        /\ Head(chan[e]).type = "TLS_APPLICATION_DATA"
        /\ Consume(e)
        /\ IF c.early_data_expected /\ s2n_early_data_validate_recv(e, c)
           THEN /\ Become(e, Ok(c))
                /\ early' = [early EXCEPT ![e] = @ + 1]
           ELSE /\ Become(e, Fail(c))
                /\ UNCHANGED early
        /\ UNCHANGED <<cfg, out>>

\* A record the keys do not open: skipped during trial decryption, fatal otherwise.
ReadUndecryptable(e) ==
    /\ Reading(e)
    /\ ~Decrypts(e)
    /\ Consume(e)
    /\ Become(e, IF Trial(e) THEN Ok(conn[e]) ELSE Fail(conn[e]))
    /\ UNCHANGED <<cfg, out, early>>

\* The peer is gone.
ReadClosed(e) ==
    /\ Negotiating(e)
    /\ ~conn[e].paused
    /\ ~CONNECTION_IS_WRITER(e, conn[e])
    /\ chan[e] = << >>
    /\ conn[S2N_PEER_MODE(e)].status = "ERROR"
    /\ Become(e, Fail(conn[e]))
    /\ UNCHANGED <<cfg, out, chan, early>>

----------------------------------------------------------------------------
(***************************************************************************)
(* s2n_handle_retry_state: a paused handler runs again.  A reader's record *)
(* was parsed before, so only the handler and s2n_finish_read run.         *)
(***************************************************************************)
RetryWrite(e) ==
    /\ Negotiating(e)
    /\ conn[e].paused
    /\ CONNECTION_IS_WRITER(e, conn[e])
    /\ \E m \in {ACTIVE_MESSAGE(conn[e])} :
       \E res \in {WriteHandler(e, cfg[e], conn[e], m)} :
          /\ res.r # "ASYNC_BLOCKED"
          /\ WriteResult(e, res, m)
    /\ UNCHANGED <<cfg, chan, early>>

RetryRead(e) ==
    LET resumed(c) == s2n_finish_read(e, [c EXCEPT !.paused = FALSE], ACTIVE_MESSAGE(c))
    IN  /\ Negotiating(e)
        /\ conn[e].paused
        /\ ~CONNECTION_IS_WRITER(e, conn[e])
        /\ \E res \in {ReadHandler(cfg[e], conn[e], ACTIVE_MESSAGE(conn[e]), Head(chan[e]).body)} :
              /\ res # Block(conn[e])
              /\ \E final \in {Then(res, resumed)} : Become(e, final)
              /\ IF res.r = "ASYNC_BLOCKED" THEN UNCHANGED chan ELSE Consume(e)
        /\ UNCHANGED <<cfg, out, early>>

----------------------------------------------------------------------------
(***************************************************************************)
(* The applications: answers to what is pending (s2n_async_pkey_op_apply,  *)
(* s2n_client_hello_cb_done, s2n_offered_early_data_accept and _reject,    *)
(* the cache), and the client's early data.                                *)
(***************************************************************************)
Answer(e) ==
    /\ conn[e].paused
    /\ conn[e].status = "NEGOTIATING"
    /\ \/ /\ conn[e].async_state = "INVOKED"
          /\ conn' = [conn EXCEPT ![e].async_state = "COMPLETE"]
       \/ /\ conn[e].client_hello_cb = "INVOKED"
          /\ conn' = [conn EXCEPT ![e].client_hello_cb = "COMPLETE"]
       \/ /\ conn[e].cache_retrieve = "INVOKED"
          /\ conn' = [conn EXCEPT ![e].cache_retrieve = "COMPLETE"]
       \/ /\ conn[e].early_data_cb = "INVOKED"
          /\ conn' = [conn EXCEPT ![e] =
                [s2n_connection_set_early_data_state(@, cfg[e].earlyCb).c
                    EXCEPT !.early_data_cb = "COMPLETE"]]
    /\ UNCHANGED <<cfg, out, chan, early, passed>>

\* s2n_send_early_data sends once s2n_negotiate is blocked on reading or on
\* early data.
SendEarlyData(e) ==
    LET c == conn[e]
        sealed == s2n_record_write(cfg[e], c, "TLS_APPLICATION_DATA", "0", << >>)
    IN  /\ e = "C"
        /\ ~cfg[e].quic
        /\ Negotiating(e)
        /\ c.message_number > 0
        /\ \/ ~CONNECTION_IS_WRITER(e, c)
           \/ ACTIVE_MESSAGE(c) = "END_OF_EARLY_DATA"
        /\ early[e] < MaxEarlyData
        /\ c.early_data_expected
        /\ s2n_early_data_validate_send(e, c)
        /\ early' = [early EXCEPT ![e] = @ + 1]
        /\ conn' = [conn EXCEPT ![e] = sealed.c]
        /\ chan' = [chan EXCEPT ![S2N_PEER_MODE(e)] = Append(@, sealed.record)]
        /\ UNCHANGED <<cfg, out, passed>>

s2n_connection_set_end_of_early_data(e) ==
    /\ e = "C"
    /\ conn[e].early_data_expected
    /\ conn[e].message_number > 0
    /\ conn' = [conn EXCEPT ![e].early_data_expected = FALSE]
    /\ UNCHANGED <<cfg, out, chan, early, passed>>

----------------------------------------------------------------------------
Init ==
    /\ cfg \in Configs
    /\ conn = [e \in Mode |-> NewConnection(e, cfg[e])]
    /\ out = [e \in Mode |-> << >>]
    /\ chan = [e \in Mode |-> << >>]
    /\ early = [e \in Mode |-> 0]
    /\ passed = [e \in Mode |-> << >>]

Write(e) == WriteMessage(e) \/ FlushMessage(e)

Read(e) == \/ ReadHandshake(e) \/ ReadChangeCipherSpec(e) \/ ReadEarlyData(e)
           \/ ReadUndecryptable(e) \/ ReadClosed(e)

Retry(e) == RetryWrite(e) \/ RetryRead(e)

\* The application keeps calling s2n_negotiate until it is done or fails, and
\* answers what it was asked.
System(e) == Write(e) \/ Read(e) \/ Retry(e) \/ Answer(e)

Done == \A e \in Mode : ~Negotiating(e)

Next ==
    \/ \E e \in Mode : \/ System(e)
                       \/ SendEarlyData(e)
                       \/ s2n_connection_set_end_of_early_data(e)
    \/ Done /\ UNCHANGED vars

Fairness == \A e \in Mode : WF_vars(System(e)) /\ WF_vars(s2n_connection_set_end_of_early_data(e))

Spec == Init /\ [][Next]_vars /\ Fairness

----------------------------------------------------------------------------
(***************************************************************************)
(* Properties.                                                             *)
(***************************************************************************)
Completed(e) == conn[e].status = "NEGOTIATING" /\ ACTIVE_MESSAGE(conn[e]) = "APPLICATION_DATA"

Key == [epoch: Epoch, seq: Nat]

\* The type invariant: every field of a connection stays in its C type.
TypeOK ==
    /\ cfg \in Configs
    /\ \A e \in Mode :
         /\ conn[e].version \in Version \cup {S2N_UNKNOWN_PROTOCOL_VERSION}
         /\ conn[e].handshake_type \subseteq Flag
         /\ conn[e].message_number \in 0 .. MaxMessages + 1
         /\ conn[e].early_data_state \in EarlyDataState
         /\ {conn[e].client_hello_cb, conn[e].early_data_cb, conn[e].cache_retrieve,
             conn[e].async_state} \subseteq AsyncState
         /\ conn[e].session_id \in SessionId
         /\ conn[e].extract_secret \in Epoch
         /\ conn[e].r \in Key /\ conn[e].w \in Key
         /\ conn[e].status \in {"NEGOTIATING", "ERROR"}
         /\ Len(out[e]) <= 1
         /\ early[e] \in 0 .. MaxEarlyData

(***************************************************************************)
(* The handshake type is computed, recomputed after a retry and adjusted   *)
(* by messages that arrive, while message_number keeps counting.  Every    *)
(* type a connection computes has an entry in its table, and none of the   *)
(* recomputations replaces a message the connection has already gone past  *)
(* ("we can't rewrite the past", s2n_conn_set_tls13_handshake_type).       *)
(***************************************************************************)
NoRewritingThePast ==
    \A e \in Mode :
        LET c == conn[e]
        IN  /\ Defined(c.version, c.handshake_type)
            /\ c.message_number <= Len(Order(c.version, c.handshake_type))
            /\ passed[e] = SubSeq(Order(c.version, c.handshake_type), 1, c.message_number)

(***************************************************************************)
(* The two key schedules move in step: a reader never meets a record that  *)
(* its keys do not open, except early data it rejected, and trial          *)
(* decryption (s2n_read_full_record) never skips anything else.  Before    *)
(* TLS 1.3 the keys are put in force (conn->client, conn->server =         *)
(* &conn->secure) and derived (s2n_prf_key_expansion) by different         *)
(* handlers; no record is sealed or opened with keys not yet derived.      *)
(***************************************************************************)
KeysInStep ==
    \A e \in Mode :
        /\ Reading(e) /\ ~Decrypts(e) =>
              Trial(e) /\ Head(chan[e]).type = "TLS_APPLICATION_DATA"
        /\ "SECURE" \in {conn[e].r.epoch, conn[e].w.epoch} => conn[e].derived

\* Before TLS 1.3 a client has nothing but the echo of its session id to tell
\* a resumption from a full handshake ("This allows the client to easily
\* differentiate when the server is resuming a session from when it is
\* falling back to a full handshake", s2n_server_hello.c).  Once both have
\* decided, they have decided the same.
ResumptionRecognised ==
    (\A e \in Mode : conn[e].version = S2N_TLS12 /\ "NEGOTIATED" \in conn[e].handshake_type)
        => (IS_RESUMPTION_HANDSHAKE(conn["C"]) <=> IS_RESUMPTION_HANDSHAKE(conn["S"]))

(***************************************************************************)
(* When an endpoint accepts the other's last message, the other has gone   *)
(* through the same handshake: same version, same type, same messages, and *)
(* the keys of each direction agree.  Whether it is a resumption they      *)
(* agree on as soon as both have decided.                                  *)
(***************************************************************************)
Agreement ==
    /\ Completed("C") /\ Completed("S") =>
        /\ conn["C"].version = conn["S"].version
        /\ conn["C"].handshake_type = conn["S"].handshake_type
        /\ conn["C"].transcript = conn["S"].transcript
        /\ passed["C"] = passed["S"]
        /\ conn["C"].w = conn["S"].r
        /\ conn["S"].w = conn["C"].r
    /\ ResumptionRecognised

(***************************************************************************)
(* Early data arrives completely or not at all: a completed handshake that *)
(* accepted it delivered every record the client sent before its           *)
(* EndOfEarlyData, one that did not delivered none; and early data only    *)
(* ever travels under the early keys.                                      *)
(***************************************************************************)
EarlyDataAllOrNothing ==
    /\ Completed("C") /\ Completed("S") =>
          early["S"] = IF conn["S"].early_data_state = "END" THEN early["C"] ELSE 0
    /\ \A i \in 1 .. Len(chan["S"]) :
          chan["S"][i].type = "TLS_APPLICATION_DATA" => chan["S"][i].key.epoch = "EARLY"

(***************************************************************************)
(* A key is put in force once: the epoch of the writing key only goes up,  *)
(* except that rejected early data returns it to the initial one           *)
(* (s2n_tls13_key_schedule_reset), never to come back to EARLY; and within *)
(* an epoch the sequence number never goes back, so no nonce repeats.      *)
(***************************************************************************)
EpochLevel == [NONE |-> 0, EARLY |-> 1, HANDSHAKE |-> 2, MASTER |-> 3, SECURE |-> 3]

NonceNeverRepeats ==
    [][\A e \in Mode :
         LET now == conn[e].w
             next == conn'[e].w
         IN  \/ next.epoch = now.epoch /\ next.seq >= now.seq
             \/ /\ EpochLevel[next.epoch] > EpochLevel[now.epoch]
                /\ next.epoch = "EARLY" => conn[e].early_data_state = "REQUESTED"
             \/ next = NoKey /\ conn'[e].early_data_state = "REJECTED"]_vars

(***************************************************************************)
(* Configurations that should be able to talk: both QUIC or neither, the   *)
(* client's early data meets TLS 1.3, and their ideas of client            *)
(* authentication agree.                                                   *)
(***************************************************************************)
MinVersion == IF cfg["C"].maxVersion < cfg["S"].maxVersion
              THEN cfg["C"].maxVersion ELSE cfg["S"].maxVersion

AuthAgrees ==
    /\ cfg["C"].auth = "REQUIRED" => cfg["S"].auth # "NONE"
    /\ cfg["C"].auth = "NONE" => cfg["S"].auth = "NONE"
    /\ cfg["S"].auth # "NONE" => \/ cfg["C"].cert
                                 \/ cfg["C"].auth = "OPTIONAL" /\ cfg["S"].auth = "OPTIONAL"

Compatible ==
    /\ cfg["C"].quic = cfg["S"].quic
    /\ cfg["C"].quic => MinVersion = S2N_TLS13 /\ ~cfg["C"].early_data_expected
    /\ cfg["C"].session = "PSK" /\ cfg["C"].early_data_expected => MinVersion = S2N_TLS13
    /\ AuthAgrees

\* s2n_negotiate ends, in success or in an error, whatever the interleaving
\* of the two sides, the socket and the asynchronous answers; compatible
\* configurations complete the handshake.
Completes == /\ <>(\A e \in Mode : ~Negotiating(e))
             /\ Compatible => <>(Completed("C") /\ Completed("S"))

=============================================================================
