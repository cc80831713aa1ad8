------------------------------ MODULE Handlers ------------------------------
(***************************************************************************)
(* The handlers of the messages after the ClientHello, the TLS 1.3 secrets *)
(* and key schedule, and the dispatch of state_machine[] and               *)
(* tls13_state_machine[] (tls/s2n_handshake_io.c).                         *)
(***************************************************************************)
EXTENDS Connection

(***************************************************************************)
(* ServerHello and HelloRetryRequest.                                      *)
(***************************************************************************)
ServerHelloBody(cfg, c, hrr) ==
    [hrr |-> hrr, version |-> c.version, session_id |-> c.session_id,
     downgrade |-> cfg.maxVersion >= S2N_TLS13 /\ c.version = S2N_TLS12,
     psk |-> c.chosen_psk /\ ~hrr, ocsp |-> c.status_request /\ c.version < S2N_TLS13,
     nst |-> /\ cfg.use_tickets
             /\ c.session_ticket_status = "NEW_TICKET"
             /\ c.version < S2N_TLS13,
     pfs |-> c.pfs]

\* s2n_server_hello_retry_recreate_transcript
MessageHash == <<"message_hash">>

s2n_server_hello_retry_send(c) ==
    Ok([c EXCEPT !.transcript = MessageHash, !.client_hello_received = FALSE])

s2n_tls13_key_schedule_reset(c) ==
    [c EXCEPT !.r = NoKey, !.w = NoKey, !.extract_secret = "NONE"]

ServerExtensionsRecv(c, body) ==
    [c EXCEPT !.status_request = body.ocsp,
              !.session_ticket_status = IF body.nst THEN "NEW_TICKET" ELSE @,
              !.chosen_psk = body.psk]

\* The version-dependent middle of s2n_server_hello_parse.
ServerHelloVersion(cfg, c, body) ==
    LET session_ids_match == body.session_id # "EMPTY" /\ body.session_id = c.session_id
    IN  IF body.version >= S2N_TLS13
        THEN IF session_ids_match \/ (body.session_id = "EMPTY" /\ c.session_id = "EMPTY")
             THEN Ok([c EXCEPT !.version = body.version])
             ELSE Fail(c)
        ELSE IF \/ client_protocol_version(cfg) = S2N_TLS13 /\ body.downgrade
                \/ cfg.quic
                \/ c.early_data_state = "REQUESTED"
                \/ body.version > client_protocol_version(cfg)
        THEN Fail(c)
        ELSE IF session_ids_match
        THEN IF c.version = body.version
             THEN Ok([c EXCEPT !.client_session_resumed = TRUE]) ELSE Fail(c)
        ELSE Ok([c EXCEPT !.session_id = body.session_id, !.version = body.version,
                          !.pfs = body.pfs])

\* Mutant: the keys are reset whether or not early data was rejected.
ServerHelloParse_AlwaysResets(cfg, c, body) ==
    LET retry == IF ~body.hrr THEN Ok(c) ELSE s2n_set_hello_retry_required(c)
        extensions(d) == Ok(ServerExtensionsRecv(d, body))
        version(d) == ServerHelloVersion(cfg, d, body)
        early(d) == s2n_early_data_accept_or_reject("C", cfg, d)
        reset(d) == Ok(s2n_tls13_key_schedule_reset(d))
    IN  Then(Then(Then(Then(retry, extensions), version), early), reset)

s2n_server_hello_parse(cfg, c, body) ==
    LET retry == IF ~body.hrr THEN Ok(c)
                 ELSE IF IS_HELLO_RETRY_HANDSHAKE(c) THEN Fail(c)
                 ELSE s2n_set_hello_retry_required(c)
        extensions(d) == Ok(ServerExtensionsRecv(d, body))
        version(d) == ServerHelloVersion(cfg, d, body)
        early(d) == s2n_early_data_accept_or_reject("C", cfg, d)
        reset(d) == Ok(IF d.early_data_state = "REJECTED"
                       THEN s2n_tls13_key_schedule_reset(d) ELSE d)
    IN  Then(Then(Then(Then(retry, extensions), version), early), reset)

\* The client's key share for the group the server asked for replaces the old one.
s2n_server_hello_retry_recv(c) ==
    IF c.version >= S2N_TLS13 /\ (c.early_data_state = "REJECTED" \/ ~c.key_share)
    THEN Ok([c EXCEPT !.transcript = MessageHash, !.key_share = TRUE])
    ELSE Fail(c)

s2n_server_hello_recv(cfg, c, body) ==
    LET type(d) == s2n_conn_set_handshake_type("C", cfg, d)
        keys(d) == IF ACTIVE_MESSAGE(d) = "HELLO_RETRY_MSG"
                   THEN s2n_server_hello_retry_recv(d)
                   ELSE Ok([d EXCEPT !.derived = \/ @
                                                 \/ /\ d.version < S2N_TLS13
                                                    /\ IS_RESUMPTION_HANDSHAKE(d)])
    IN  Then(Then(s2n_server_hello_parse(cfg, c, body), type), keys)

(***************************************************************************)
(* EncryptedExtensions: the client learns here whether its early data was  *)
(* accepted, after the handshake type was computed.                        *)
(***************************************************************************)
s2n_encrypted_extensions_recv(c, body) ==
    IF body.early
    THEN IF ~s2n_early_data_is_valid_for_connection(c) THEN Fail(c)
         ELSE Then(s2n_connection_set_early_data_state(c, "ACCEPTED"),
                   LAMBDA d : Ok(SetFlag(d, "WITH_EARLY_DATA")))
    ELSE IF c.early_data_state = "REQUESTED"
    THEN s2n_connection_set_early_data_state(c, "REJECTED")
    ELSE Ok(c)

(***************************************************************************)
(* S2N_ASYNC_PKEY_GUARD and the private-key operation it guards.           *)
(***************************************************************************)
s2n_async_pkey(cfg, c) ==
    CASE c.async_state = "COMPLETE"    -> Ok([c EXCEPT !.async_state = "NOT_INVOKED"])
      [] c.async_state = "INVOKED"     -> Block(c)
      [] c.async_state = "NOT_INVOKED" -> IF cfg.async
                                          THEN Block([c EXCEPT !.async_state = "INVOKED"])
                                          ELSE Ok(c)

\* s2n_calculate_keys, after the decryption of the premaster secret in RSA.
s2n_client_key_recv(cfg, c) ==
    Then(IF c.pfs THEN Ok(c) ELSE s2n_async_pkey(cfg, c),
         LAMBDA d : Ok([d EXCEPT !.derived = TRUE]))

s2n_client_cert_send(cfg, c) ==
    IF cfg.cert THEN Ok(c) ELSE s2n_conn_set_handshake_no_client_cert(cfg, c)

s2n_client_cert_recv(cfg, c, body) ==
    IF body.empty THEN s2n_conn_set_handshake_no_client_cert(cfg, c) ELSE Ok(c)

s2n_server_nst_send(cfg, c) ==
    Ensure(cfg.use_tickets => c.session_ticket_status = "NEW_TICKET", c)

s2n_end_of_early_data_send(c) ==
    IF c.early_data_expected THEN [r |-> "EARLY_DATA_BLOCKED", c |-> c]
    ELSE s2n_connection_set_early_data_state(c, "END")

s2n_end_of_early_data_recv(cfg, c) ==
    IF cfg.quic THEN Fail(c) ELSE s2n_connection_set_early_data_state(c, "END")

(***************************************************************************)
(* Finished.  Before TLS 1.3 the writer turns to the new keys here, and a  *)
(* resuming server derives them only now.                                  *)
(***************************************************************************)
s2n_finished_send(mode, c) ==
    Ok(IF c.version >= S2N_TLS13 THEN c
       ELSE [c EXCEPT !.w = [epoch |-> "SECURE", seq |-> 0],
                      !.derived = @ \/ (mode = "S" /\ IS_RESUMPTION_HANDSHAKE(c))])

s2n_finished_recv(c, body) == Ensure(body.transcript = c.transcript, c)

\* Mutants: the reader keeps its keys; both sequence numbers are zeroed.
CcsRecv_KeepsKeys(c) == c

CcsRecv_ZeroesBoth(c) ==
    IF c.version >= S2N_TLS13 THEN c
    ELSE [c EXCEPT !.r = [epoch |-> "SECURE", seq |-> 0], !.w.seq = 0]

\* CCS_STATE(conn).handler: before TLS 1.3 the reader turns to the new keys.
s2n_ccs_recv(c) ==
    IF c.version >= S2N_TLS13 THEN c
    ELSE [c EXCEPT !.r = [epoch |-> "SECURE", seq |-> 0]]

----------------------------------------------------------------------------
(***************************************************************************)
(* ACTIVE_STATE(conn).handler[conn->mode] for the writer of message m, the *)
(* message it leaves in handshake.io, and the handler of the reader.       *)
(***************************************************************************)
WriteHandler(mode, cfg, c, m) ==
    CASE m = "CLIENT_HELLO"      -> s2n_client_hello_send(cfg, c)
      [] m = "HELLO_RETRY_MSG"   -> s2n_server_hello_retry_send(c)
      [] m \in {"SERVER_KEY", "SERVER_CERT_VERIFY", "CLIENT_CERT_VERIFY"}
                                 -> s2n_async_pkey(cfg, c)
      [] m = "SERVER_NEW_SESSION_TICKET" -> s2n_server_nst_send(cfg, c)
      [] m = "CLIENT_CERT"       -> s2n_client_cert_send(cfg, c)
      [] m = "CLIENT_KEY"        -> Ok([c EXCEPT !.derived = TRUE])
      [] m = "END_OF_EARLY_DATA" -> s2n_end_of_early_data_send(c)
      [] m \in {"SERVER_FINISHED", "CLIENT_FINISHED"} -> s2n_finished_send(mode, c)
      [] OTHER                   -> Ok(c)

MessageBody(cfg, c, m) ==
    CASE m = "CLIENT_HELLO"    -> ClientHelloBody(cfg, c)
      [] m = "SERVER_HELLO"    -> ServerHelloBody(cfg, c, FALSE)
      [] m = "HELLO_RETRY_MSG" -> ServerHelloBody(cfg, c, TRUE)
      [] m = "ENCRYPTED_EXTENSIONS" -> [early |-> c.early_data_state = "ACCEPTED"]
      [] m = "CLIENT_CERT"     -> [empty |-> ~cfg.cert]
      [] m \in {"SERVER_FINISHED", "CLIENT_FINISHED"} -> [transcript |-> c.transcript]
      [] OTHER                 -> << >>

ReadHandler(cfg, c, m, body) ==
    CASE m = "CLIENT_HELLO"         -> s2n_establish_session(cfg, c, body)
      [] m \in {"SERVER_HELLO", "HELLO_RETRY_MSG"} -> s2n_server_hello_recv(cfg, c, body)
      [] m = "ENCRYPTED_EXTENSIONS" -> s2n_encrypted_extensions_recv(c, body)
      [] m = "CLIENT_CERT"          -> s2n_client_cert_recv(cfg, c, body)
      [] m = "CLIENT_KEY"           -> s2n_client_key_recv(cfg, c)
      [] m = "END_OF_EARLY_DATA"    -> s2n_end_of_early_data_recv(cfg, c)
      [] m \in {"SERVER_FINISHED", "CLIENT_FINISHED"} -> s2n_finished_recv(c, body)
      [] OTHER                      -> Ok(c)

----------------------------------------------------------------------------
(***************************************************************************)
(* TLS 1.3 secrets and key schedule, run after every handshake message.    *)
(***************************************************************************)
s2n_tls13_extract_secret(c, level) ==
    IF SecretLevel[c.extract_secret] < SecretLevel[level]
    THEN [c EXCEPT !.extract_secret = level] ELSE c

s2n_tls13_secrets_update(c) ==
    LET m == ACTIVE_MESSAGE(c)
    IN  IF c.version < S2N_TLS13 THEN c
        ELSE IF m = "CLIENT_HELLO" /\ c.early_data_state \in {"REQUESTED", "ACCEPTED"}
        THEN s2n_tls13_extract_secret(c, "EARLY")
        ELSE IF m = "SERVER_HELLO" THEN s2n_tls13_extract_secret(c, "HANDSHAKE")
        ELSE IF m = "SERVER_FINISHED" THEN s2n_tls13_extract_secret(c, "MASTER")
        ELSE c

\* s2n_set_key fails for a secret that was not extracted.
K_send(c, level) ==
    IF SecretLevel[level] <= SecretLevel[c.extract_secret]
    THEN Ok([c EXCEPT !.w = [epoch |-> level, seq |-> 0]]) ELSE Fail(c)

K_recv(c, level) ==
    IF SecretLevel[level] <= SecretLevel[c.extract_secret]
    THEN Ok([c EXCEPT !.r = [epoch |-> level, seq |-> 0]]) ELSE Fail(c)

\* Mutant: the client never reads with the application keys.
ClientKeySchedule_NoMasterRecv(c) ==
    LET m == ACTIVE_MESSAGE(c)
    IN  CASE m = "CLIENT_HELLO" /\ c.early_data_state = "REQUESTED" -> K_send(c, "EARLY")
          [] m = "SERVER_HELLO" -> K_recv(c, "HANDSHAKE")
          [] \/ m = "SERVER_FINISHED" /\ ~WITH_EARLY_DATA(c)
             \/ m = "END_OF_EARLY_DATA" -> K_send(c, "HANDSHAKE")
          [] m = "CLIENT_FINISHED" -> K_send(c, "MASTER")
          [] OTHER -> Ok(c)

s2n_client_key_schedule(c) ==
    LET m == ACTIVE_MESSAGE(c)
    IN  CASE m = "CLIENT_HELLO" /\ c.early_data_state = "REQUESTED" -> K_send(c, "EARLY")
          [] m = "SERVER_HELLO" -> K_recv(c, "HANDSHAKE")
          [] \/ m = "SERVER_FINISHED" /\ ~WITH_EARLY_DATA(c)
             \/ m = "END_OF_EARLY_DATA" -> K_send(c, "HANDSHAKE")
          [] m = "CLIENT_FINISHED" -> Then(K_send(c, "MASTER"), LAMBDA d : K_recv(d, "MASTER"))
          [] OTHER -> Ok(c)

\* Mutant: the server skips the early keys.
ServerKeySchedule_NoEarly(c) ==
    LET m == ACTIVE_MESSAGE(c)
    IN  CASE m = "SERVER_HELLO" -> K_send(c, "HANDSHAKE")
          [] m = "SERVER_FINISHED" ->
                Then(K_send(c, "MASTER"), LAMBDA d : K_recv(d, "HANDSHAKE"))
          [] m = "CLIENT_FINISHED" -> K_recv(c, "MASTER")
          [] OTHER -> Ok(c)

s2n_server_key_schedule(c) ==
    LET m == ACTIVE_MESSAGE(c)
    IN  CASE m = "SERVER_HELLO" -> K_send(c, "HANDSHAKE")
          [] m = "SERVER_FINISHED" ->
                Then(K_send(c, "MASTER"),
                     LAMBDA d : K_recv(d, IF WITH_EARLY_DATA(d) THEN "EARLY" ELSE "HANDSHAKE"))
          [] m = "END_OF_EARLY_DATA" -> K_recv(c, "HANDSHAKE")
          [] m = "CLIENT_FINISHED" -> K_recv(c, "MASTER")
          [] OTHER -> Ok(c)

s2n_tls13_key_schedule_update(mode, c) ==
    IF c.version < S2N_TLS13 THEN Ok(c)
    ELSE IF mode = "C" THEN s2n_client_key_schedule(c) ELSE s2n_server_key_schedule(c)

=============================================================================
