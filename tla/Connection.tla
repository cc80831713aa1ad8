----------------------------- MODULE Connection -----------------------------
(***************************************************************************)
(* One struct s2n_connection during the handshake: the part of its state   *)
(* that steers the handshake, and the handlers of the two state machines   *)
(* (tls/s2n_handshake_io.c) as functions of it.                            *)
(*                                                                         *)
(* A handler takes the connection's configuration cfg, its state c and,    *)
(* when it reads, the body of the message; it returns [r, c]: the verdict  *)
(* of the call and the state it leaves.  "OK" is S2N_SUCCESS; the two      *)
(* "..._BLOCKED" verdicts are the retryable errors, every other error is   *)
(* "ERROR".                                                                *)
(*                                                                         *)
(* Left out: what a property cannot tell apart (cipher choice, curves,     *)
(* certificates' contents, EMS, ALPN, SNI) and TLS 1.0/1.1, whose message  *)
(* orders are those of TLS 1.2.                                            *)
(***************************************************************************)
EXTENDS HandshakeTypes

Auth == {"NONE", "OPTIONAL", "REQUIRED"}        \* s2n_cert_auth_type

(***************************************************************************)
(* What the application configured.                                        *)
(*   session    the client: the session it was given to resume; the        *)
(*              server: the one it is able to resume                       *)
(*   renew      the server's ticket key is past its encrypt-decrypt life   *)
(*   pfs        the server picks a cipher suite with ephemeral keys        *)
(*   group      the first ClientHello has a key share the server can use   *)
(*   async      private-key operations, the ClientHello callback and the   *)
(*              session cache answer later                                 *)
(*   earlyCb    the early data callback: none, or what it will answer      *)
(***************************************************************************)
Config == [maxVersion: Version, auth: Auth, cert: BOOLEAN, use_tickets: BOOLEAN,
           session: {"NONE", "TICKET", "CACHE", "PSK"}, renew: BOOLEAN,
           ocsp: BOOLEAN, pfs: BOOLEAN, quic: BOOLEAN, group: BOOLEAN,
           early_data_expected: BOOLEAN, async: BOOLEAN,
           earlyCb: {"NONE", "ACCEPTED", "REJECTED"}]

EarlyDataState == {"UNKNOWN", "REQUESTED", "NOT_REQUESTED", "REJECTED",
                   "ACCEPTED", "END"}

\* An asynchronous operation: S2N_ASYNC_NOT_INVOKED, _INVOKED, _COMPLETE.
AsyncState == {"NOT_INVOKED", "INVOKED", "COMPLETE"}

\* s2n_extract_secret_type_t; "SECURE" stands for the keys of TLS 1.2.
Epoch == {"NONE", "EARLY", "HANDSHAKE", "MASTER", "SECURE"}
SecretLevel == [NONE |-> 0, EARLY |-> 1, HANDSHAKE |-> 2, MASTER |-> 3]

SessionId == {"EMPTY", "CLIENT", "SESSION", "SERVER"}  \* who generated it

\* conn->initial: no protection.
NoKey == [epoch |-> "NONE", seq |-> 0]

(***************************************************************************)
(* A connection fresh from s2n_connection_new, configured with cfg (and,   *)
(* on a client that resumes a TLS 1.2 session, s2n_connection_set_session: *)
(* the session brings its protocol version and, from a cache, its id).     *)
(*   io       handshake.io: wiped, or holding a message being written      *)
(*   r, w     the keys in force for reading and writing, with their        *)
(*            sequence numbers                                             *)
(*   derived  s2n_prf_key_expansion has filled the TLS 1.2 keys            *)
(***************************************************************************)
NewConnection(mode, cfg) ==
    [version |-> IF mode = "S" THEN S2N_UNKNOWN_PROTOCOL_VERSION
                 ELSE IF cfg.session \in {"TICKET", "CACHE"} THEN S2N_TLS12
                 ELSE S2N_TLS13,
     handshake_type |-> {}, message_number |-> 0,
     early_data_state |-> "UNKNOWN", early_data_expected |-> cfg.early_data_expected,
     io |-> "WIPED", paused |-> FALSE, client_hello_received |-> FALSE,
     client_hello_cb |-> "NOT_INVOKED", early_data_cb |-> "NOT_INVOKED",
     cache_retrieve |-> "NOT_INVOKED", async_state |-> "NOT_INVOKED",
     key_share |-> cfg.group, chosen_psk |-> FALSE, client_session_resumed |-> FALSE,
     session_id |-> IF mode = "C" /\ cfg.session = "CACHE" THEN "SESSION" ELSE "EMPTY",
     session_ticket_status |-> "NO_TICKET", status_request |-> FALSE, pfs |-> FALSE,
     extract_secret |-> "NONE", derived |-> FALSE, r |-> NoKey, w |-> NoKey,
     transcript |-> << >>, status |-> "NEGOTIATING"]

Ok(c)     == [r |-> "OK", c |-> c]
Fail(c)   == [r |-> "ERROR", c |-> c]
Block(c)  == [r |-> "ASYNC_BLOCKED", c |-> c]

\* The next call of a sequence of POSIX_GUARDed calls.  (Written with CHOOSE
\* from a singleton so that TLC evaluates the first call once.)
Then(res, Op(_)) ==
    CHOOSE next \in {IF x.r = "OK" THEN Op(x.c) ELSE x : x \in {res}} : TRUE

Ensure(b, c) == IF b THEN Ok(c) ELSE Fail(c)

----------------------------------------------------------------------------
(***************************************************************************)
(* handshake_type.                                                         *)
(***************************************************************************)
SetFlag(c, flag) == [c EXCEPT !.handshake_type = @ \cup {flag}]

IS_FULL_HANDSHAKE(c) == "FULL_HANDSHAKE" \in c.handshake_type

IS_RESUMPTION_HANDSHAKE(c) == ~IS_FULL_HANDSHAKE(c) /\ "NEGOTIATED" \in c.handshake_type

IS_HELLO_RETRY_HANDSHAKE(c) == c.version >= S2N_TLS13
                               /\ "HELLO_RETRY_REQUEST" \in c.handshake_type

WITH_EARLY_DATA(c) == c.version >= S2N_TLS13 /\ "WITH_EARLY_DATA" \in c.handshake_type

ACTIVE_MESSAGE(c) == ActiveMessage(c.version, c.handshake_type, c.message_number)

CONNECTION_IS_WRITER(mode, c) == Writer(ACTIVE_MESSAGE(c)) = mode

s2n_is_middlebox_compat_enabled(cfg, c) == c.version >= S2N_TLS13 /\ ~cfg.quic

(***************************************************************************)
(* s2n_connection_set_early_data_state.                                    *)
(***************************************************************************)
valid_previous_states ==
    [REQUESTED |-> "UNKNOWN", NOT_REQUESTED |-> "UNKNOWN", REJECTED |-> "REQUESTED",
     ACCEPTED |-> "REQUESTED", END |-> "ACCEPTED"]

s2n_connection_set_early_data_state(c, next) ==
    IF c.early_data_state = next THEN Ok(c)
    ELSE IF c.early_data_state = valid_previous_states[next]
         THEN Ok([c EXCEPT !.early_data_state = next])
         ELSE Fail(c)

\* A HelloRetryRequest also rejects early data.
s2n_set_hello_retry_required(c) ==
    IF c.version < S2N_TLS13 THEN Fail(c)
    ELSE LET d == SetFlag(c, "HELLO_RETRY_REQUEST")
         IN  IF d.early_data_state = "REQUESTED"
             THEN s2n_connection_set_early_data_state(d, "REJECTED")
             ELSE Ok(d)

(***************************************************************************)
(* s2n_advance_message: the next entry of the order; a TLS 1.3 reader      *)
(* steps over a ChangeCipherSpec, which its peer may or may not send.      *)
(***************************************************************************)
SkipsCcs(mode, c) ==
    /\ c.version = S2N_TLS13
    /\ ACTIVE_MESSAGE(c) \in CCS
    /\ ~CONNECTION_IS_WRITER(mode, c)

s2n_advance_message(mode, c) ==
    LET d == [c EXCEPT !.message_number = @ + 1]
    IN  IF SkipsCcs(mode, d) THEN [d EXCEPT !.message_number = @ + 1] ELSE d

\* Mutant: the handshake type is computed from nothing.
Tls13Type_RewritesThePast(mode, cfg, c) ==
    [c EXCEPT !.handshake_type =
        {"NEGOTIATED"} \cup (IF c.chosen_psk THEN {} ELSE {"FULL_HANDSHAKE"})
        \cup (IF c.early_data_state = "ACCEPTED" THEN {"WITH_EARLY_DATA"} ELSE {})
        \cup (IF s2n_is_middlebox_compat_enabled(cfg, c) THEN {"MIDDLEBOX_COMPAT"} ELSE {})]

(***************************************************************************)
(* s2n_conn_set_tls13_handshake_type.  The flags that already shaped the   *)
(* order are kept, "to avoid rewriting the past".                          *)
(***************************************************************************)
s2n_conn_set_tls13_handshake_type(mode, cfg, c) ==
    LET kept == c.handshake_type \cap {"HELLO_RETRY_REQUEST", "MIDDLEBOX_COMPAT",
                                       "EARLY_CLIENT_CCS"}
        full == ~c.chosen_psk
        auth == full /\ IF mode = "C" THEN cfg.auth = "REQUIRED" ELSE cfg.auth # "NONE"
        flags == {f \in {"NEGOTIATED", "FULL_HANDSHAKE", "WITH_EARLY_DATA",
                         "CLIENT_AUTH", "MIDDLEBOX_COMPAT"} :
                     \/ f = "NEGOTIATED"
                     \/ f = "FULL_HANDSHAKE" /\ full
                     \/ f = "WITH_EARLY_DATA" /\ c.early_data_state = "ACCEPTED"
                     \/ f = "CLIENT_AUTH" /\ auth
                     \/ f = "MIDDLEBOX_COMPAT" /\ s2n_is_middlebox_compat_enabled(cfg, c)}
    IN  [c EXCEPT !.handshake_type = kept \cup flags]

(***************************************************************************)
(* s2n_conn_set_handshake_type before TLS 1.3.  The server resumes from a  *)
(* ticket it can decrypt (and renews it when the key is about to expire)   *)
(* or, if none was presented, from its cache, which may answer later; the  *)
(* client resumes when the server echoed its session id.  A server that    *)
(* uses tickets has a key to encrypt with here, so that a ticket it cannot *)
(* decrypt is replaced; TicketKeys models a server whose keys run out.     *)
(***************************************************************************)
s2n_allowed_to_cache_connection(cfg) == cfg.auth = "NONE" /\ cfg.session = "CACHE"

\* s2n_resume_from_cache finds the session it once stored, and no other id.
s2n_resume_from_cache(cfg, c) ==
    IF c.session_id = "EMPTY" THEN Fail(c)
    ELSE IF cfg.async /\ c.cache_retrieve # "COMPLETE"
    THEN Block([c EXCEPT !.cache_retrieve = "INVOKED"])
    ELSE Ensure(c.session_id = "SESSION", c)

Tls12FullHandshake(mode, c) ==
    [c EXCEPT !.session_id = IF mode = "S" THEN "SERVER" ELSE @,
              !.handshake_type = @ \cup {"FULL_HANDSHAKE"}
                    \cup (IF c.pfs THEN {"TLS12_PERFECT_FORWARD_SECRECY"} ELSE {})
                    \cup (IF c.status_request THEN {"OCSP_STATUS"} ELSE {})]

s2n_conn_set_tls12_handshake_type(mode, cfg, c) ==
    LET auth == IF mode = "C" THEN cfg.auth = "REQUIRED" ELSE cfg.auth # "NONE"
        base == [c EXCEPT !.handshake_type =
                    {"NEGOTIATED"} \cup IF auth THEN {"CLIENT_AUTH"} ELSE {}]
        renewed == SetFlag([base EXCEPT !.session_ticket_status = "NEW_TICKET"],
                           "WITH_SESSION_TICKET")
        ticket == IF cfg.use_tickets /\ c.session_ticket_status = "NEW_TICKET"
                  THEN SetFlag(base, "WITH_SESSION_TICKET") ELSE base
        cached == s2n_resume_from_cache(cfg, ticket)
    IN  IF cfg.use_tickets /\ c.session_ticket_status = "DECRYPT_TICKET"
        THEN IF cfg.session # "TICKET" THEN Ok(Tls12FullHandshake(mode, renewed))
             ELSE Ok(IF cfg.renew THEN renewed ELSE base)
        ELSE IF mode = "S" /\ s2n_allowed_to_cache_connection(cfg) /\ cached.r # "ERROR"
        THEN cached
        ELSE IF mode = "C" /\ c.client_session_resumed
        THEN Ok(ticket)
        ELSE Ok(Tls12FullHandshake(mode, ticket))

s2n_conn_set_handshake_type(mode, cfg, c) ==
    IF c.version = S2N_TLS13
    THEN Ok(s2n_conn_set_tls13_handshake_type(mode, cfg, c))
    ELSE s2n_conn_set_tls12_handshake_type(mode, cfg, c)

s2n_conn_set_handshake_no_client_cert(cfg, c) ==
    IF cfg.auth # "OPTIONAL" THEN Fail(c) ELSE Ok(SetFlag(c, "NO_CLIENT_CERT"))


----------------------------------------------------------------------------
(***************************************************************************)
(* Early data: s2n_early_data_accept_or_reject.  Only a server asks its    *)
(* application, which may answer later.                                    *)
(***************************************************************************)
s2n_early_data_is_valid_for_connection(c) == c.chosen_psk /\ c.version = S2N_TLS13

s2n_early_data_accept_or_reject(mode, cfg, c) ==
    IF c.early_data_state # "REQUESTED" THEN Ok(c)
    ELSE IF c.early_data_cb = "INVOKED" THEN Block(c)
    ELSE IF ~s2n_early_data_is_valid_for_connection(c)
    THEN s2n_connection_set_early_data_state(c, "REJECTED")
    ELSE IF mode = "C" THEN Ok(c)
    ELSE IF ~c.early_data_expected
    THEN s2n_connection_set_early_data_state(c, "REJECTED")
    ELSE IF cfg.earlyCb = "NONE"
    THEN s2n_connection_set_early_data_state(c, "ACCEPTED")
    ELSE IF cfg.async THEN Block([c EXCEPT !.early_data_cb = "INVOKED"])
    ELSE s2n_connection_set_early_data_state(c, cfg.earlyCb)

\* The record types of s2n_is_early_data_io's callers are application data.
s2n_is_early_data_io(mode, c) ==
    /\ ACTIVE_MESSAGE(c) # "APPLICATION_DATA"
    /\ \/ c.early_data_expected
       \/ mode = "C" /\ c.early_data_state = "REQUESTED"
       \/ c.early_data_state \in {"ACCEPTED", "END"}

\* Mutant: the state of the early data is not looked at.
ValidateSend_AnyState(mode, c) ==
    s2n_is_early_data_io(mode, c) => c.early_data_expected /\ mode = "C"

s2n_early_data_validate_send(mode, c) ==
    s2n_is_early_data_io(mode, c) =>
        /\ c.early_data_expected
        /\ mode = "C"
        /\ c.early_data_state \in {"REQUESTED", "ACCEPTED"}

s2n_early_data_validate_recv(mode, c) ==
    s2n_is_early_data_io(mode, c) =>
        /\ c.early_data_expected
        /\ mode = "S"
        /\ c.early_data_state = "ACCEPTED"
        /\ ACTIVE_MESSAGE(c) = "END_OF_EARLY_DATA"

s2n_early_data_is_trial_decryption_allowed(mode, c, outer) ==
    /\ c.early_data_state = "REJECTED"
    /\ outer = "TLS_APPLICATION_DATA"
    /\ mode = "S"
    /\ ACTIVE_MESSAGE(c) # "APPLICATION_DATA"

s2n_setup_middlebox_compat_for_early_data(cfg, c) ==
    IF s2n_is_middlebox_compat_enabled(cfg, c)
    THEN SetFlag(SetFlag(c, "MIDDLEBOX_COMPAT"), "EARLY_CLIENT_CCS") ELSE c

\* Both ends do this when the early data indication passes.
RequestEarlyData(cfg, c) ==
    Then(Ok(s2n_setup_middlebox_compat_for_early_data(cfg, c)),
         LAMBDA d : s2n_connection_set_early_data_state(d, "REQUESTED"))

----------------------------------------------------------------------------
(***************************************************************************)
(* ClientHello.                                                            *)
(***************************************************************************)
client_protocol_version(cfg) == cfg.maxVersion

s2n_generate_client_session_id(cfg, c) ==
    LET generate == IF client_protocol_version(cfg) < S2N_TLS13 THEN cfg.use_tickets
                    ELSE s2n_is_middlebox_compat_enabled(cfg, c)
    IN  IF c.session_id = "EMPTY" /\ generate
        THEN [c EXCEPT !.session_id = "CLIENT"] ELSE c

s2n_client_psk_should_send(cfg) == cfg.session = "PSK"

s2n_client_early_data_indication_should_send(cfg, c) ==
    /\ s2n_client_psk_should_send(cfg)
    /\ c.early_data_expected
    /\ ~IS_HELLO_RETRY_HANDSHAKE(c)

s2n_client_hello_send(cfg, c) ==
    LET lowered == IF cfg.maxVersion < S2N_TLS13
                   THEN [c EXCEPT !.version = S2N_TLS12] ELSE c
        session_id(d) == Ok(s2n_generate_client_session_id(cfg, d))
        early(d) == IF s2n_client_early_data_indication_should_send(cfg, d)
                    THEN RequestEarlyData(cfg, d)
                    ELSE IF d.early_data_state = "UNKNOWN"
                    THEN s2n_connection_set_early_data_state(d, "NOT_REQUESTED")
                    ELSE Ok(d)
    IN  Then(Then(Ok(lowered), session_id), early)

\* What the ClientHello says; supported_versions needs a TLS 1.3 connection.
ClientHelloBody(cfg, c) ==
    [maxVersion |-> IF c.version >= S2N_TLS13 THEN client_protocol_version(cfg) ELSE S2N_TLS12,
     session_id |-> c.session_id,
     ticket |-> IF ~cfg.use_tickets \/ s2n_client_psk_should_send(cfg) THEN "NONE"
                ELSE IF cfg.session = "TICKET" THEN "TICKET" ELSE "EMPTY",
     psk |-> s2n_client_psk_should_send(cfg) /\ c.version >= S2N_TLS13,
     early |-> s2n_client_early_data_indication_should_send(cfg, c),
     key_share |-> c.key_share, ocsp |-> cfg.ocsp]

\* The extensions of a ClientHello, in the order the list is processed.
EarlyDataIndicationRecv(cfg, c, body) ==
    IF body.early
    THEN IF c.message_number # 0 THEN Fail(c) ELSE RequestEarlyData(cfg, c)
    ELSE IF c.early_data_state = "REJECTED" THEN Ok(c)
    ELSE s2n_connection_set_early_data_state(c, "NOT_REQUESTED")

ClientPskRecv(cfg, c, body) ==
    IF c.version < S2N_TLS13 THEN Ok(c)
    ELSE IF body.psk THEN Ok([c EXCEPT !.chosen_psk = (cfg.session = "PSK")])
    ELSE Ensure(c.early_data_state # "REQUESTED", c)

s2n_client_session_ticket_recv(cfg, c, body) ==
    IF body.ticket = "NONE" \/ ~cfg.use_tickets \/ c.version > S2N_TLS12 \/ cfg.auth # "NONE"
    THEN c
    ELSE [c EXCEPT !.session_ticket_status =
             IF body.ticket = "TICKET" THEN "DECRYPT_TICKET" ELSE "NEW_TICKET"]

s2n_extensions_server_key_share_select(c, body) ==
    IF c.version < S2N_TLS13 \/ body.key_share THEN Ok(c)
    ELSE s2n_set_hello_retry_required(c)

s2n_process_client_hello(cfg, c, body) ==
    LET d == [c EXCEPT !.version = IF cfg.maxVersion < body.maxVersion
                                   THEN cfg.maxVersion ELSE body.maxVersion,
                       !.session_id = body.session_id,
                       !.status_request = body.ocsp /\ cfg.ocsp,
                       !.pfs = cfg.pfs]
        ticket(x) == Ok(s2n_client_session_ticket_recv(cfg, x, body))
        early(x) == EarlyDataIndicationRecv(cfg, x, body)
        quic(x)  == Ensure(cfg.quic => x.version >= S2N_TLS13, x)
        share(x) == s2n_extensions_server_key_share_select(x, body)
        psk(x)   == ClientPskRecv(cfg, x, body)
    IN  Then(Then(Then(Then(Then(Ok(d), ticket), early), psk), share), quic)

\* Mutant: the callback is invoked again after it was answered.
ClientHelloRecv_CallsAgain(cfg, c, body) ==
    IF cfg.async /\ ~IS_HELLO_RETRY_HANDSHAKE(c)
    THEN Block([c EXCEPT !.client_hello_cb = "INVOKED"])
    ELSE Then(s2n_process_client_hello(cfg, c, body),
              LAMBDA d : Ok([d EXCEPT !.client_hello_received = TRUE]))

\* The callback is not invoked again for the ClientHello after a retry.
s2n_client_hello_recv(cfg, c, body) ==
    IF cfg.async /\ c.client_hello_cb # "COMPLETE" /\ ~IS_HELLO_RETRY_HANDSHAKE(c)
    THEN Block([c EXCEPT !.client_hello_cb = "INVOKED"])
    ELSE Then(s2n_process_client_hello(cfg, c, body),
              LAMBDA d : Ok([d EXCEPT !.client_hello_received = TRUE]))

\* The server's CLIENT_HELLO handler.
s2n_establish_session(cfg, c, body) ==
    LET received == IF c.client_hello_received THEN Ok(c)
                    ELSE s2n_client_hello_recv(cfg, c, body)
    IN  Then(Then(received, LAMBDA d : s2n_early_data_accept_or_reject("S", cfg, d)),
             LAMBDA d : s2n_conn_set_handshake_type("S", cfg, d))

=============================================================================
