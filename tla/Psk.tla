-------------------------------- MODULE Psk --------------------------------
(***************************************************************************)
(* Sessions and pre-shared keys of TLS 1.3: the list of keys of a          *)
(* connection (tls/s2n_psk.c), offering and choosing one (the pre_shared_  *)
(* key extensions), early data and its limits (tls/s2n_early_data.c,       *)
(* s2n_early_data_io.c), tickets, the session a client keeps, and the next *)
(* connection made with it (tls/s2n_resume.c,                              *)
(* s2n_server_new_session_ticket.c).                                       *)
(*                                                                         *)
(* Identities and secrets are numbers, 0 for none; a binder is the secret, hash and transcript it    *)
(* was made of; the encryption of a ticket is the table of the tickets     *)
(* issued.  The order of the handshake's other messages is that of module  *)
(* Negotiate, and the ticket keys are those of module TicketKeys.          *)
(***************************************************************************)
EXTENDS Integers, Sequences, FiniteSets, SequencesExt, TLC

CONSTANTS AgeAdds,      \* the random ticket_age_add of a ticket
          PskSetups,    \* the configurations examined, as [client, server, retry]
          Sizes,        \* of the data given to s2n_send_early_data
          MaxSends,     \* bound on the calls of s2n_send_early_data
          MaxClock,     \* bound on the clock, in seconds
          MaxRounds     \* bound on the connections made one after the other

VARIABLES cl, sv,       \* the client's and the server's connection
          up, down,     \* records to the server and to the client
          session,      \* what the client's application keeps, of s2n_connection_get_session
          issued,       \* the state inside each ticket, by its name
          clock, round, \* the time, and how many connections were made
          sent, got,    \* the sizes of the early data sent, and given to the server's application
          psetup        \* the setup of this behaviour

pvars == <<cl, sv, up, down, session, issued, clock, round, sent, got, psetup>>

UINT16_MAX == 65535
Wraps == 16                 \* stands for 2^32, in the ages of tickets
OneWeek == 8                \* ONE_WEEK_IN_SEC, scaled to MaxClock
SessionLifetime == 3        \* session_state_lifetime
KeyingLifetime == 4         \* server_keying_material_lifetime
MAX_REJECTED_TICKETS == 3
TicketKeyLifetime == 6      \* encrypt_decrypt_key_lifetime and decrypt_key_lifetime
RecordOverhead == 17        \* tag and content type of an encrypted record

\* The next of several calls, each made when the one before succeeded.
Then(c, Op(_)) == IF c.ok THEN Op(c) ELSE c

Lesser(a, b) == IF a < b THEN a ELSE b

NoState == [cipher |-> "none", time |-> 0, ticket_age_add |-> 0, secret |-> 0, expiration |-> 0,
            max_early_data_size |-> 0, application_protocol |-> [name |-> "", size |-> 0], origin |-> 0]
NoSession == [ticket |-> 0, state |-> NoState]

prf_alg(cipher) == IF cipher = "AES_256" THEN "sha384" ELSE "sha256"
s2n_hmac_digest_size(alg) == IF alg = "sha384" THEN 48 ELSE 32

(***************************************************************************)
(* Keys and the list of them.                                              *)
(***************************************************************************)
NoProtocol == [name |-> "", size |-> 0]

s2n_psk_init(type) ==
    [type |-> type, identity |-> 0, size |-> 0, secret |-> 0, hmac_alg |-> "sha256",
     ticket_age_add |-> 0, ticket_issue_time |-> 0, max_early_data_size |-> 0, cipher |-> "none",
     application_protocol |-> NoProtocol, keying_material_expiration |-> 0, origin |-> 0]

NoPsk == s2n_psk_init("none")

s2n_psk_set_identity(p, identity, size) == [p EXCEPT !.identity = identity, !.size = size]
s2n_psk_set_secret(p, secret) == [p EXCEPT !.secret = secret]
s2n_psk_set_hmac(p, alg) == [p EXCEPT !.hmac_alg = alg]

\* Fails, and then leaves the key as it is, for a cipher with another hash.
s2n_psk_configure_early_data(p, max, cipher) ==
    IF prf_alg(cipher) # p.hmac_alg THEN p
    ELSE [p EXCEPT !.max_early_data_size = max, !.cipher = cipher]

s2n_psk_set_application_protocol(p, name, size) ==
    [p EXCEPT !.application_protocol = [name |-> name, size |-> size]]

\* Identity size, age and binder size, the identity and the binder.
s2n_psk_offered_psk_size(p) == 2 + 4 + 1 + p.size + s2n_hmac_digest_size(p.hmac_alg)

s2n_psk_parameters_offered_psks_size(list) ==
    FoldLeft(LAMBDA n, p : n + s2n_psk_offered_psk_size(p), 2 + 2, list)

s2n_psk_parameters_wipe(c) ==
    [c EXCEPT !.psk_list = <<>>, !.type = "resumption", !.chosen_psk = NoPsk,
              !.chosen_psk_wire_index = 0]

\* Once the handshake is over the keys stay without their secrets.
s2n_psk_parameters_wipe_secrets(c) ==
    [c EXCEPT !.psk_list = [i \in DOMAIN @ |-> [@[i] EXCEPT !.secret = 0]]]

s2n_connection_set_psk_type(c, type) ==
    IF c.psk_list # <<>> /\ c.type # type THEN [c EXCEPT !.ok = FALSE] ELSE [c EXCEPT !.type = type]

\* An error leaves the list as it is.
s2n_connection_append_psk(c, p) ==
    IF \/ c.psk_list # <<>> /\ c.type # p.type
       \/ \E i \in DOMAIN c.psk_list : c.psk_list[i].identity = p.identity
       \/ p.identity = 0 \/ p.secret = 0
       \/ /\ c.mode = "client"
          /\ s2n_psk_parameters_offered_psks_size(c.psk_list) + s2n_psk_offered_psk_size(p) + 4
                > UINT16_MAX
    THEN c
    ELSE [c EXCEPT !.psk_list = Append(@, p), !.type = p.type]

\* The mode of the config holds until keys are added.
s2n_connection_set_psk_mode(c, mode) == s2n_connection_set_psk_type(c, mode)

(***************************************************************************)
(* Early data: its state, its limits and the bytes counted.                *)
(***************************************************************************)
valid_previous_states ==
    [REQUESTED |-> "UNKNOWN", NOT_REQUESTED |-> "UNKNOWN", REJECTED |-> "REQUESTED",
     ACCEPTED |-> "REQUESTED", END |-> "ACCEPTED"]

s2n_connection_set_early_data_state(c, next) ==
    IF c.early_data_state = next THEN c
    ELSE IF c.early_data_state # valid_previous_states[next] THEN [c EXCEPT !.ok = FALSE]
    ELSE [c EXCEPT !.early_data_state = next]

s2n_connection_set_early_data_expected(c) == [c EXCEPT !.early_data_expected = TRUE]
s2n_connection_set_end_of_early_data(c) == [c EXCEPT !.early_data_expected = FALSE]

\* The stored protocol is compared with a terminating zero.
s2n_early_data_validate(c) ==
    LET p == c.chosen_psk
        stored == p.application_protocol
        negotiated == c.application_protocol
    IN  /\ p # NoPsk
        /\ c.chosen_psk_wire_index = 0
        /\ p.max_early_data_size > 0
        /\ p.cipher = c.cipher
        /\ negotiated.size > 0 \/ stored.size > 0 =>
              /\ stored.size = negotiated.size + 1
              /\ negotiated.size > 0 => stored.name = negotiated.name

\* A callback may decide as it likes; the answer it gives later is that of
\* module Negotiate.
s2n_early_data_accept_or_reject(c, decision) ==
    IF c.early_data_state # "REQUESTED" THEN c
    ELSE IF ~s2n_early_data_validate(c) THEN s2n_connection_set_early_data_state(c, "REJECTED")
    ELSE IF c.mode = "client" THEN c
    ELSE s2n_connection_set_early_data_state(c,
            IF c.early_data_expected /\ decision = "accept" THEN "ACCEPTED" ELSE "REJECTED")

s2n_early_data_get_server_max_size(c) == c.server_max_early_data_size

s2n_connection_get_max_early_data_size(c) ==
    LET server_max == s2n_early_data_get_server_max_size(c)
    IN  IF c.psk_list = <<>> THEN IF c.mode = "server" /\ ~c.negotiated THEN server_max ELSE 0
        ELSE IF c.mode = "server" /\ c.psk_list[1].type = "resumption"
             THEN Lesser(c.psk_list[1].max_early_data_size, server_max)
        ELSE c.psk_list[1].max_early_data_size

s2n_connection_get_remaining_early_data_size(c) ==
    IF c.early_data_state \in {"NOT_REQUESTED", "REJECTED", "END"}
       \/ s2n_connection_get_max_early_data_size(c) < c.early_data_bytes THEN 0
    ELSE s2n_connection_get_max_early_data_size(c) - c.early_data_bytes

s2n_is_early_data_io(c) ==
    \/ c.early_data_expected
    \/ c.mode = "client" /\ c.early_data_state = "REQUESTED"
    \/ c.early_data_state \in {"ACCEPTED", "END"}

\* Bytes past the limit are counted too: once too many is always too many.
s2n_early_data_record_bytes(c, n) ==
    IF ~s2n_is_early_data_io(c) THEN c
    ELSE [c EXCEPT !.early_data_bytes = @ + n,
                   !.ok = c.early_data_bytes + n <= s2n_connection_get_max_early_data_size(c)]

s2n_early_data_validate_send(c, n) ==
    s2n_is_early_data_io(c) => /\ c.early_data_expected /\ c.mode = "client"
                               /\ c.early_data_state \in {"REQUESTED", "ACCEPTED"}
                               /\ n <= s2n_connection_get_remaining_early_data_size(c)

s2n_early_data_validate_recv(c) ==
    s2n_is_early_data_io(c) => c.early_data_expected /\ c.early_data_state = "ACCEPTED"

s2n_early_data_is_trial_decryption_allowed(c) == c.early_data_state = "REJECTED" /\ ~c.negotiated

s2n_early_data_can_continue(c) == s2n_connection_get_remaining_early_data_size(c) > 0

(***************************************************************************)
(* The extensions.                                                         *)
(***************************************************************************)
\* After a retry only the keys with the hash of the cipher are offered.
Viable(c, p) == c.retry => prf_alg(c.cipher) = p.hmac_alg

s2n_client_psk_should_send(c) == \E i \in DOMAIN c.psk_list : Viable(c, c.psk_list[i])

s2n_generate_obfuscated_ticket_age(p) ==
    IF p.type = "external" THEN 0
    ELSE (clock - p.ticket_issue_time + p.ticket_age_add) % Wraps

\* The binder covers the first ClientHello and the retry, when there was one.
s2n_psk_calculate_binder(c, p) == [secret |-> p.secret, hmac_alg |-> p.hmac_alg, retry |-> c.retry]

ViableKeys(c) == SelectSeq(c.psk_list, LAMBDA p : Viable(c, p))

s2n_client_psk_send(c) ==
    [i \in DOMAIN ViableKeys(c) |->
        [identity |-> ViableKeys(c)[i].identity,
         obfuscated_ticket_age |-> s2n_generate_obfuscated_ticket_age(ViableKeys(c)[i])]]

\* The binders, once the rest of the hello is complete, of the keys that s2n_client_psk_send wrote.
s2n_finish_psk_extension(c) ==
    [i \in DOMAIN ViableKeys(c) |-> s2n_psk_calculate_binder(c, ViableKeys(c)[i])]

s2n_early_data_config_is_possible(c) ==
    /\ c.psk_list # <<>>
    /\ LET p == c.psk_list[1]
       IN  /\ p.max_early_data_size > 0
           /\ p.cipher \in Range(c.ciphers)
           /\ p.application_protocol.size > 0 => p.application_protocol \in Range(c.alpn)

s2n_client_early_data_indication_should_send(c) ==
    /\ s2n_early_data_config_is_possible(c)
    /\ c.early_data_expected
    /\ ~c.retry
    /\ s2n_client_psk_should_send(c)

s2n_client_early_data_indication_send(c) ==
    [s2n_connection_set_early_data_state(c, "REQUESTED") EXCEPT !.cipher = c.psk_list[1].cipher]

s2n_client_early_data_indiction_recv(c) ==
    IF c.retry THEN [c EXCEPT !.ok = FALSE]
    ELSE s2n_connection_set_early_data_state(c, "REQUESTED")

s2n_client_early_data_indication_is_missing(c) ==
    IF c.early_data_state = "REJECTED" THEN c
    ELSE s2n_connection_set_early_data_state(c, "NOT_REQUESTED")

s2n_client_psk_is_missing(c) == [c EXCEPT !.ok = @ /\ c.early_data_state # "REQUESTED"]

\* The first of the known keys with an identity.
s2n_match_psk_identity(list, identity) ==
    LET found == SelectSeq(list, LAMBDA p : p.identity = identity)
    IN  IF found = <<>> THEN NoPsk ELSE found[1]

\* The age a client states, which may wrap, must be within the session's life.
s2n_validate_ticket_lifetime(c, age, p) ==
    c.type = "external" \/ (age - p.ticket_age_add) % Wraps < SessionLifetime

s2n_validate_ticket_age(issue) == clock >= issue /\ clock - issue <= OneWeek

\* The key a ticket or a session holds replaces those the connection had.
s2n_tls13_deserialize_session_state(c, identity, state) ==
    LET p == [s2n_psk_init("resumption") EXCEPT !.hmac_alg = prf_alg(state.cipher),
                 !.ticket_issue_time = state.time, !.ticket_age_add = state.ticket_age_add,
                 !.keying_material_expiration = state.expiration, !.origin = state.origin]
        q == IF state.max_early_data_size = 0 THEN p
             ELSE s2n_psk_set_application_protocol(
                    s2n_psk_configure_early_data(p, state.max_early_data_size, state.cipher),
                    state.application_protocol.name, state.application_protocol.size)
        Replace(d) == s2n_connection_append_psk(s2n_psk_parameters_wipe(d),
                        s2n_psk_set_secret(s2n_psk_set_identity(q, identity, 1), state.secret))
    IN  IF ~s2n_validate_ticket_age(state.time) \/ (c.mode = "server" /\ state.expiration <= clock)
        THEN [c EXCEPT !.ok = FALSE]
        ELSE Then(s2n_connection_set_psk_type(c, "resumption"), Replace)

\* A ticket whose key is still there.
s2n_decrypt_session_ticket(c, identity) ==
    IF identity \notin DOMAIN issued THEN [c EXCEPT !.ok = FALSE]
    ELSE s2n_tls13_deserialize_session_state(c, identity, issued[identity])

\* A ticket that cannot be used is no error: the next one is tried.
s2n_offered_psk_list_choose_psk(c, offered, index) ==
    LET psk == offered[index]
        Chosen(d, known) ==
            IF d.ok /\ known # NoPsk /\ s2n_validate_ticket_lifetime(d, psk.obfuscated_ticket_age, known)
            THEN [d EXCEPT !.chosen_psk = known, !.chosen_psk_wire_index = index - 1]
            ELSE [d EXCEPT !.ok = TRUE]
        Choose(d) == Chosen(d, s2n_match_psk_identity(d.psk_list, psk.identity))
    IN  Choose(IF c.type = "resumption" THEN s2n_decrypt_session_ticket(c, psk.identity) ELSE c)

\* The server's first key that the client offers.
s2n_select_external_psk(c, offered) ==
    LET common == SelectSeq(c.psk_list, LAMBDA p : \E i \in DOMAIN offered : offered[i].identity = p.identity)
    IN  IF common = <<>> THEN [c EXCEPT !.chosen_psk = NoPsk]
        ELSE [c EXCEPT !.chosen_psk = common[1],
                       !.chosen_psk_wire_index =
                            (CHOOSE i \in DOMAIN offered :
                                /\ offered[i].identity = common[1].identity
                                /\ \A j \in DOMAIN offered : offered[j].identity = common[1].identity => i <= j) - 1]

\* The client's first ticket that can be used, of the first three.
s2n_select_resumption_psk(c, offered) ==
    FoldLeft(LAMBDA d, i : IF d.chosen_psk # NoPsk THEN d ELSE s2n_offered_psk_list_choose_psk(d, offered, i),
             [c EXCEPT !.chosen_psk = NoPsk],
             [i \in 1..Lesser(Len(offered), MAX_REJECTED_TICKETS) |-> i])

s2n_client_psk_recv_identity_list(c, offered) ==
    IF c.type = "external" THEN s2n_select_external_psk(c, offered)
    ELSE s2n_select_resumption_psk(c, offered)

s2n_psk_verify_binder(c, binder) == binder = s2n_psk_calculate_binder(c, c.chosen_psk)

s2n_client_psk_recv(c, offered, binders) ==
    LET Verified(d) ==
            IF d.chosen_psk = NoPsk THEN d
            ELSE [d EXCEPT !.ok = s2n_psk_verify_binder(d, binders[d.chosen_psk_wire_index + 1])]
    IN  Verified(s2n_client_psk_recv_identity_list(c, offered))

\* The index is one of the keys offered, the client's list that of all it has.
s2n_server_psk_recv(c, index) ==
    IF index >= Len(c.psk_list) THEN [c EXCEPT !.ok = FALSE]
    ELSE [c EXCEPT !.chosen_psk_wire_index = index, !.chosen_psk = c.psk_list[index + 1]]

s2n_server_early_data_indication_recv(c) ==
    IF ~s2n_early_data_validate(c) THEN [c EXCEPT !.ok = FALSE]
    ELSE s2n_connection_set_early_data_state(c, "ACCEPTED")

s2n_server_early_data_indication_is_missing(c) ==
    IF c.early_data_state = "REQUESTED" THEN s2n_connection_set_early_data_state(c, "REJECTED") ELSE c

s2n_nst_early_data_indication_recv(c, max) == [c EXCEPT !.server_max_early_data_size = max]


(***************************************************************************)
(* The ciphers.                                                            *)
(***************************************************************************)
s2n_set_cipher_as_client(c, cipher) ==
    IF \/ cipher \notin Range(c.ciphers)
       \/ c.chosen_psk # NoPsk /\ prf_alg(cipher) # c.chosen_psk.hmac_alg
       \/ c.retry /\ c.at = "ServerHello" /\ cipher # c.cipher
    THEN [c EXCEPT !.ok = FALSE]
    ELSE [c EXCEPT !.cipher = cipher]

\* Mutant: the cipher need not have the hash of the chosen key.
s2n_set_cipher_as_tls_server_AnyHash(c, offered) ==
    LET match == SelectSeq(c.ciphers, LAMBDA x : x \in Range(offered))
    IN  IF match = <<>> THEN [c EXCEPT !.ok = FALSE] ELSE [c EXCEPT !.cipher = match[1]]

\* The server's first cipher that the client offers and that has the hash of the chosen key.
s2n_set_cipher_as_tls_server(c, offered) ==
    LET match == SelectSeq(c.ciphers, LAMBDA x : /\ x \in Range(offered)
                                                 /\ c.chosen_psk # NoPsk => prf_alg(x) = c.chosen_psk.hmac_alg)
    IN  IF match = <<>> THEN [c EXCEPT !.ok = FALSE] ELSE [c EXCEPT !.cipher = match[1]]

\* The server's first protocol that the client offers.
s2n_select_server_preference_protocol(c, offered) ==
    LET match == SelectSeq(c.alpn, LAMBDA x : x \in Range(offered))
    IN  IF match = <<>> THEN c ELSE [c EXCEPT !.application_protocol = match[1]]

s2n_set_hello_retry_required(c) ==
    [(IF c.early_data_state = "REQUESTED" THEN s2n_connection_set_early_data_state(c, "REJECTED") ELSE c)
        EXCEPT !.retry = TRUE]

(***************************************************************************)
(* Sessions and tickets.                                                   *)
(***************************************************************************)
\* The material of a resumed session ends when that of the first one did.
s2n_tls13_serialize_keying_material_expiration(c) ==
    IF c.chosen_psk.type = "resumption"
    THEN Lesser(c.chosen_psk.keying_material_expiration, clock + KeyingLifetime)
    ELSE clock + KeyingLifetime

\* Without early data the protocol is left out.
s2n_tls13_serialize_resumption_state(c) ==
    [cipher |-> c.cipher, time |-> clock, ticket_age_add |-> c.ticket_age_add,
     secret |-> c.session_secret,
     expiration |-> IF c.mode = "server" THEN s2n_tls13_serialize_keying_material_expiration(c) ELSE 0,
     max_early_data_size |-> s2n_early_data_get_server_max_size(c),
     application_protocol |-> IF s2n_early_data_get_server_max_size(c) > 0
                              THEN c.application_protocol ELSE NoProtocol,
     origin |-> IF c.chosen_psk.type = "resumption" THEN c.chosen_psk.origin ELSE clock]

\* A lifetime of less than a second is none.
s2n_psk_validate_keying_material(c) ==
    c.chosen_psk.type = "resumption" => c.chosen_psk.keying_material_expiration > clock + 1

s2n_generate_ticket_lifetime == Lesser(Lesser(TicketKeyLifetime, SessionLifetime), OneWeek)

\* Of this connection's resumption_master_secret and the nonce of the ticket.
s2n_generate_session_secret(nonce) == 1000 + 10 * round + nonce

NewConn(mode, side) ==
    [mode |-> mode, ok |-> TRUE, at |-> "ClientHello", negotiated |-> FALSE, retry |-> FALSE,
     psk_list |-> <<>>, type |-> "resumption", chosen_psk |-> NoPsk, chosen_psk_wire_index |-> 0, chosen_at |-> 0,
     ciphers |-> side.ciphers, cipher |-> "none", alpn |-> side.alpn, application_protocol |-> NoProtocol,
     early_data_state |-> "UNKNOWN", early_data_expected |-> FALSE, early_data_bytes |-> 0,
     server_max_early_data_size |-> IF mode = "server" THEN side.max_early_data ELSE 0,
     tickets_to_send |-> IF mode = "server" THEN side.tickets ELSE 0, tickets_sent |-> 0,
     ticket_age_add |-> 0, session_secret |-> 0, client_ticket |-> 0]

WithKeys(c, side) ==
    FoldLeft(s2n_connection_append_psk,
             IF side.psks = <<>> THEN c ELSE s2n_connection_set_psk_mode(c, side.psks[1].type), side.psks)

\* The server's application reads early data when its side says so.
NewServer(side) == [WithKeys(NewConn("server", side), side) EXCEPT !.early_data_expected = side.reads_early]

s2n_connection_set_session(c, kept) ==
    s2n_tls13_deserialize_session_state(c, kept.ticket, kept.state)

(***************************************************************************)
(* The operations.                                                         *)
(***************************************************************************)
Hello(c) == [kind |-> "hello", ciphers |-> c.ciphers, alpn |-> c.alpn,
             psks |-> s2n_client_psk_send(c), binders |-> s2n_finish_psk_extension(c),
             early |-> c.early_data_state = "REQUESTED", n |-> 0]
Up(kind, n) == [kind |-> kind, ciphers |-> <<>>, alpn |-> <<>>, psks |-> <<>>, binders |-> <<>>,
                early |-> FALSE, n |-> n]

\* The server's hello (with the index of the key plus one), EncryptedExtensions and Finished.
Down(kind, c) ==
    [kind |-> kind, cipher |-> c.cipher,
     psk |-> IF c.chosen_psk = NoPsk THEN 0 ELSE c.chosen_psk_wire_index + 1,
     alpn |-> c.application_protocol, early |-> c.early_data_state = "ACCEPTED",
     secret |-> c.chosen_psk.secret, ticket |-> 0, nonce |-> 0, ticket_age_add |-> 0, max |-> 0, lifetime |-> 0]

s2n_client_hello_send(c) ==
    LET Sent(d) == [(IF d.early_data_state = "UNKNOWN"
                     THEN s2n_connection_set_early_data_state(d, "NOT_REQUESTED") ELSE d)
                        EXCEPT !.at = "ServerHello"]
    IN  Sent(IF s2n_client_early_data_indication_should_send(c)
             THEN s2n_client_early_data_indication_send(c) ELSE c)

\* s2n_negotiate of the client, without early data.
ClientStarts ==
    /\ cl.ok /\ cl.at = "ClientHello" /\ up = <<>>
    /\ cl' = s2n_client_hello_send(cl) /\ up' = <<Hello(cl')>>
    /\ UNCHANGED <<sv, down, session, issued, clock, round, sent, got, psetup>>

\* s2n_send_early_data, with the part of s2n_negotiate that precedes the answer.
s2n_send_early_data(n) ==
    /\ cl.ok /\ psetup.client.early /\ Len(sent) < MaxSends /\ ~cl.negotiated
    /\ s2n_early_data_can_continue(s2n_connection_set_early_data_expected(cl))
    /\ LET starts == cl.at = "ClientHello"
           flight(c) == IF starts THEN Append(up, Hello(c)) ELSE up
       IN  \E c \in {IF starts THEN s2n_client_hello_send(s2n_connection_set_early_data_expected(cl))
                     ELSE s2n_connection_set_early_data_expected(cl)} :
           \E size \in {Lesser(n, s2n_connection_get_remaining_early_data_size(c))} :
              LET sends == size > 0 /\ s2n_early_data_validate_send(c, size)
              IN  /\ cl' = s2n_connection_set_end_of_early_data(
                             IF sends THEN s2n_early_data_record_bytes(c, size) ELSE [c EXCEPT !.ok = size = 0])
                  /\ up' = flight(c) \o (IF sends THEN <<Up("data", size)>> ELSE <<>>)
                  /\ sent' = IF sends THEN Append(sent, size) ELSE sent
    /\ UNCHANGED <<sv, down, session, issued, clock, round, got, psetup>>

\* The server's extensions, its cipher, and its answer to the early data.
s2n_client_hello_recv(c, hello, decision) ==
    LET EarlyData(d) == IF hello.early THEN s2n_client_early_data_indiction_recv(d)
                        ELSE s2n_client_early_data_indication_is_missing(d)
        Key(d) == IF hello.psks # <<>> THEN s2n_client_psk_recv(d, hello.psks, hello.binders) ELSE s2n_client_psk_is_missing(d)
        Share(d) == IF psetup.retry /\ ~c.retry THEN s2n_set_hello_retry_required(d) ELSE d
        Cipher(d) == s2n_set_cipher_as_tls_server(s2n_select_server_preference_protocol(d, hello.alpn), hello.ciphers)
        Answer(d) == [s2n_early_data_accept_or_reject(d, decision) EXCEPT !.chosen_at = clock]
    IN  Then(Then(Then(Then(EarlyData(c), Key), Share), Cipher), Answer)

ServerReadsHello(decision) ==
    /\ sv.ok /\ up # <<>> /\ Head(up).kind = "hello"
    /\ \E c \in {s2n_client_hello_recv(sv, Head(up), decision)} :
           LET retries == psetup.retry /\ ~sv.retry
           IN  /\ sv' = IF ~c.ok \/ retries THEN c
                        ELSE [c EXCEPT !.at = IF c.early_data_state = "ACCEPTED" THEN "EndOfEarlyData" ELSE "Finished"]
               /\ down' = IF ~c.ok THEN down ELSE Append(down, Down(IF retries THEN "retry" ELSE "flight", c))
    /\ up' = Tail(up)
    /\ UNCHANGED <<cl, session, issued, clock, round, sent, got, psetup>>

\* s2n_recv_early_data, inside it s2n_negotiate and s2n_recv: data of an
\* early data that was rejected is skipped, with its overhead counted.
ServerReadsData ==
    /\ sv.ok /\ up # <<>> /\ Head(up).kind = "data"
    /\ up' = Tail(up)
    /\ LET n == Head(up).n
           taken == sv.at = "EndOfEarlyData" /\ sv.early_data_expected /\ s2n_early_data_validate_recv(sv)
           skipped == s2n_early_data_is_trial_decryption_allowed(sv)
       IN  /\ sv' = IF taken THEN s2n_early_data_record_bytes(sv, n)
                    ELSE IF skipped THEN s2n_early_data_record_bytes(sv, n + RecordOverhead)
                    ELSE [sv EXCEPT !.ok = FALSE]
           /\ got' = IF taken /\ sv'.ok THEN Append(got, n) ELSE got
    /\ UNCHANGED <<cl, down, session, issued, clock, round, sent, psetup>>

s2n_end_of_early_data_recv ==
    /\ sv.ok /\ up # <<>> /\ Head(up).kind = "end" /\ sv.at = "EndOfEarlyData"
    /\ up' = Tail(up)
    /\ sv' = [s2n_connection_set_early_data_state(sv, "END") EXCEPT !.at = "Finished"]
    /\ UNCHANGED <<cl, down, session, issued, clock, round, sent, got, psetup>>

\* The last message of the handshake; the secrets of the keys go.
ServerReadsFinished ==
    /\ sv.ok /\ up # <<>> /\ Head(up).kind = "finished" /\ sv.at = "Finished"
    /\ up' = Tail(up)
    /\ sv' = [s2n_psk_parameters_wipe_secrets(sv) EXCEPT !.at = "ApplicationData", !.negotiated = TRUE]
    /\ UNCHANGED <<cl, down, session, issued, clock, round, sent, got, psetup>>

\* s2n_recv_early_data returns, to be called no more, when nothing is there to
\* be read and no more early data may come.
s2n_recv_early_data_Returns ==
    /\ sv.ok /\ up = <<>> /\ sv.early_data_expected /\ sv.at # "ClientHello"
    /\ ~s2n_early_data_can_continue(sv)
    /\ sv' = s2n_connection_set_end_of_early_data(sv)
    /\ UNCHANGED <<cl, up, down, session, issued, clock, round, sent, got, psetup>>

\* s2n_server_hello_parse, of a HelloRetryRequest or of a ServerHello.
s2n_server_hello_parse(c, m) ==
    LET Retry(d) == IF m.kind = "retry" THEN s2n_set_hello_retry_required(d) ELSE d
        Key(d) == IF m.psk > 0 /\ m.kind = "flight" THEN s2n_server_psk_recv(d, m.psk - 1) ELSE d
        Cipher(d) == s2n_set_cipher_as_client(d, m.cipher)
        Decide(d) == s2n_early_data_accept_or_reject(d, "none")
    IN  Then(Then(Then(Retry(c), Key), Cipher), Decide)

\* The keys of the second hello are those with the hash of the cipher.
ClientReadsRetry ==
    /\ cl.ok /\ down # <<>> /\ Head(down).kind = "retry"
    /\ cl' = Then(s2n_server_hello_parse([cl EXCEPT !.at = "HelloRetryRequest"], Head(down)), s2n_client_hello_send)
    /\ up' = IF cl'.ok THEN Append(up, Hello(cl')) ELSE up
    /\ down' = Tail(down)
    /\ UNCHANGED <<sv, session, issued, clock, round, sent, got, psetup>>

\* ServerHello, EncryptedExtensions and the server's Finished.
ClientReadsFlight ==
    /\ cl.ok /\ down # <<>> /\ Head(down).kind = "flight"
    /\ LET m == Head(down)
           Extensions(c) ==
               IF m.early THEN s2n_server_early_data_indication_recv([c EXCEPT !.application_protocol = m.alpn])
               ELSE s2n_server_early_data_indication_is_missing([c EXCEPT !.application_protocol = m.alpn])
           Finished(c) == [c EXCEPT !.ok = m.secret = c.chosen_psk.secret, !.at = "EndOfEarlyData"]
       IN  cl' = Then(Then(s2n_server_hello_parse(cl, m), Extensions), Finished)
    /\ down' = Tail(down)
    /\ UNCHANGED <<sv, up, session, issued, clock, round, sent, got, psetup>>

\* s2n_negotiate, when no more early data is expected.
ClientFinishes ==
    /\ cl.ok /\ cl.at = "EndOfEarlyData" /\ ~cl.early_data_expected
    /\ LET ends == cl.early_data_state = "ACCEPTED"
           c == IF ends THEN s2n_connection_set_early_data_state(cl, "END") ELSE cl
       IN  /\ cl' = [s2n_psk_parameters_wipe_secrets(c) EXCEPT !.at = "ApplicationData", !.negotiated = TRUE]
           /\ up' = up \o (IF ends THEN <<Up("end", 0)>> ELSE <<>>) \o <<Up("finished", 0)>>
    /\ UNCHANGED <<sv, down, session, issued, clock, round, sent, got, psetup>>

\* One ticket of s2n_tls13_server_nst_send, unless the material of the session is at its end.
s2n_tls13_server_nst_send(age_add) ==
    LET name == 100 * round + sv.tickets_sent + 10
        c == [sv EXCEPT !.ticket_age_add = age_add,
                        !.session_secret = s2n_generate_session_secret(sv.tickets_sent)]
    IN  /\ sv.ok /\ sv.negotiated /\ sv.tickets_sent < sv.tickets_to_send
        /\ IF ~s2n_psk_validate_keying_material(sv)
           THEN sv' = [sv EXCEPT !.tickets_to_send = sv.tickets_sent] /\ UNCHANGED <<issued, down>>
           ELSE /\ issued' = issued @@ (name :> s2n_tls13_serialize_resumption_state(c))
                /\ sv' = [c EXCEPT !.tickets_sent = @ + 1]
                /\ down' = Append(down, [Down("ticket", c) EXCEPT !.ticket = name,
                                !.nonce = sv.tickets_sent, !.ticket_age_add = age_add,
                                !.lifetime = s2n_generate_ticket_lifetime,
                                !.max = s2n_early_data_get_server_max_size(c)])
        /\ UNCHANGED <<cl, up, session, clock, round, sent, got, psetup>>

s2n_tls13_server_nst_recv ==
    /\ cl.ok /\ cl.negotiated /\ down # <<>> /\ Head(down).kind = "ticket"
    /\ LET m == Head(down)
       IN  cl' = IF m.lifetime > OneWeek THEN [cl EXCEPT !.ok = FALSE]
                 ELSE IF m.lifetime = 0 THEN cl
                 ELSE s2n_nst_early_data_indication_recv(
                        [cl EXCEPT !.ticket_age_add = m.ticket_age_add, !.client_ticket = m.ticket,
                                   !.session_secret = s2n_generate_session_secret(m.nonce)], m.max)
    /\ down' = Tail(down)
    /\ UNCHANGED <<sv, up, session, issued, clock, round, sent, got, psetup>>

s2n_connection_get_session ==
    /\ cl.ok /\ cl.client_ticket # 0
    /\ session' = [ticket |-> cl.client_ticket, state |-> s2n_tls13_serialize_resumption_state(cl)]
    /\ session' # session
    /\ UNCHANGED <<cl, sv, up, down, issued, clock, round, sent, got, psetup>>

\* Both connections are wiped and used again; the client sets the session it kept.
Reconnect ==
    /\ cl.ok /\ sv.ok /\ cl.negotiated /\ sv.negotiated /\ round < MaxRounds
    /\ sv.tickets_sent = sv.tickets_to_send /\ down = <<>> /\ session.ticket # 0
    /\ round' = round + 1
    /\ cl' = s2n_connection_set_session(WithKeys(NewConn("client", psetup.client), psetup.client), session)
    /\ sv' = NewServer(psetup.server)
    /\ session' = NoSession /\ up' = <<>> /\ sent' = <<>> /\ got' = <<>>
    /\ UNCHANGED <<down, issued, clock, psetup>>

\* Time matters to sessions; it passes while nothing is on its way but a hello.
Tick ==
    /\ clock < MaxClock /\ clock' = clock + 1
    /\ psetup.client.psks = <<>> /\ down = <<>> /\ sent = <<>> /\ Len(up) <= 1
    /\ cl.negotiated = sv.negotiated
    /\ UNCHANGED <<cl, sv, up, down, session, issued, round, sent, got, psetup>>

PskInit ==
    /\ psetup \in PskSetups
    /\ cl = WithKeys(NewConn("client", psetup.client), psetup.client)
    /\ sv = NewServer(psetup.server)
    /\ up = <<>> /\ down = <<>> /\ sent = <<>> /\ got = <<>>
    /\ session = NoSession /\ issued = <<>>
    /\ clock = 0 /\ round = 0

PskNext ==
    \/ ClientStarts
    \/ \E n \in Sizes : s2n_send_early_data(n)
    \/ \E decision \in {"accept", "reject"} : ServerReadsHello(decision)
    \/ ServerReadsData \/ s2n_end_of_early_data_recv \/ ServerReadsFinished
    \/ s2n_recv_early_data_Returns
    \/ ClientReadsRetry \/ ClientReadsFlight \/ ClientFinishes
    \/ \E age_add \in AgeAdds : s2n_tls13_server_nst_send(age_add)
    \/ s2n_tls13_server_nst_recv \/ s2n_connection_get_session \/ Reconnect \/ Tick

PskSpec == PskInit /\ [][PskNext]_pvars

(***************************************************************************)
(* What this must achieve.                                                 *)
(***************************************************************************)
Total(sizes) == FoldLeft(LAMBDA n, m : n + m, 0, sizes)

\* Client and server that both finished the handshake (s2n_server_psk_recv,
\* s2n_client_psk_recv) use one key with one secret and hash, one cipher, and agree whether
\* there was early data; and no connection fails but one whose rejected early
\* data, counted with the overhead of its records, passes the limit
\* (s2n_handshake_io.c:1187).
PskAgreed ==
    /\ cl.ok
    /\ ~sv.ok => /\ sv.early_data_state = "REJECTED"
                 /\ sv.early_data_bytes <= Total(sent) + RecordOverhead * Len(sent)
    /\ cl.ok /\ sv.ok /\ cl.negotiated /\ sv.negotiated =>
        /\ cl.chosen_psk.identity = sv.chosen_psk.identity
        /\ cl.chosen_psk.secret = sv.chosen_psk.secret
        /\ cl.chosen_psk.hmac_alg = sv.chosen_psk.hmac_alg
        /\ cl.cipher = sv.cipher /\ cl.application_protocol = sv.application_protocol
        /\ cl.early_data_state = sv.early_data_state
        /\ cl.chosen_psk # NoPsk => prf_alg(cl.cipher) = cl.chosen_psk.hmac_alg

\* Early data is never delivered past the limit of the first key offered, nor
\* out of order, nor at all when the client is told that it was rejected; and
\* all of it is delivered when the client is told that it was accepted
\* (s2n_early_data_io.c, s2n_early_data_validate).
EarlyDataWithinLimit ==
    /\ IsPrefix(got, sent)
    /\ cl.psk_list # <<>> /\ ~cl.negotiated => Total(sent) <= cl.psk_list[1].max_early_data_size
    /\ got # <<>> => /\ sv.chosen_psk.identity = cl.psk_list[1].identity
                     /\ Total(got) <= sv.chosen_psk.max_early_data_size
                     /\ cl.early_data_state \notin {"NOT_REQUESTED", "REJECTED"}
    /\ cl.negotiated /\ cl.early_data_state = "END" /\ sv.negotiated => got = sent

\* However often a session is resumed and new tickets are issued for it, the
\* server uses keying material only for server_keying_material_lifetime after
\* the handshake it comes from (s2n_resume.c:70, s2n_psk.c:682).
KeyingMaterialLimited ==
    sv.chosen_psk.type = "resumption" => sv.chosen_at < sv.chosen_psk.origin + KeyingLifetime

=============================================================================
