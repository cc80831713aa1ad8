---------------------------- MODULE KeySchedule ----------------------------
(***************************************************************************)
(* The secrets and keys of one TLS 1.3 connection: the secret schedule     *)
(* (tls/s2n_tls13_secrets.c, tls/s2n_tls13_handshake.c,                    *)
(* crypto/s2n_tls13_keys.c, crypto/s2n_hkdf.c) and the key schedule        *)
(* (tls/s2n_tls13_key_schedule.c).                                         *)
(***************************************************************************)
EXTENDS KeyExchange

(***************************************************************************)
(* HKDF and the secrets it derives.                                        *)
(***************************************************************************)
s2n_hkdf_extract(alg, salt, key) == <<"extract", alg, salt, key>>

\* s2n_hkdf_expand_label: "tls13 " and the label, then the context.
s2n_hkdf_expand_label(alg, secret, label, context) == <<"expand", alg, secret, label, context>>

EMPTY_CONTEXT(alg) == <<"hash", alg, << >>>>       \* s2n_get_empty_context

s2n_derive_secret(alg, secret, label, context) == s2n_hkdf_expand_label(alg, secret, label, context)

s2n_tls13_compute_finished_key(c, base) == s2n_hkdf_expand_label(c.prf, base, "finished", NULL)

S2N_NONE_SECRET == 0
S2N_EARLY_SECRET == 1
S2N_HANDSHAKE_SECRET == 2
S2N_MASTER_SECRET == 3

NoSecrets == [type |-> S2N_NONE_SECRET, extract |-> NULL, digest |-> NULL,
              client |-> [i \in 1..3 |-> NULL], server |-> [i \in 1..3 |-> NULL],
              res |-> NULL]

s2n_calculate_transcript_digest(c) ==
    IF c.hashes = << >> THEN Fail(c, "NULL hashes")
    ELSE [c EXCEPT !.t13.digest = s2n_handshake_copy_hash_state(c, c.prf)]

\* The context is the transcript up to the message the schedule names.
DeriveWithContext(c, type, label, msg, Put(_, _)) ==
    IF c.t13.type # type \/ c.msg # msg THEN Fail(c, "S2N_ERR_SECRET_SCHEDULE_STATE")
    ELSE Put(c, s2n_derive_secret(c.prf, c.t13.extract, label, c.t13.digest))

s2n_derive_secret_without_context(c) ==
    s2n_derive_secret(c.prf, c.t13.extract, "derived", EMPTY_CONTEXT(c.prf))

(***************************************************************************)
(* PSKs: [secret, early, alg, type].  chosen is 0 when none is.            *)
(***************************************************************************)
s2n_extract_early_secret(psk) == [psk EXCEPT !.early = s2n_hkdf_extract(psk.alg, ZERO, psk.secret)]

s2n_derive_binder_key(psk) ==
    s2n_derive_secret(psk.alg, s2n_extract_early_secret(psk).early,
                      IF psk.type = "external" THEN "ext binder" ELSE "res binder",
                      EMPTY_CONTEXT(psk.alg))

\* Writing or verifying a binder leaves the early secret in the PSK.
WithBinder(c) == [c EXCEPT !.psks = [i \in DOMAIN @ |-> s2n_extract_early_secret(@[i])]]

s2n_psk_parameters_wipe_secrets(c) ==
    [c EXCEPT !.psks = [i \in DOMAIN @ |-> [@[i] EXCEPT !.secret = NULL, !.early = NULL]]]

s2n_extract_early_secret_for_schedule(c) ==
    LET i == IF c.mode = "C" /\ c.early = "REQUESTED" THEN 1 ELSE c.chosen
    IN  IF i = 0 THEN [c EXCEPT !.t13.extract = s2n_hkdf_extract(c.prf, ZERO, ZERO)]
        ELSE IF c.psks[i].alg # c.prf THEN Fail(c, "hmac_alg")
        ELSE [c EXCEPT !.t13.extract = c.psks[i].early]

(***************************************************************************)
(* The shared secret of the key shares.  ecc and cecc are the server's and *)
(* the client's classic parameters, gecc and gcecc those of their hybrid   *)
(* groups, gkem the KEM of the client's group.                             *)
(***************************************************************************)
s2n_connection_wipe_all_keyshares(c) ==
    [c EXCEPT !.ecc = s2n_ecc_evp_params_free(@), !.cecc = s2n_ecc_evp_params_free(@),
              !.gecc = s2n_ecc_evp_params_free(@), !.gcecc = s2n_ecc_evp_params_free(@),
              !.gkem = s2n_kem_free(@)]

s2n_ecc_evp_compute_shared_secret_from_params(own, peer) == Shared(own.key, peer.key)

Own(c, server, client)  == IF c.mode = "C" THEN client ELSE server
Peer(c, server, client) == IF c.mode = "C" THEN server ELSE client

SharesUsable(server, client) ==
    server.curve # "" /\ server.curve = client.curve /\ server.key # NULL /\ client.key # NULL

s2n_tls13_compute_ecc_shared_secret(c) ==
    s2n_ecc_evp_compute_shared_secret_from_params(Own(c, c.ecc, c.cecc), Peer(c, c.ecc, c.cecc))

s2n_tls13_compute_pq_hybrid_shared_secret(c) ==
    <<"both", s2n_ecc_evp_compute_shared_secret_from_params(Own(c, c.gecc, c.gcecc),
                                                            Peer(c, c.gecc, c.gcecc)),
      c.gkem.secret>>

s2n_tls13_pq_hybrid_supported(c) == c.sgroup # ""

\* The secret goes to Use; then the key shares and the PSK secrets are wiped.
s2n_tls13_compute_shared_secret(c, Use(_, _)) ==
    LET Wiped(d) == s2n_psk_parameters_wipe_secrets(s2n_connection_wipe_all_keyshares(d))
    IN  IF s2n_tls13_pq_hybrid_supported(c)
        THEN IF c.ecc # NoEcc \/ ~SharesUsable(c.gecc, c.gcecc) \/ c.gkem.secret = NULL
             THEN Fail(c, "S2N_ERR_SAFETY")
             ELSE Wiped(Use(c, s2n_tls13_compute_pq_hybrid_shared_secret(c)))
        ELSE IF ~SharesUsable(c.ecc, c.cecc) THEN Fail(c, "S2N_ERR_SAFETY")
             ELSE Wiped(Use(c, s2n_tls13_compute_ecc_shared_secret(c)))

s2n_extract_handshake_secret(c) ==
    LET Use(d, shared) == [d EXCEPT !.t13.extract =
                              s2n_hkdf_extract(d.prf, s2n_derive_secret_without_context(d), shared)]
    IN  IF c.t13.type # S2N_EARLY_SECRET THEN Fail(c, "S2N_ERR_SECRET_SCHEDULE_STATE")
        ELSE s2n_tls13_compute_shared_secret(c, Use)

s2n_extract_master_secret(c) ==
    IF c.t13.type # S2N_HANDSHAKE_SECRET THEN Fail(c, "S2N_ERR_SECRET_SCHEDULE_STATE")
    ELSE [c EXCEPT !.t13.extract =
             s2n_hkdf_extract(c.prf, s2n_derive_secret_without_context(c), ZERO)]

\* The secrets from the last extracted one up to type, in order.
s2n_tls13_extract_secret(c, type) ==
    LET Due(d, i) == d.t13.type < i /\ i <= type
        At(d, i) == [d EXCEPT !.t13.type = i]
        Early(d) == At(d, S2N_EARLY_SECRET)
        Handshake(d) == At(d, S2N_HANDSHAKE_SECRET)
        Master(d) == At(d, S2N_MASTER_SECRET)
        E(d) == IF Due(d, 1) THEN Then(s2n_extract_early_secret_for_schedule(d), Early) ELSE d
        H(d) == IF Due(d, 2) THEN Then(s2n_extract_handshake_secret(d), Handshake) ELSE d
        M(d) == IF Due(d, 3) THEN Then(s2n_extract_master_secret(d), Master) ELSE d
    IN  IF c.hashes = << >> THEN Fail(c, "NULL hashes") ELSE Then(Then(E(c), H), M)

\* derive_methods: the label and the message of every traffic secret.
TrafficLabel == [client |-> <<"c e traffic", "c hs traffic", "c ap traffic">>,
                 server |-> <<"c e traffic", "s hs traffic", "s ap traffic">>]
TrafficMessage == <<"CLIENT_HELLO", "SERVER_HELLO", "SERVER_FINISHED">>

\* conversions: the key log labels.
KeyLogLabel ==
    [client |-> <<"CLIENT_EARLY_TRAFFIC_SECRET ", "CLIENT_HANDSHAKE_TRAFFIC_SECRET ",
                  "CLIENT_TRAFFIC_SECRET_0 ">>,
     server |-> <<"CLIENT_EARLY_TRAFFIC_SECRET ", "SERVER_HANDSHAKE_TRAFFIC_SECRET ",
                  "SERVER_TRAFFIC_SECRET_0 ">>]

HashLen == [sha256 |-> 32, sha384 |-> 48]

\* A key log failure is ignored.
s2n_trigger_secret_callbacks(c, secret, type, d) ==
    LET logged == s2n_key_log(c, KeyLogLabel[d][type], secret, HashLen[c.prf])
    IN  IF logged.err = "" THEN logged ELSE c

\* The Finished key belongs to the same state as the handshake secret.
FinishedKey(c, d) ==
    IF d = "client" THEN [c EXCEPT !.client_finished = s2n_tls13_compute_finished_key(c, c.t13.client[2])]
    ELSE [c EXCEPT !.server_finished = s2n_tls13_compute_finished_key(c, c.t13.server[2])]

s2n_tls13_derive_secret(c, type, d) ==
    LET Put(x, secret) ==
            s2n_trigger_secret_callbacks(
                IF d = "client" THEN [x EXCEPT !.t13.client[type] = secret]
                ELSE [x EXCEPT !.t13.server[type] = secret], secret, type, d)
        Derive(x) == DeriveWithContext(x, type, TrafficLabel[d][type], TrafficMessage[type], Put)
        Finish(x) == IF type = S2N_HANDSHAKE_SECRET THEN FinishedKey(x, d) ELSE x
    IN  Then(Then(s2n_tls13_extract_secret(c, type), Derive), Finish)

s2n_derive_resumption_master_secret(c) ==
    LET Put(x, secret) == [x EXCEPT !.t13.res = secret]
    IN  DeriveWithContext(c, S2N_MASTER_SECRET, "res master", "CLIENT_FINISHED", Put)

s2n_tls13_secrets_update(c) ==
    LET Early(d) == s2n_tls13_derive_secret(d, S2N_EARLY_SECRET, "client")
        Hs(d) == LET Sv(e) == s2n_tls13_derive_secret(e, S2N_HANDSHAKE_SECRET, "server")
                 IN  Then(s2n_tls13_derive_secret(d, S2N_HANDSHAKE_SECRET, "client"), Sv)
        App(d) == LET Sv(e) == s2n_tls13_derive_secret(e, S2N_MASTER_SECRET, "server")
                  IN  Then(s2n_tls13_derive_secret(d, S2N_MASTER_SECRET, "client"), Sv)
    IN  IF c.version < S2N_TLS13 THEN c
        ELSE CASE c.msg = "CLIENT_HELLO" /\ c.early \in {"REQUESTED", "ACCEPTED"} ->
                      Then(s2n_calculate_transcript_digest(c), Early)
               [] c.msg = "SERVER_HELLO"    -> Then(s2n_calculate_transcript_digest(c), Hs)
               [] c.msg = "SERVER_FINISHED" -> Then(s2n_calculate_transcript_digest(c), App)
               [] c.msg = "CLIENT_FINISHED" ->
                      Then(s2n_calculate_transcript_digest(c), s2n_derive_resumption_master_secret)
               [] OTHER -> c

\* After the handshake; the application secrets stay for key updates.
s2n_tls13_secrets_clean(c) ==
    IF c.version < S2N_TLS13 THEN c
    ELSE [c EXCEPT !.t13.extract = ZERO, !.t13.type = S2N_NONE_SECRET,
                   !.t13.client = [@ EXCEPT ![1] = ZERO, ![2] = ZERO],
                   !.t13.server = [@ EXCEPT ![2] = ZERO]]

(***************************************************************************)
(* The key schedule.                                                       *)
(***************************************************************************)
s2n_tls13_secrets_get(c, type, d) == IF d = "client" THEN c.t13.client[type] ELSE c.t13.server[type]

s2n_tls13_derive_traffic_keys(c, secret, use) ==
    [NoKeys EXCEPT !.key = s2n_hkdf_expand_label(c.prf, secret, "key", NULL),
                   !.iv = s2n_hkdf_expand_label(c.prf, secret, "iv", NULL), !.use = use]

s2n_set_key(c, type, d) ==
    IF type > c.t13.type THEN Fail(c, "S2N_ERR_SAFETY")
    ELSE [c EXCEPT !.use = [@ EXCEPT ![d] = "secure"],
                   !.keys = [@ EXCEPT ![d] = s2n_tls13_derive_traffic_keys(
                                c, s2n_tls13_secrets_get(c, type, d), KeyUse(c, d))]]

WithEarlyData(c) == "WITH_EARLY_DATA" \in c.type

s2n_client_key_schedule(c) ==
    LET App(d) == s2n_set_key(d, S2N_MASTER_SECRET, "server")
    IN  CASE c.msg = "CLIENT_HELLO" /\ c.early = "REQUESTED" ->
                 s2n_set_key(c, S2N_EARLY_SECRET, "client")
          [] c.msg = "SERVER_HELLO" -> s2n_set_key(c, S2N_HANDSHAKE_SECRET, "server")
          [] (c.msg = "SERVER_FINISHED" /\ ~WithEarlyData(c)) \/ c.msg = "END_OF_EARLY_DATA" ->
                 s2n_set_key(c, S2N_HANDSHAKE_SECRET, "client")
          [] c.msg = "CLIENT_FINISHED" -> Then(s2n_set_key(c, S2N_MASTER_SECRET, "client"), App)
          [] OTHER -> c

s2n_server_key_schedule(c) ==
    LET Recv(d) == s2n_set_key(d, IF WithEarlyData(d) THEN S2N_EARLY_SECRET
                                  ELSE S2N_HANDSHAKE_SECRET, "client")
    IN  CASE c.msg = "SERVER_HELLO" -> s2n_set_key(c, S2N_HANDSHAKE_SECRET, "server")
          [] c.msg = "SERVER_FINISHED" -> Then(s2n_set_key(c, S2N_MASTER_SECRET, "server"), Recv)
          [] c.msg = "END_OF_EARLY_DATA" -> s2n_set_key(c, S2N_HANDSHAKE_SECRET, "client")
          [] c.msg = "CLIENT_FINISHED" -> s2n_set_key(c, S2N_MASTER_SECRET, "client")
          [] OTHER -> c

s2n_tls13_key_schedule_update(c) ==
    IF c.version < S2N_TLS13 THEN c
    ELSE IF c.mode = "C" THEN s2n_client_key_schedule(c) ELSE s2n_server_key_schedule(c)

\* Mutant: the early secret of the rejected PSK stays the current one.
s2n_tls13_key_schedule_reset_KeepsSecret(c) ==
    [c EXCEPT !.use = [client |-> "initial", server |-> "initial"]]

s2n_tls13_key_schedule_reset(c) ==
    [c EXCEPT !.use = [client |-> "initial", server |-> "initial"],
              !.t13.type = S2N_NONE_SECRET]

s2n_update_application_traffic_keys(c, d) ==
    LET next == s2n_hkdf_expand_label(c.prf, s2n_tls13_secrets_get(c, S2N_MASTER_SECRET, d),
                                      "traffic upd", NULL)
        Saved(x) == IF d = "client" THEN [x EXCEPT !.t13.client[3] = next]
                    ELSE [x EXCEPT !.t13.server[3] = next]
    IN  Saved([c EXCEPT !.keys = [@ EXCEPT ![d] = s2n_tls13_derive_traffic_keys(c, next, KeyUse(c, d))]])

\* The PSK of a ticket: the resumption secret and the ticket's nonce.
s2n_tls13_derive_session_ticket_secret(c) ==
    s2n_hkdf_expand_label(c.prf, c.t13.res, "resumption", <<"nonce", 0>>)

=============================================================================
