---------------------------- MODULE KeyExchange ----------------------------
(***************************************************************************)
(* The key exchanges before TLS 1.3: tls/s2n_kex.c,                        *)
(* tls/s2n_server_key_exchange.c, tls/s2n_client_key_exchange.c and the    *)
(* parts of crypto/s2n_ecc_evp.c, crypto/s2n_dhe.c and tls/s2n_kem.c they  *)
(* use.  c.shared is the local blob shared_key of the client key handlers, *)
(* c.out the body of the message a handler writes.                         *)
(***************************************************************************)
EXTENDS Prf

\* A key pair is named by who made it, in which handshake and for what.
KeyId(c, tag) == <<c.mode, c.round, tag>>

(***************************************************************************)
(* Elliptic curves: s2n_ecc_evp_params is [curve, key]; the key is         *)
(* <<"pair", curve, id>> for one's own, <<"pub", curve, id>> for a peer's. *)
(* The point of a NIST curve is validated when it is parsed, an x25519     *)
(* point is any 32 bytes.                                                  *)
(***************************************************************************)
NoEcc == [curve |-> "", key |-> NULL]

Tampered == <<"?", 0, "?">>                  \* the id of a point nobody generated

Public(key) == <<"pub", key[2], key[3]>>

Shared(own, peer) == <<"dh", own[2], {own[3], peer[3]}>>

OnCurve(curve, pub) == curve = "x25519" \/ pub[3] # Tampered

s2n_ecc_evp_generate_ephemeral_key(c, p, tag) ==
    IF c[p].curve = "" \/ c[p].key # NULL THEN Fail(c, "S2N_ERR_ECDHE_GEN_KEY")
    ELSE [c EXCEPT ![p].key = <<"pair", c[p].curve, KeyId(c, tag)>>]

s2n_ecc_evp_write_params_point(params) == Public(params.key)

\* The public key of a peer, over the curve already negotiated.
s2n_ecc_evp_parse_params_point(c, p, pub) ==
    IF pub[2] # c[p].curve \/ ~OnCurve(c[p].curve, pub) THEN Fail(c, "S2N_ERR_BAD_MESSAGE")
    ELSE [c EXCEPT ![p].key = pub]

s2n_ecc_evp_compute_shared_secret_as_server(c, pub) ==
    IF c.ecc.key = NULL \/ ~OnCurve(c.ecc.curve, pub) THEN Fail(c, "S2N_ERR_BAD_MESSAGE")
    ELSE [c EXCEPT !.shared = Shared(c.ecc.key, pub)]

\* The client's own pair lives only for this call.
s2n_ecc_evp_compute_shared_secret_as_client(c) ==
    LET With(pair) == [c EXCEPT !.shared = Shared(pair, c.ecc.key), !.out = Public(pair)]
    IN  IF c.ecc.key = NULL THEN Fail(c, "S2N_ERR_ECDHE_SHARED_SECRET")
        ELSE With(<<"pair", c.ecc.curve, KeyId(c, "ecdhe")>>)

s2n_ecc_evp_params_free(params) == [params EXCEPT !.key = NULL]

(***************************************************************************)
(* Finite-field Diffie-Hellman: NULL, the config's parameters, or those    *)
(* with a key.  The config's prime has at least 2048 bits                  *)
(* (s2n_pkcs3_to_dh_params).                                               *)
(***************************************************************************)
s2n_dh_params_copy(c) == [c EXCEPT !.dh = <<"params">>]

s2n_dh_generate_ephemeral_key(c) ==
    IF c.dh = NULL THEN Fail(c, "S2N_ERR_DH_PARAMS_CREATE")
    ELSE [c EXCEPT !.dh = <<"pair", "p", KeyId(c, "dhe")>>]

s2n_dh_params_to_p_g_Ys(c) == [c EXCEPT !.out = Public(c.dh)]

s2n_dh_p_g_Ys_to_dh_params(c, pub) == [c EXCEPT !.dh = pub]

s2n_dh_compute_shared_secret_as_client(c) ==
    LET With(pair) == [c EXCEPT !.shared = Shared(pair, c.dh), !.out = Public(pair)]
    IN  IF c.dh = NULL THEN Fail(c, "S2N_ERR_DH_PARAMS_CREATE")
        ELSE With(<<"pair", "p", KeyId(c, "dhe")>>)

s2n_dh_compute_shared_secret_as_server(c, pub) ==
    IF c.dh = NULL THEN Fail(c, "S2N_ERR_DH_PARAMS_CREATE")
    ELSE [c EXCEPT !.shared = Shared(c.dh, pub)]

s2n_dh_params_free(c) == [c EXCEPT !.dh = NULL]

(***************************************************************************)
(* KEMs: s2n_kem_params is [kem, pub, priv, secret].                       *)
(***************************************************************************)
NoKem == [kem |-> "", pub |-> NULL, priv |-> NULL, secret |-> NULL]

s2n_kem_generate_keypair(c, p) ==
    IF c[p].kem = "" THEN Fail(c, "NULL kem")
    ELSE [c EXCEPT ![p].pub = <<"kem pub", c[p].kem, KeyId(c, "kem")>>,
                   ![p].priv = <<"kem priv", c[p].kem, KeyId(c, "kem")>>]

\* The public key is generated in the message, and the pointer to it dropped.
s2n_kem_send_public_key(c, p) ==
    LET Sent(d) == [d EXCEPT !.out = d[p].pub, ![p].pub = NULL]
    IN  Then(s2n_kem_generate_keypair(c, p), Sent)

s2n_kem_recv_public_key(c, p, pub) ==
    IF pub[2] # c[p].kem THEN Fail(c, "S2N_ERR_BAD_MESSAGE") ELSE [c EXCEPT ![p].pub = pub]

\* The secret a sender makes for a public key, inside its ciphertext.
s2n_kem_encapsulate(c, p) == <<"kem secret", c[p].pub, KeyId(c, "kem")>>

s2n_kem_send_ciphertext(c, p) ==
    IF c[p].kem = "" \/ c[p].pub = NULL THEN Fail(c, "NULL public key")
    ELSE [c EXCEPT ![p].secret = s2n_kem_encapsulate(c, p),
                   !.out = <<"ct", c[p].kem, s2n_kem_encapsulate(c, p)>>]

\* Decapsulation never fails: a ciphertext of another key gives another secret.
s2n_kem_decapsulate(c, p, ct) ==
    IF ct[3][2][3] = c[p].priv[3] THEN ct[3] ELSE <<"kem reject", c[p].priv, ct>>

s2n_kem_recv_ciphertext(c, p, ct) ==
    IF c[p].kem = "" \/ c[p].priv = NULL THEN Fail(c, "NULL private key")
    ELSE IF ct[2] # c[p].kem THEN Fail(c, "S2N_ERR_BAD_MESSAGE")
    ELSE [c EXCEPT ![p].secret = s2n_kem_decapsulate(c, p, ct)]

s2n_kem_free(p) == [p EXCEPT !.pub = NULL, !.priv = NULL, !.secret = NULL]

(***************************************************************************)
(* The ServerKeyExchange message: the parameters and a signature over the  *)
(* randoms and them.                                                       *)
(***************************************************************************)
s2n_kex_is_ephemeral(kex) == kex # "rsa"

s2n_kex_server_key_send(c) ==
    LET Ecdhe(d) == [d EXCEPT !.out = <<"ecdhe", d.ecc.curve,
                                        s2n_ecc_evp_write_params_point(d.ecc)>>]
        Params(d) == [d EXCEPT !.out = <<"dhe", "p", @>>]
        Kem(d) == s2n_kem_send_public_key([d EXCEPT !.saved = d.out], "kem")
        Both(d) == [d EXCEPT !.out = <<"hybrid", d.saved, d.out>>, !.saved = NULL]
    IN  CASE c.kex = "dhe" ->
                 Then(Then(s2n_dh_generate_ephemeral_key(s2n_dh_params_copy(c)),
                           s2n_dh_params_to_p_g_Ys), Params)
          [] c.kex = "ecdhe" ->
                 Then(s2n_ecc_evp_generate_ephemeral_key(c, "ecc", "ecdhe"), Ecdhe)
          [] c.kex = "hybrid" ->
                 Then(Then(Then(s2n_ecc_evp_generate_ephemeral_key(c, "ecc", "ecdhe"), Ecdhe),
                           Kem), Both)
          [] OTHER -> Fail(c, "NULL server_key_send")

ServerKeySignature(c, params) ==
    <<"sig", IF c.version < S2N_TLS12 THEN "md5_sha1" ELSE c.sig_hash,
      <<c.client_random, c.server_random, params>>>>

s2n_server_key_send(c) ==
    LET Signed(d) == [d EXCEPT !.out = <<"server key", d.out, ServerKeySignature(d, d.out)>>]
    IN  IF c.hashes = << >> THEN Fail(c, "NULL hashes") ELSE Then(s2n_kex_server_key_send(c), Signed)

\* Only a KEM and its public key are stored while the message is read.
s2n_kex_server_key_recv_read_data(c, params) ==
    IF c.kex = "hybrid"
    THEN s2n_kem_recv_public_key([c EXCEPT !.kem.kem = params[3][2]], "kem", params[3])
    ELSE c

s2n_kex_server_key_recv_parse_data(c, params) ==
    LET Ecdhe(d, ps) == s2n_ecc_evp_parse_params_point([d EXCEPT !.ecc.curve = ps[2]], "ecc", ps[3])
    IN  CASE c.kex = "dhe"    -> s2n_dh_p_g_Ys_to_dh_params(c, params[3])
          [] c.kex = "ecdhe"  -> Ecdhe(c, params)
          [] c.kex = "hybrid" -> Ecdhe(c, params[2])
          [] OTHER -> Fail(c, "NULL server_key_recv_parse_data")

s2n_server_key_recv(c, body) ==
    LET Verify(d) == IF body[3] # ServerKeySignature(d, body[2]) \/ d.pubkey = NULL
                     THEN Fail(d, "S2N_ERR_BAD_MESSAGE")
                     ELSE [d EXCEPT !.pubkey = NULL]
        Parse(d) == s2n_kex_server_key_recv_parse_data(d, body[2])
    IN  Then(Then(s2n_kex_server_key_recv_read_data(c, body[2]), Verify), Parse)

(***************************************************************************)
(* The ClientKeyExchange message.                                          *)
(***************************************************************************)
\* RSA: 48 random bytes whose first two are the version of the ClientHello.
s2n_rsa_client_key_send(c) ==
    LET With(premaster) ==
            [c EXCEPT !.premaster = premaster, !.shared = premaster,
                      !.out = <<"enc", c.pubkey, premaster>>, !.pubkey = NULL]
    IN  IF c.pubkey = NULL THEN Fail(c, "NULL server_public_key")
        ELSE With(<<"premaster", c.hello_version, KeyId(c, "rsa")>>)

\* The server starts from a random secret and keeps it when the decryption fails.
s2n_rsa_client_key_recv(c, ct) ==
    LET ok == ct[1] = "enc" /\ ct[2] = <<"cert key">>
        Got(premaster, failed) ==
            [c EXCEPT !.premaster = premaster, !.shared = premaster,
                      !.rsa_failed = failed \/ premaster[2] # c.hello_version]
    IN  IF ok THEN Got(ct[3], FALSE)
        ELSE Got(<<"premaster", c.hello_version, KeyId(c, "rsa")>>, TRUE)

s2n_dhe_client_key_send(c)      == Then(s2n_dh_compute_shared_secret_as_client(c), s2n_dh_params_free)
s2n_dhe_client_key_recv(c, pub) == Then(s2n_dh_compute_shared_secret_as_server(c, pub), s2n_dh_params_free)

FreeEcc(c) == [c EXCEPT !.ecc = s2n_ecc_evp_params_free(@)]

s2n_ecdhe_client_key_send(c) == Then(s2n_ecc_evp_compute_shared_secret_as_client(c), FreeEcc)
s2n_ecdhe_client_key_recv(c, pub) == Then(s2n_ecc_evp_compute_shared_secret_as_server(c, pub), FreeEcc)

\* Both halves, their secrets joined, and the message kept for the PRF.
Combine(c, message) ==
    [c EXCEPT !.shared = <<"both", c.shared, c.kem.secret>>,
              !.client_key_exchange_message = message, !.kem = s2n_kem_free(@)]

s2n_hybrid_client_key_send(c) ==
    LET Kem(d) == s2n_kem_send_ciphertext([d EXCEPT !.saved = d.out], "kem")
        Join(d) == Combine([d EXCEPT !.out = <<"hybrid", d.saved, d.out>>, !.saved = NULL],
                           <<"hybrid", d.saved, d.out>>)
    IN  Then(Then(s2n_ecdhe_client_key_send(c), Kem), Join)

s2n_hybrid_client_key_recv(c, message) ==
    LET Kem(d) == s2n_kem_recv_ciphertext(d, "kem", message[3])
        Join(d) == Combine(d, message)
    IN  Then(Then(s2n_ecdhe_client_key_recv(c, message[2]), Kem), Join)

\* The PRF of the key exchange: the hybrid one knows no extended master secret.
s2n_kex_tls_prf(c, message) ==
    IF c.kex = "hybrid" THEN s2n_hybrid_prf_master_secret(c, c.shared)
    ELSE s2n_prf_calculate_master_secret(c, c.shared, message)

\* The session is stored under its id when the connection may be cached.
s2n_store_to_cache(c) ==
    IF c.mode = "S" /\ c.cache THEN [c EXCEPT !.stored = c.master] ELSE c

s2n_calculate_keys(c, message) ==
    LET Log(d) == LET e == s2n_key_log_tls12_secret(d) IN IF e.err = "" THEN e ELSE d
    IN  Then(Then(Then(s2n_kex_tls_prf(c, message), s2n_prf_key_expansion), s2n_store_to_cache), Log)

\* shared_key is zeroed on every way out; for RSA it is the connection's buffer.
Zeroize(c) == [c EXCEPT !.shared = NULL, !.premaster = IF @ = NULL THEN NULL ELSE ZERO]

s2n_client_key_send(c) ==
    LET Keys(d) == s2n_calculate_keys(d, <<"CLIENT_KEY", d.out>>)
    IN  Zeroize(Then(CASE c.kex = "rsa"   -> s2n_rsa_client_key_send(c)
                       [] c.kex = "dhe"   -> s2n_dhe_client_key_send(c)
                       [] c.kex = "ecdhe" -> s2n_ecdhe_client_key_send(c)
                       [] OTHER           -> s2n_hybrid_client_key_send(c), Keys))

s2n_client_key_recv(c, body) ==
    LET Keys(d) == s2n_calculate_keys(d, <<"CLIENT_KEY", body>>)
    IN  Zeroize(Then(CASE c.kex = "rsa"   -> s2n_rsa_client_key_recv(c, body)
                       [] c.kex = "dhe"   -> s2n_dhe_client_key_recv(c, body)
                       [] c.kex = "ecdhe" -> s2n_ecdhe_client_key_recv(c, body)
                       [] OTHER           -> s2n_hybrid_client_key_recv(c, body), Keys))

=============================================================================
