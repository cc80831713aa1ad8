-------------------------------- MODULE Prf --------------------------------
(***************************************************************************)
(* The secrets of one connection before TLS 1.3: the handshake hashes      *)
(* (tls/s2n_handshake_hashes.c, tls/s2n_handshake_transcript.c and the     *)
(* hash part of tls/s2n_handshake.c), the pseudo-random function           *)
(* (tls/s2n_prf.c), the Finished and ChangeCipherSpec handlers, and the    *)
(* key log (tls/s2n_key_log.c).                                            *)
(*                                                                         *)
(* Cryptography is symbolic: a value is a term, a tuple that starts with   *)
(* the function that made it, and two values are equal when their terms    *)
(* are.  Operators take the connection c, a record, and return it changed; *)
(* c.err names the first error, and Then does nothing after one.           *)
(***************************************************************************)
EXTENDS HandshakeTypes

S2N_SSLv3 == 30
S2N_TLS10 == 31
S2N_TLS11 == 32

NULL == <<"NULL">>
ZERO == <<"ZERO">>                         \* a zeroed or all-zero secret

Fail(c, e) == [c EXCEPT !.err = e]
Then(c, Op(_)) == IF c.err = "" THEN Op(c) ELSE c
Ensure(c, b, e) == IF c.err = "" /\ ~b THEN Fail(c, e) ELSE c

(***************************************************************************)
(* The handshake hashes: one running hash per algorithm, each the sequence *)
(* of what it was fed.  c.hashes is << >> once freed.                      *)
(***************************************************************************)
HashAlg == {"md5", "sha1", "md5_sha1", "sha224", "sha256", "sha384", "sha512"}

s2n_handshake_hashes_new == [a \in HashAlg |-> << >>]

s2n_handshake_hashes_wipe(c) ==
    IF c.hashes = << >> THEN Fail(c, "NULL hashes")
    ELSE [c EXCEPT !.hashes = [a \in HashAlg |-> << >>]]

s2n_handshake_hashes_free(c) == [c EXCEPT !.hashes = << >>]

s2n_handshake_require_all_hashes(c) == [c EXCEPT !.required = HashAlg]

s2n_handshake_is_hash_required(c, alg) == alg \in c.required

\* message_type_t is ordered: the enumerators below CLIENT_CERT_VERIFY at
\* which the required hashes are ever reconsidered.
BeforeCertVerify == {"CLIENT_HELLO", "SERVER_HELLO"}

s2n_conn_update_required_handshake_hashes(c) ==
    IF c.auth # "NONE" /\ c.msg \in BeforeCertVerify
    THEN s2n_handshake_require_all_hashes(c)
    ELSE [c EXCEPT !.required = IF c.version < S2N_TLS12 THEN {"md5", "sha1"} ELSE {c.prf}]

\* The hashes one message is added to: md5_sha1 follows md5 and sha1.
Fed(c) == {a \in HashAlg \ {"md5_sha1"} : s2n_handshake_is_hash_required(c, a)}
          \cup (IF {"md5", "sha1"} \subseteq c.required THEN {"md5_sha1"} ELSE {})

s2n_conn_update_handshake_hashes(c, data) ==
    IF c.hashes = << >> THEN Fail(c, "NULL hashes")
    ELSE [c EXCEPT !.hashes = [a \in HashAlg |-> IF a \in Fed(c) THEN Append(@[a], data)
                                                                 ELSE @[a]]]

\* A digest of a copy of the running hash; the hash goes on.
s2n_handshake_copy_hash_state(c, alg) == <<"hash", alg, c.hashes[alg]>>

s2n_handshake_reset_hash_state(c, alg) == [c EXCEPT !.hashes[alg] = << >>]

s2n_server_hello_retry_recreate_transcript(c) ==
    LET Recreate(hello1) ==
            LET Header(d) == s2n_conn_update_handshake_hashes(d, <<"message_hash">>)
                Digest(d) == s2n_conn_update_handshake_hashes(d, hello1)
            IN  Then(Header(s2n_handshake_reset_hash_state(c, c.prf)), Digest)
    IN  IF c.hashes = << >> THEN Fail(c, "NULL hashes")
        ELSE Recreate(s2n_handshake_copy_hash_state(c, c.prf))

(***************************************************************************)
(* The PRF workspace.  c.ws is "absent", "ready" or holds the key of the   *)
(* last HMAC: s2n_hmac_reset keeps the key blocks, so the internal         *)
(* implementation is left keyed, while the EVP ones of FIPS mode are       *)
(* emptied by their cleanup.                                               *)
(***************************************************************************)
s2n_get_hmac_implementation(c) == IF c.fips THEN "evp" ELSE "internal"

s2n_prf_new(c) == IF c.ws # NULL THEN Fail(c, "prf_space") ELSE [c EXCEPT !.ws = <<"ready">>]

s2n_prf_wipe(c) == IF c.ws = NULL THEN Fail(c, "NULL prf_space") ELSE c

s2n_prf_free(c) == [c EXCEPT !.ws = NULL]

s2n_hmac_cleanup(c, secret) ==
    IF s2n_get_hmac_implementation(c) = "evp" THEN [c EXCEPT !.ws = <<"ready">>]
    ELSE [c EXCEPT !.ws = <<"keyed", secret>>]

(***************************************************************************)
(* Output blobs are sets of streams: p_hash xors its stream into what the  *)
(* blob holds, and a zeroed blob is the empty set.                         *)
(***************************************************************************)
Xor(out, stream) == (out \cup {stream}) \ (out \cap {stream})

s2n_p_hash(out, alg, secret, label, seeds) == Xor(out, <<"p_hash", alg, secret, label, seeds>>)

\* Labels are not part of the SSLv3 construction.
s2n_sslv3_prf(secret, seeds) == {<<"sslv3", secret, seeds>>}

s2n_prf(c, secret, label, seeds) ==
    CASE c.version = S2N_SSLv3 -> s2n_sslv3_prf(secret, seeds)
      [] c.version = S2N_TLS12 -> s2n_p_hash({}, c.prf, secret, label, seeds)
      [] OTHER -> s2n_p_hash(s2n_p_hash({}, "md5", <<"half", 1, secret>>, label, seeds),
                             "sha1", <<"half", 2, secret>>, label, seeds)

\* The effect of s2n_prf on the connection: none without a workspace.
PrfRan(c, secret) ==
    IF c.ws = NULL THEN Fail(c, "NULL prf_space")
    ELSE IF c.version = S2N_SSLv3 THEN c ELSE s2n_hmac_cleanup(c, secret)

SetMaster(c, premaster, label, seeds) ==
    PrfRan([c EXCEPT !.master = <<"master", s2n_prf(c, premaster, label, seeds)>>], premaster)

s2n_tls_prf_master_secret(c, premaster) ==
    SetMaster(c, premaster, "master secret", <<c.client_random, c.server_random>>)

s2n_hybrid_prf_master_secret(c, premaster) ==
    SetMaster(c, premaster, "hybrid master secret",
              <<c.client_random, c.server_random, c.client_key_exchange_message>>)

\* The digest of the handshake with the ClientKeyExchange message included.
s2n_prf_get_digest_for_ems(c, message, alg) ==
    <<"hash", alg, Append(c.hashes[alg], message)>>

s2n_tls_prf_extended_master_secret(c, premaster, digests) ==
    SetMaster(c, premaster, "extended master secret", digests)

s2n_prf_calculate_master_secret(c, premaster, message) ==
    IF c.msg # "CLIENT_KEY" THEN Fail(c, "not CLIENT_KEY")
    ELSE IF ~c.ems THEN s2n_tls_prf_master_secret(c, premaster)
    ELSE IF c.hashes = << >> THEN Fail(c, "NULL hashes")
    ELSE s2n_tls_prf_extended_master_secret(c, premaster,
             IF c.version < S2N_TLS12
             THEN <<s2n_prf_get_digest_for_ems(c, message, "md5"),
                    s2n_prf_get_digest_for_ems(c, message, "sha1")>>
             ELSE <<s2n_prf_get_digest_for_ems(c, message, c.prf)>>)

(***************************************************************************)
(* The Finished messages.                                                  *)
(***************************************************************************)
s2n_sslv3_finished(c, prefix) ==
    <<"sslv3 finished", prefix, c.master, s2n_handshake_copy_hash_state(c, "md5"),
      s2n_handshake_copy_hash_state(c, "sha1")>>

FinishedValue(c, prefix, label) ==
    IF c.version = S2N_SSLv3 THEN s2n_sslv3_finished(c, prefix)
    ELSE <<"finished", s2n_prf(c, c.master, label,
             IF c.version = S2N_TLS12 THEN <<s2n_handshake_copy_hash_state(c, c.prf)>>
             ELSE <<s2n_handshake_copy_hash_state(c, "md5"),
                    s2n_handshake_copy_hash_state(c, "sha1")>>)>>

s2n_prf_client_finished(c) ==
    IF c.hashes = << >> THEN Fail(c, "NULL hashes")
    ELSE PrfRan([c EXCEPT !.client_finished = FinishedValue(c, "CLNT", "client finished")],
                c.master)

s2n_prf_server_finished(c) ==
    IF c.hashes = << >> THEN Fail(c, "NULL hashes")
    ELSE PrfRan([c EXCEPT !.server_finished = FinishedValue(c, "SRVR", "server finished")],
                c.master)

(***************************************************************************)
(* Key expansion.  The key block is cut up in order; every part is the     *)
(* slice of the block between two offsets.  Keys are per direction:        *)
(* "client" for what the client writes.                                    *)
(***************************************************************************)
S2N_MAX_KEY_BLOCK_LEN == 160

Direction == {"client", "server"}

\* The record algorithms: type, key_material_size, MAC key size and the size
\* of the implicit IV (fixed_iv_size or block_size).
RecordAlg ==
    [aead      |-> [type |-> "S2N_AEAD",      key |-> 16, mac |-> 0,  iv |-> 4],
     chacha    |-> [type |-> "S2N_AEAD",      key |-> 32, mac |-> 0,  iv |-> 12],
     cbc       |-> [type |-> "S2N_CBC",       key |-> 16, mac |-> 20, iv |-> 16],
     cbc384    |-> [type |-> "S2N_CBC",       key |-> 32, mac |-> 48, iv |-> 16],
     composite |-> [type |-> "S2N_COMPOSITE", key |-> 16, mac |-> 20, iv |-> 16],
     stream    |-> [type |-> "S2N_STREAM",    key |-> 16, mac |-> 16, iv |-> 0]]

NoKeys == [key |-> NULL, use |-> "", mac |-> NULL, comac |-> NULL, iv |-> NULL]

Owner(d) == IF d = "client" THEN "C" ELSE "S"

\* set_encryption_key at the side that writes, set_decryption_key at the other.
KeyUse(c, d) == IF c.mode = Owner(d) THEN "encrypt" ELSE "decrypt"

HasImplicitIv(c) == ~(c.version > S2N_TLS10 /\ RecordAlg[c.cipher].type # "S2N_AEAD")

KeyBlockUsed(c) ==
    2 * (RecordAlg[c.cipher].mac + RecordAlg[c.cipher].key
         + IF HasImplicitIv(c) THEN RecordAlg[c.cipher].iv ELSE 0)

\* The slices of the block one direction gets (i is 0 for the client's).
s2n_prf_make_key(c, block, d, i) ==
    LET r == RecordAlg[c.cipher]
        Slice(from, size) == <<"slice", block, from, size>>
        mac == Slice(i * r.mac, r.mac)
    IN  [key   |-> Slice(2 * r.mac + i * r.key, r.key),
         use   |-> KeyUse(c, d),
         mac   |-> mac,
         comac |-> IF r.type = "S2N_COMPOSITE" THEN mac ELSE NULL,
         iv    |-> IF HasImplicitIv(c) THEN Slice(2 * r.mac + 2 * r.key + i * r.iv, r.iv)
                   ELSE c.keys[d].iv]

s2n_prf_key_expansion(c) ==
    LET Cut(block) ==
            PrfRan([c EXCEPT !.keys = [client |-> s2n_prf_make_key(c, block, "client", 0),
                                       server |-> s2n_prf_make_key(c, block, "server", 1)]],
                   c.master)
    IN  IF KeyBlockUsed(c) > S2N_MAX_KEY_BLOCK_LEN THEN Fail(c, "key block")
        ELSE Cut(s2n_prf(c, c.master, "key expansion", <<c.server_random, c.client_random>>))

(***************************************************************************)
(* The key log.  A line is the label, the client random and the secret;    *)
(* the buffer is sized by a uint8_t, and nothing is logged without a       *)
(* callback.                                                               *)
(***************************************************************************)
Hex(n) == 2 * n

LabelSize == [x \in {"CLIENT_EARLY_TRAFFIC_SECRET ", "CLIENT_HANDSHAKE_TRAFFIC_SECRET ",
                     "SERVER_HANDSHAKE_TRAFFIC_SECRET ", "CLIENT_TRAFFIC_SECRET_0 ",
                     "SERVER_TRAFFIC_SECRET_0 ", "CLIENT_RANDOM "} |->
              CASE x = "CLIENT_EARLY_TRAFFIC_SECRET " -> 28
                [] x \in {"CLIENT_HANDSHAKE_TRAFFIC_SECRET ",
                          "SERVER_HANDSHAKE_TRAFFIC_SECRET "} -> 32
                [] x = "CLIENT_RANDOM " -> 14
                [] OTHER -> 24]

\* The bytes of a line: label, hex random, space, hex secret.
s2n_key_log_line_size(label, secret_size) ==
    LabelSize[label] + Hex(32) + 1 + Hex(secret_size)

s2n_key_log(c, label, secret, secret_size) ==
    IF ~c.key_log THEN c
    ELSE IF s2n_key_log_line_size(label, secret_size) > 255 THEN Fail(c, "key log line")
    ELSE [c EXCEPT !.log = @ \cup {<<label, c.client_random, secret>>}]

s2n_key_log_tls12_secret(c) == s2n_key_log(c, "CLIENT_RANDOM ", c.master, 48)

(***************************************************************************)
(* The ChangeCipherSpec and Finished handlers before TLS 1.3.  c.use says  *)
(* for each direction which crypto parameters conn->client and             *)
(* conn->server point at.                                                  *)
(***************************************************************************)
s2n_client_ccs_recv(c) ==
    LET Switch(d) == [d EXCEPT !.use.client = "secure"]
    IN  Then(s2n_prf_client_finished(c), Switch)

s2n_server_ccs_recv(c) ==
    LET Switch(d) == [d EXCEPT !.use.server = "secure"]
    IN  Then(s2n_prf_server_finished(c), Switch)

s2n_client_finished_send(c) ==
    LET Switch(d) == [d EXCEPT !.use.client = "secure", !.out = d.client_finished]
    IN  Then(s2n_prf_client_finished(c), Switch)

s2n_client_finished_recv(c, theirs) ==
    IF c.client_finished # theirs \/ c.rsa_failed THEN Fail(c, "S2N_ERR_BAD_MESSAGE") ELSE c

s2n_server_finished_send(c) ==
    LET Switch(d) == [d EXCEPT !.use.server = "secure", !.out = d.server_finished]
        Expand(d) == IF d.resumed THEN s2n_prf_key_expansion(d) ELSE d
    IN  Then(Then(s2n_prf_server_finished(c), Switch), Expand)

s2n_server_finished_recv(c, theirs) ==
    IF c.server_finished # theirs THEN Fail(c, "S2N_ERR_BAD_MESSAGE") ELSE c

\* The transcript hash a client signs: the default scheme of the versions
\* before TLS 1.2 is md5_sha1.
CertVerifyHash(c) == IF c.version < S2N_TLS12 THEN "md5_sha1" ELSE c.sig_hash

s2n_client_cert_verify_send(c) ==
    IF c.hashes = << >> THEN Fail(c, "NULL hashes")
    ELSE s2n_conn_update_required_handshake_hashes(
             [c EXCEPT !.out = <<"sig", s2n_handshake_copy_hash_state(c, CertVerifyHash(c))>>])

s2n_client_cert_verify_recv(c, theirs) ==
    IF c.hashes = << >> THEN Fail(c, "NULL hashes")
    ELSE IF theirs # <<"sig", s2n_handshake_copy_hash_state(c, CertVerifyHash(c))>>
    THEN Fail(c, "S2N_ERR_VERIFY_SIGNATURE")
    ELSE s2n_conn_update_required_handshake_hashes(c)

=============================================================================
