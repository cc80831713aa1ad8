------------------------------ MODULE CipherSuites ------------------------------
(***************************************************************************)
(* The tables of s2n-tls: record algorithms and cipher suites               *)
(* (tls/s2n_cipher_suites.c) and the preference lists of cipher suites      *)
(* (tls/s2n_cipher_preferences.c).  A suite is named as in the source,      *)
(* without the prefix "s2n_"; a list keeps the name of its preferences.     *)
(* Protocol versions are the numbers of the source: S2N_TLS13 is 34.        *)
(***************************************************************************)
EXTENDS Naturals, Sequences, TLC

S2N_SSLv3 == 30
S2N_TLS10 == 31
S2N_TLS11 == 32
S2N_TLS12 == 33
S2N_TLS13 == 34
NULL == "NULL"

\* A record algorithm: the cipher, the MAC beside it, how its AEAD nonce is built.
RecordAlg(cipher, hmac, nonce) == [cipher |-> cipher, hmac_alg |-> hmac, nonce |-> nonce]

RecordAlgsLegacy ==
    "null" :> RecordAlg("null_cipher", "NONE", "none")
 @@ "rc4_md5" :> RecordAlg("rc4", "MD5", "none")
 @@ "rc4_sslv3_md5" :> RecordAlg("rc4", "SSLv3_MD5", "none")
 @@ "rc4_sha" :> RecordAlg("rc4", "SHA1", "none")
 @@ "rc4_sslv3_sha" :> RecordAlg("rc4", "SSLv3_SHA1", "none")
 @@ "3des_sha" :> RecordAlg("3des", "SHA1", "none")
 @@ "3des_sslv3_sha" :> RecordAlg("3des", "SSLv3_SHA1", "none")
 @@ "aes128_sha" :> RecordAlg("aes128", "SHA1", "none")
 @@ "aes128_sslv3_sha" :> RecordAlg("aes128", "SSLv3_SHA1", "none")
 @@ "aes128_sha_composite" :> RecordAlg("aes128_sha", "NONE", "none")
 @@ "aes128_sha256" :> RecordAlg("aes128", "SHA256", "none")
 @@ "aes128_sha256_composite" :> RecordAlg("aes128_sha256", "NONE", "none")

RecordAlgsModern ==
    "aes256_sha" :> RecordAlg("aes256", "SHA1", "none")
 @@ "aes256_sslv3_sha" :> RecordAlg("aes256", "SSLv3_SHA1", "none")
 @@ "aes256_sha_composite" :> RecordAlg("aes256_sha", "NONE", "none")
 @@ "aes256_sha256" :> RecordAlg("aes256", "SHA256", "none")
 @@ "aes256_sha256_composite" :> RecordAlg("aes256_sha256", "NONE", "none")
 @@ "aes256_sha384" :> RecordAlg("aes256", "SHA384", "none")
 @@ "aes128_gcm" :> RecordAlg("aes128_gcm", "NONE", "gcm12")
 @@ "aes256_gcm" :> RecordAlg("aes256_gcm", "NONE", "gcm12")
 @@ "chacha20_poly1305" :> RecordAlg("chacha20_poly1305", "NONE", "chacha12")
 @@ "tls13_aes128_gcm" :> RecordAlg("tls13_aes128_gcm", "NONE", "tls13")
 @@ "tls13_aes256_gcm" :> RecordAlg("tls13_aes256_gcm", "NONE", "tls13")
 @@ "tls13_chacha20_poly1305" :> RecordAlg("chacha20_poly1305", "NONE", "tls13")

RecordAlgs == RecordAlgsLegacy @@ RecordAlgsModern

\* Of the two AES-GCM algorithms of TLS 1.3 the number of records under one key is limited.
S2N_TLS13_AES_GCM_MAXIMUM_RECORD_NUMBER == 23726565
encryption_limit == [a \in {"tls13_aes128_gcm", "tls13_aes256_gcm"} |-> S2N_TLS13_AES_GCM_MAXIMUM_RECORD_NUMBER]

\* A cipher suite: key exchange, authentication, PRF hash, first version, record algorithms by priority, and
\* the algorithm SSLv3 uses instead.  TLS 1.3 suites have neither key exchange nor authentication method.
Suite(kex, auth, prf, min, algs, sslv3) ==
    [key_exchange_alg |-> kex, auth_method |-> auth, prf_alg |-> prf, minimum_required_tls_version |-> min,
     all_record_algs |-> algs, sslv3_record_alg |-> sslv3]

Suites1 ==
    "rsa_with_rc4_128_md5" :> Suite("rsa", "RSA", "SHA256", S2N_SSLv3, <<"rc4_md5">>, "rc4_sslv3_md5")
 @@ "rsa_with_rc4_128_sha" :> Suite("rsa", "RSA", "SHA256", S2N_SSLv3, <<"rc4_sha">>, "rc4_sslv3_sha")
 @@ "rsa_with_3des_ede_cbc_sha" :> Suite("rsa", "RSA", "SHA256", S2N_SSLv3, <<"3des_sha">>, "3des_sslv3_sha")
 @@ "dhe_rsa_with_3des_ede_cbc_sha" :>
        Suite("dhe", "RSA", "SHA256", S2N_SSLv3, <<"3des_sha">>, "3des_sslv3_sha")
 @@ "rsa_with_aes_128_cbc_sha" :>
        Suite("rsa", "RSA", "SHA256", S2N_SSLv3, <<"aes128_sha_composite", "aes128_sha">>, "aes128_sslv3_sha")
 @@ "dhe_rsa_with_aes_128_cbc_sha" :>
        Suite("dhe", "RSA", "SHA256", S2N_SSLv3, <<"aes128_sha_composite", "aes128_sha">>, "aes128_sslv3_sha")
 @@ "rsa_with_aes_256_cbc_sha" :>
        Suite("rsa", "RSA", "SHA256", S2N_SSLv3, <<"aes256_sha_composite", "aes256_sha">>, "aes256_sslv3_sha")
 @@ "dhe_rsa_with_aes_256_cbc_sha" :>
        Suite("dhe", "RSA", "SHA256", S2N_SSLv3, <<"aes256_sha_composite", "aes256_sha">>, "aes256_sslv3_sha")
 @@ "rsa_with_aes_128_cbc_sha256" :>
        Suite("rsa", "RSA", "SHA256", S2N_TLS12, <<"aes128_sha256_composite", "aes128_sha256">>, NULL)
 @@ "rsa_with_aes_256_cbc_sha256" :>
        Suite("rsa", "RSA", "SHA256", S2N_TLS12, <<"aes256_sha256_composite", "aes256_sha256">>, NULL)

Suites2 ==
    "dhe_rsa_with_aes_128_cbc_sha256" :>
        Suite("dhe", "RSA", "SHA256", S2N_TLS12, <<"aes128_sha256_composite", "aes128_sha256">>, NULL)
 @@ "dhe_rsa_with_aes_256_cbc_sha256" :>
        Suite("dhe", "RSA", "SHA256", S2N_TLS12, <<"aes256_sha256_composite", "aes256_sha256">>, NULL)
 @@ "rsa_with_aes_128_gcm_sha256" :> Suite("rsa", "RSA", "SHA256", S2N_TLS12, <<"aes128_gcm">>, NULL)
 @@ "rsa_with_aes_256_gcm_sha384" :> Suite("rsa", "RSA", "SHA384", S2N_TLS12, <<"aes256_gcm">>, NULL)
 @@ "dhe_rsa_with_aes_128_gcm_sha256" :> Suite("dhe", "RSA", "SHA256", S2N_TLS12, <<"aes128_gcm">>, NULL)
 @@ "dhe_rsa_with_aes_256_gcm_sha384" :> Suite("dhe", "RSA", "SHA384", S2N_TLS12, <<"aes256_gcm">>, NULL)
 @@ "ecdhe_ecdsa_with_aes_128_cbc_sha" :>
        Suite("ecdhe", "ECDSA", "SHA256", S2N_SSLv3, <<"aes128_sha_composite", "aes128_sha">>, "aes128_sslv3_sha")
 @@ "ecdhe_ecdsa_with_aes_256_cbc_sha" :>
        Suite("ecdhe", "ECDSA", "SHA256", S2N_SSLv3, <<"aes256_sha_composite", "aes256_sha">>, "aes256_sslv3_sha")
 @@ "ecdhe_rsa_with_rc4_128_sha" :> Suite("ecdhe", "RSA", "SHA256", S2N_SSLv3, <<"rc4_sha">>, "rc4_sslv3_sha")
 @@ "ecdhe_rsa_with_3des_ede_cbc_sha" :>
        Suite("ecdhe", "RSA", "SHA256", S2N_SSLv3, <<"3des_sha">>, "3des_sslv3_sha")

Suites3 ==
    "ecdhe_rsa_with_aes_128_cbc_sha" :>
        Suite("ecdhe", "RSA", "SHA256", S2N_SSLv3, <<"aes128_sha_composite", "aes128_sha">>, "aes128_sslv3_sha")
 @@ "ecdhe_rsa_with_aes_256_cbc_sha" :>
        Suite("ecdhe", "RSA", "SHA256", S2N_SSLv3, <<"aes256_sha_composite", "aes256_sha">>, "aes256_sslv3_sha")
 @@ "ecdhe_ecdsa_with_aes_128_cbc_sha256" :>
        Suite("ecdhe", "ECDSA", "SHA256", S2N_TLS12, <<"aes128_sha256_composite", "aes128_sha256">>, NULL)
 @@ "ecdhe_ecdsa_with_aes_256_cbc_sha384" :>
        Suite("ecdhe", "ECDSA", "SHA384", S2N_TLS12, <<"aes256_sha384">>, NULL)
 @@ "ecdhe_rsa_with_aes_128_cbc_sha256" :>
        Suite("ecdhe", "RSA", "SHA256", S2N_TLS12, <<"aes128_sha256_composite", "aes128_sha256">>, NULL)
 @@ "ecdhe_rsa_with_aes_256_cbc_sha384" :> Suite("ecdhe", "RSA", "SHA384", S2N_TLS12, <<"aes256_sha384">>, NULL)
 @@ "ecdhe_ecdsa_with_aes_128_gcm_sha256" :>
        Suite("ecdhe", "ECDSA", "SHA256", S2N_TLS12, <<"aes128_gcm">>, NULL)
 @@ "ecdhe_ecdsa_with_aes_256_gcm_sha384" :>
        Suite("ecdhe", "ECDSA", "SHA384", S2N_TLS12, <<"aes256_gcm">>, NULL)
 @@ "ecdhe_rsa_with_aes_128_gcm_sha256" :> Suite("ecdhe", "RSA", "SHA256", S2N_TLS12, <<"aes128_gcm">>, NULL)
 @@ "ecdhe_rsa_with_aes_256_gcm_sha384" :> Suite("ecdhe", "RSA", "SHA384", S2N_TLS12, <<"aes256_gcm">>, NULL)

Suites4 ==
    "ecdhe_rsa_with_chacha20_poly1305_sha256" :>
        Suite("ecdhe", "RSA", "SHA256", S2N_TLS12, <<"chacha20_poly1305">>, NULL)
 @@ "ecdhe_ecdsa_with_chacha20_poly1305_sha256" :>
        Suite("ecdhe", "ECDSA", "SHA256", S2N_TLS12, <<"chacha20_poly1305">>, NULL)
 @@ "dhe_rsa_with_chacha20_poly1305_sha256" :>
        Suite("dhe", "RSA", "SHA256", S2N_TLS12, <<"chacha20_poly1305">>, NULL)
 @@ "ecdhe_kyber_rsa_with_aes_256_gcm_sha384" :>
        Suite("hybrid_ecdhe_kem", "RSA", "SHA384", S2N_TLS12, <<"aes256_gcm">>, NULL)
 @@ "ecdhe_bike_rsa_with_aes_256_gcm_sha384" :>
        Suite("hybrid_ecdhe_kem", "RSA", "SHA384", S2N_TLS12, <<"aes256_gcm">>, NULL)
 @@ "ecdhe_sike_rsa_with_aes_256_gcm_sha384" :>
        Suite("hybrid_ecdhe_kem", "RSA", "SHA384", S2N_TLS12, <<"aes256_gcm">>, NULL)
 @@ "tls13_aes_128_gcm_sha256" :> Suite(NULL, NULL, "SHA256", S2N_TLS13, <<"tls13_aes128_gcm">>, NULL)
 @@ "tls13_aes_256_gcm_sha384" :> Suite(NULL, NULL, "SHA384", S2N_TLS13, <<"tls13_aes256_gcm">>, NULL)
 @@ "tls13_chacha20_poly1305_sha256" :>
        Suite(NULL, NULL, "SHA256", S2N_TLS13, <<"tls13_chacha20_poly1305">>, NULL)

s2n_null_cipher_suite == Suite("rsa", "RSA", NULL, 0, <<"null">>, NULL)
CipherSuite == Suites1 @@ Suites2 @@ Suites3 @@ Suites4 @@ "null_cipher_suite" :> s2n_null_cipher_suite

=================================================================================
