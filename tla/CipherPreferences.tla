---------------------------- MODULE CipherPreferences ----------------------------
(***************************************************************************)
(* The preference lists of tls/s2n_cipher_preferences.c and of the tests in *)
(* tls/s2n_cipher_suites.c, highest preference first.                       *)
(***************************************************************************)
EXTENDS CipherSuites

S2N_TLS13_CIPHER_SUITES_20190801 == <<"tls13_aes_256_gcm_sha384", "tls13_aes_128_gcm_sha256",
    "tls13_chacha20_poly1305_sha256">>
S2N_TLS13_CLOUDFRONT_CIPHER_SUITES_20200716 == <<"tls13_aes_128_gcm_sha256", "tls13_aes_256_gcm_sha384",
    "tls13_chacha20_poly1305_sha256">>
cipher_suites_20140601 == <<"dhe_rsa_with_aes_128_cbc_sha256", "dhe_rsa_with_aes_128_cbc_sha",
    "dhe_rsa_with_3des_ede_cbc_sha", "rsa_with_aes_128_cbc_sha256", "rsa_with_aes_128_cbc_sha",
    "rsa_with_3des_ede_cbc_sha", "rsa_with_rc4_128_sha", "rsa_with_rc4_128_md5">>
cipher_suites_kms_pq_tls_1_0_2019_06 == <<"ecdhe_bike_rsa_with_aes_256_gcm_sha384",
    "ecdhe_sike_rsa_with_aes_256_gcm_sha384", "ecdhe_rsa_with_aes_256_gcm_sha384",
    "ecdhe_rsa_with_aes_128_gcm_sha256", "ecdhe_rsa_with_aes_256_cbc_sha384",
    "ecdhe_rsa_with_aes_256_cbc_sha", "ecdhe_rsa_with_aes_128_cbc_sha256", "ecdhe_rsa_with_3des_ede_cbc_sha",
    "dhe_rsa_with_aes_256_cbc_sha256", "dhe_rsa_with_aes_128_cbc_sha256", "dhe_rsa_with_aes_256_cbc_sha",
    "dhe_rsa_with_aes_128_cbc_sha">>
cipher_suites_pq_sike_test_tls_1_0_2019_11 == <<"ecdhe_sike_rsa_with_aes_256_gcm_sha384",
    "ecdhe_rsa_with_aes_256_gcm_sha384", "ecdhe_rsa_with_aes_128_gcm_sha256",
    "ecdhe_rsa_with_aes_256_cbc_sha384", "ecdhe_rsa_with_aes_256_cbc_sha",
    "ecdhe_rsa_with_aes_128_cbc_sha256", "ecdhe_rsa_with_3des_ede_cbc_sha", "dhe_rsa_with_aes_256_cbc_sha256",
    "dhe_rsa_with_aes_128_cbc_sha256", "dhe_rsa_with_aes_256_cbc_sha", "dhe_rsa_with_aes_128_cbc_sha">>

CipherPreferences1 ==
    "20190801" :> (S2N_TLS13_CIPHER_SUITES_20190801 \o <<"ecdhe_rsa_with_aes_128_gcm_sha256",
        "ecdhe_rsa_with_aes_256_gcm_sha384", "ecdhe_rsa_with_chacha20_poly1305_sha256",
        "ecdhe_rsa_with_aes_128_cbc_sha", "ecdhe_rsa_with_aes_128_cbc_sha256",
        "ecdhe_rsa_with_aes_256_cbc_sha", "rsa_with_aes_128_gcm_sha256", "rsa_with_aes_128_cbc_sha256",
        "rsa_with_aes_128_cbc_sha">>)
 @@ "20210831" :> (S2N_TLS13_CLOUDFRONT_CIPHER_SUITES_20200716 \o <<"ecdhe_ecdsa_with_aes_128_gcm_sha256",
        "ecdhe_rsa_with_aes_128_gcm_sha256", "ecdhe_ecdsa_with_aes_256_gcm_sha384",
        "ecdhe_rsa_with_aes_256_gcm_sha384", "ecdhe_ecdsa_with_chacha20_poly1305_sha256",
        "ecdhe_rsa_with_chacha20_poly1305_sha256", "ecdhe_ecdsa_with_aes_128_cbc_sha",
        "ecdhe_rsa_with_aes_128_cbc_sha", "ecdhe_ecdsa_with_aes_128_cbc_sha256",
        "ecdhe_rsa_with_aes_128_cbc_sha256", "ecdhe_ecdsa_with_aes_256_cbc_sha",
        "ecdhe_rsa_with_aes_256_cbc_sha", "rsa_with_aes_128_gcm_sha256", "rsa_with_aes_128_cbc_sha256",
        "rsa_with_aes_128_cbc_sha">>)
 @@ "20140601" :> cipher_suites_20140601
 @@ "20141001" :> cipher_suites_20140601
 @@ "20150202" :> <<"dhe_rsa_with_aes_128_cbc_sha256", "dhe_rsa_with_aes_128_cbc_sha",
        "dhe_rsa_with_3des_ede_cbc_sha", "rsa_with_aes_128_cbc_sha256", "rsa_with_aes_128_cbc_sha",
        "rsa_with_3des_ede_cbc_sha">>
 @@ "20150214" :> <<"dhe_rsa_with_aes_128_gcm_sha256", "dhe_rsa_with_aes_128_cbc_sha256",
        "dhe_rsa_with_aes_128_cbc_sha", "dhe_rsa_with_3des_ede_cbc_sha", "rsa_with_aes_128_gcm_sha256",
        "rsa_with_aes_128_cbc_sha256", "rsa_with_aes_128_cbc_sha", "rsa_with_3des_ede_cbc_sha">>
 @@ "20160411" :> <<"ecdhe_rsa_with_aes_128_cbc_sha", "ecdhe_rsa_with_aes_128_gcm_sha256",
        "ecdhe_rsa_with_aes_256_gcm_sha384", "ecdhe_rsa_with_aes_128_cbc_sha256",
        "ecdhe_rsa_with_aes_256_cbc_sha", "ecdhe_rsa_with_aes_256_cbc_sha384", "rsa_with_aes_128_cbc_sha",
        "rsa_with_aes_128_gcm_sha256", "rsa_with_aes_256_gcm_sha384", "rsa_with_aes_128_cbc_sha256",
        "rsa_with_aes_256_cbc_sha", "rsa_with_aes_256_cbc_sha256", "rsa_with_3des_ede_cbc_sha">>
 @@ "20150306" :> <<"ecdhe_rsa_with_aes_128_gcm_sha256", "ecdhe_rsa_with_aes_256_gcm_sha384",
        "ecdhe_rsa_with_aes_128_cbc_sha", "ecdhe_rsa_with_aes_128_cbc_sha256",
        "ecdhe_rsa_with_3des_ede_cbc_sha", "ecdhe_rsa_with_aes_256_cbc_sha", "rsa_with_aes_128_gcm_sha256",
        "rsa_with_aes_128_cbc_sha256", "rsa_with_aes_128_cbc_sha", "rsa_with_3des_ede_cbc_sha">>

CipherPreferences2 ==
    "20160804" :> <<"ecdhe_rsa_with_aes_128_gcm_sha256", "ecdhe_rsa_with_aes_256_gcm_sha384",
        "ecdhe_rsa_with_aes_128_cbc_sha", "ecdhe_rsa_with_aes_128_cbc_sha256",
        "ecdhe_rsa_with_aes_256_cbc_sha", "ecdhe_rsa_with_aes_256_cbc_sha384", "rsa_with_aes_128_gcm_sha256",
        "rsa_with_aes_256_gcm_sha384", "rsa_with_aes_128_cbc_sha", "rsa_with_aes_128_cbc_sha256",
        "rsa_with_aes_256_cbc_sha", "rsa_with_aes_256_cbc_sha256", "rsa_with_3des_ede_cbc_sha">>
 @@ "20160824" :> <<"ecdhe_rsa_with_aes_128_gcm_sha256", "ecdhe_rsa_with_aes_256_gcm_sha384",
        "ecdhe_rsa_with_aes_128_cbc_sha", "ecdhe_rsa_with_aes_128_cbc_sha256",
        "ecdhe_rsa_with_aes_256_cbc_sha", "rsa_with_aes_128_gcm_sha256", "rsa_with_aes_128_cbc_sha256",
        "rsa_with_aes_128_cbc_sha">>
 @@ "20170210" :> <<"ecdhe_rsa_with_aes_128_gcm_sha256", "ecdhe_rsa_with_aes_256_gcm_sha384",
        "ecdhe_rsa_with_chacha20_poly1305_sha256", "ecdhe_rsa_with_aes_128_cbc_sha",
        "ecdhe_rsa_with_aes_128_cbc_sha256", "ecdhe_rsa_with_aes_256_cbc_sha", "rsa_with_aes_128_gcm_sha256",
        "rsa_with_aes_128_cbc_sha256", "rsa_with_aes_128_cbc_sha">>
 @@ "20190122" :> <<"ecdhe_rsa_with_chacha20_poly1305_sha256", "ecdhe_rsa_with_aes_128_cbc_sha",
        "ecdhe_rsa_with_aes_128_gcm_sha256", "ecdhe_rsa_with_aes_256_gcm_sha384",
        "ecdhe_rsa_with_aes_128_cbc_sha256", "ecdhe_rsa_with_aes_256_cbc_sha",
        "ecdhe_rsa_with_aes_256_cbc_sha384", "rsa_with_aes_128_cbc_sha", "rsa_with_aes_128_gcm_sha256",
        "rsa_with_aes_256_gcm_sha384", "rsa_with_aes_128_cbc_sha256", "rsa_with_aes_256_cbc_sha",
        "rsa_with_aes_256_cbc_sha256", "rsa_with_3des_ede_cbc_sha">>
 @@ "20190121" :> <<"ecdhe_rsa_with_aes_128_gcm_sha256", "ecdhe_rsa_with_aes_256_gcm_sha384",
        "ecdhe_rsa_with_chacha20_poly1305_sha256", "ecdhe_rsa_with_aes_128_cbc_sha",
        "ecdhe_rsa_with_aes_128_cbc_sha256", "ecdhe_rsa_with_aes_256_cbc_sha",
        "ecdhe_rsa_with_aes_256_cbc_sha384", "rsa_with_aes_128_gcm_sha256", "rsa_with_aes_256_gcm_sha384",
        "rsa_with_aes_128_cbc_sha", "rsa_with_aes_128_cbc_sha256", "rsa_with_aes_256_cbc_sha",
        "rsa_with_aes_256_cbc_sha256", "rsa_with_3des_ede_cbc_sha">>
 @@ "20190120" :> <<"ecdhe_rsa_with_aes_128_cbc_sha", "ecdhe_rsa_with_aes_128_gcm_sha256",
        "ecdhe_rsa_with_aes_256_gcm_sha384", "ecdhe_rsa_with_chacha20_poly1305_sha256",
        "ecdhe_rsa_with_aes_128_cbc_sha256", "ecdhe_rsa_with_aes_256_cbc_sha",
        "ecdhe_rsa_with_aes_256_cbc_sha384", "rsa_with_aes_128_cbc_sha", "rsa_with_aes_128_gcm_sha256",
        "rsa_with_aes_256_gcm_sha384", "rsa_with_aes_128_cbc_sha256", "rsa_with_aes_256_cbc_sha",
        "rsa_with_aes_256_cbc_sha256", "rsa_with_3des_ede_cbc_sha">>

CipherPreferences3 ==
    "20190214" :> <<"ecdhe_ecdsa_with_aes_128_cbc_sha", "ecdhe_rsa_with_aes_128_cbc_sha",
        "ecdhe_ecdsa_with_aes_128_gcm_sha256", "ecdhe_rsa_with_aes_128_gcm_sha256",
        "ecdhe_ecdsa_with_aes_256_gcm_sha384", "ecdhe_rsa_with_aes_256_gcm_sha384",
        "ecdhe_ecdsa_with_aes_128_cbc_sha256", "ecdhe_rsa_with_aes_128_cbc_sha256",
        "ecdhe_ecdsa_with_aes_256_cbc_sha", "ecdhe_rsa_with_aes_256_cbc_sha",
        "ecdhe_ecdsa_with_aes_256_cbc_sha384", "ecdhe_rsa_with_aes_256_cbc_sha384",
        "rsa_with_aes_128_cbc_sha", "rsa_with_aes_128_gcm_sha256", "rsa_with_aes_256_gcm_sha384",
        "rsa_with_aes_128_cbc_sha256", "rsa_with_aes_256_cbc_sha", "rsa_with_aes_256_cbc_sha256",
        "rsa_with_3des_ede_cbc_sha", "dhe_rsa_with_aes_128_cbc_sha", "dhe_rsa_with_aes_128_gcm_sha256",
        "dhe_rsa_with_aes_256_gcm_sha384", "dhe_rsa_with_aes_128_cbc_sha256", "dhe_rsa_with_aes_256_cbc_sha",
        "dhe_rsa_with_aes_256_cbc_sha256">>
 @@ "20190214_gcm" :> <<"ecdhe_ecdsa_with_aes_128_gcm_sha256", "ecdhe_rsa_with_aes_128_gcm_sha256",
        "ecdhe_ecdsa_with_aes_256_gcm_sha384", "ecdhe_rsa_with_aes_256_gcm_sha384",
        "ecdhe_ecdsa_with_aes_128_cbc_sha", "ecdhe_rsa_with_aes_128_cbc_sha",
        "ecdhe_ecdsa_with_aes_128_cbc_sha256", "ecdhe_rsa_with_aes_128_cbc_sha256",
        "ecdhe_ecdsa_with_aes_256_cbc_sha", "ecdhe_rsa_with_aes_256_cbc_sha",
        "ecdhe_ecdsa_with_aes_256_cbc_sha384", "ecdhe_rsa_with_aes_256_cbc_sha384",
        "rsa_with_aes_128_gcm_sha256", "rsa_with_aes_256_gcm_sha384", "rsa_with_aes_128_cbc_sha",
        "rsa_with_aes_128_cbc_sha256", "rsa_with_aes_256_cbc_sha", "rsa_with_aes_256_cbc_sha256",
        "rsa_with_3des_ede_cbc_sha", "dhe_rsa_with_aes_128_gcm_sha256", "dhe_rsa_with_aes_256_gcm_sha384",
        "dhe_rsa_with_aes_128_cbc_sha", "dhe_rsa_with_aes_128_cbc_sha256", "dhe_rsa_with_aes_256_cbc_sha",
        "dhe_rsa_with_aes_256_cbc_sha256">>
 @@ "20210825" :> (S2N_TLS13_CLOUDFRONT_CIPHER_SUITES_20200716 \o <<"ecdhe_ecdsa_with_aes_128_cbc_sha",
        "ecdhe_rsa_with_aes_128_cbc_sha", "ecdhe_ecdsa_with_aes_128_gcm_sha256",
        "ecdhe_rsa_with_aes_128_gcm_sha256", "ecdhe_ecdsa_with_aes_256_gcm_sha384",
        "ecdhe_rsa_with_aes_256_gcm_sha384", "ecdhe_ecdsa_with_aes_128_cbc_sha256",
        "ecdhe_rsa_with_aes_128_cbc_sha256", "ecdhe_ecdsa_with_aes_256_cbc_sha",
        "ecdhe_rsa_with_aes_256_cbc_sha", "ecdhe_ecdsa_with_aes_256_cbc_sha384",
        "ecdhe_rsa_with_aes_256_cbc_sha384", "rsa_with_aes_128_cbc_sha", "rsa_with_aes_128_gcm_sha256",
        "rsa_with_aes_256_gcm_sha384", "rsa_with_aes_128_cbc_sha256", "rsa_with_aes_256_cbc_sha",
        "rsa_with_aes_256_cbc_sha256", "rsa_with_3des_ede_cbc_sha", "dhe_rsa_with_aes_128_cbc_sha",
        "dhe_rsa_with_aes_128_gcm_sha256", "dhe_rsa_with_aes_256_gcm_sha384",
        "dhe_rsa_with_aes_128_cbc_sha256", "dhe_rsa_with_aes_256_cbc_sha",
        "dhe_rsa_with_aes_256_cbc_sha256">>)
 @@ "20210825_gcm" :> (S2N_TLS13_CLOUDFRONT_CIPHER_SUITES_20200716 \o <<"ecdhe_ecdsa_with_aes_128_gcm_sha256",
        "ecdhe_rsa_with_aes_128_gcm_sha256", "ecdhe_ecdsa_with_aes_256_gcm_sha384",
        "ecdhe_rsa_with_aes_256_gcm_sha384", "ecdhe_ecdsa_with_aes_128_cbc_sha",
        "ecdhe_rsa_with_aes_128_cbc_sha", "ecdhe_ecdsa_with_aes_128_cbc_sha256",
        "ecdhe_rsa_with_aes_128_cbc_sha256", "ecdhe_ecdsa_with_aes_256_cbc_sha",
        "ecdhe_rsa_with_aes_256_cbc_sha", "ecdhe_ecdsa_with_aes_256_cbc_sha384",
        "ecdhe_rsa_with_aes_256_cbc_sha384", "rsa_with_aes_128_gcm_sha256", "rsa_with_aes_256_gcm_sha384",
        "rsa_with_aes_128_cbc_sha", "rsa_with_aes_128_cbc_sha256", "rsa_with_aes_256_cbc_sha",
        "rsa_with_aes_256_cbc_sha256", "rsa_with_3des_ede_cbc_sha", "dhe_rsa_with_aes_128_gcm_sha256",
        "dhe_rsa_with_aes_256_gcm_sha384", "dhe_rsa_with_aes_128_cbc_sha", "dhe_rsa_with_aes_128_cbc_sha256",
        "dhe_rsa_with_aes_256_cbc_sha", "dhe_rsa_with_aes_256_cbc_sha256">>)
 @@ "null" :> <<"null_cipher_suite">>

CipherPreferences4 ==
    "20170328" :> <<"ecdhe_rsa_with_aes_128_cbc_sha", "ecdhe_rsa_with_aes_128_gcm_sha256",
        "ecdhe_rsa_with_aes_256_gcm_sha384", "ecdhe_rsa_with_aes_128_cbc_sha256",
        "ecdhe_rsa_with_aes_256_cbc_sha", "ecdhe_rsa_with_aes_256_cbc_sha384", "rsa_with_aes_128_cbc_sha",
        "rsa_with_aes_128_gcm_sha256", "rsa_with_aes_256_gcm_sha384", "rsa_with_aes_128_cbc_sha256",
        "rsa_with_aes_256_cbc_sha", "rsa_with_aes_256_cbc_sha256", "rsa_with_3des_ede_cbc_sha",
        "dhe_rsa_with_aes_128_cbc_sha", "dhe_rsa_with_aes_128_gcm_sha256", "dhe_rsa_with_aes_256_gcm_sha384",
        "dhe_rsa_with_aes_128_cbc_sha256", "dhe_rsa_with_aes_256_cbc_sha", "dhe_rsa_with_aes_256_cbc_sha256">>
 @@ "20170328_gcm" :> <<"ecdhe_rsa_with_aes_128_gcm_sha256", "ecdhe_rsa_with_aes_256_gcm_sha384",
        "ecdhe_rsa_with_aes_128_cbc_sha", "ecdhe_rsa_with_aes_128_cbc_sha256",
        "ecdhe_rsa_with_aes_256_cbc_sha", "ecdhe_rsa_with_aes_256_cbc_sha384", "rsa_with_aes_128_gcm_sha256",
        "rsa_with_aes_256_gcm_sha384", "rsa_with_aes_128_cbc_sha", "rsa_with_aes_128_cbc_sha256",
        "rsa_with_aes_256_cbc_sha", "rsa_with_aes_256_cbc_sha256", "rsa_with_3des_ede_cbc_sha",
        "dhe_rsa_with_aes_128_gcm_sha256", "dhe_rsa_with_aes_256_gcm_sha384", "dhe_rsa_with_aes_128_cbc_sha",
        "dhe_rsa_with_aes_128_cbc_sha256", "dhe_rsa_with_aes_256_cbc_sha", "dhe_rsa_with_aes_256_cbc_sha256">>
 @@ "20170405" :> <<"ecdhe_rsa_with_aes_128_cbc_sha256", "ecdhe_rsa_with_aes_256_cbc_sha384",
        "ecdhe_rsa_with_aes_128_gcm_sha256", "ecdhe_rsa_with_aes_256_gcm_sha384", "rsa_with_aes_128_cbc_sha",
        "rsa_with_aes_128_gcm_sha256", "rsa_with_aes_256_gcm_sha384", "rsa_with_aes_128_cbc_sha256",
        "rsa_with_aes_256_cbc_sha", "rsa_with_aes_256_cbc_sha256", "rsa_with_3des_ede_cbc_sha">>
 @@ "20170405_gcm" :> <<"ecdhe_rsa_with_aes_128_gcm_sha256", "ecdhe_rsa_with_aes_256_gcm_sha384",
        "ecdhe_rsa_with_aes_128_cbc_sha256", "ecdhe_rsa_with_aes_256_cbc_sha384",
        "rsa_with_aes_128_gcm_sha256", "rsa_with_aes_256_gcm_sha384", "rsa_with_aes_128_cbc_sha",
        "rsa_with_aes_128_cbc_sha256", "rsa_with_aes_256_cbc_sha", "rsa_with_aes_256_cbc_sha256",
        "rsa_with_3des_ede_cbc_sha">>
 @@ "20170718" :> <<"ecdhe_rsa_with_aes_128_cbc_sha", "ecdhe_rsa_with_aes_128_gcm_sha256",
        "ecdhe_rsa_with_aes_256_gcm_sha384", "ecdhe_rsa_with_aes_128_cbc_sha256",
        "ecdhe_rsa_with_aes_256_cbc_sha", "ecdhe_rsa_with_aes_256_cbc_sha384", "rsa_with_aes_128_cbc_sha",
        "rsa_with_aes_128_gcm_sha256", "rsa_with_aes_256_gcm_sha384", "rsa_with_aes_128_cbc_sha256",
        "rsa_with_aes_256_cbc_sha", "rsa_with_aes_256_cbc_sha256">>
 @@ "20170718_gcm" :> <<"ecdhe_rsa_with_aes_128_gcm_sha256", "ecdhe_rsa_with_aes_256_gcm_sha384",
        "ecdhe_rsa_with_aes_128_cbc_sha", "ecdhe_rsa_with_aes_128_cbc_sha256",
        "ecdhe_rsa_with_aes_256_cbc_sha", "ecdhe_rsa_with_aes_256_cbc_sha384", "rsa_with_aes_128_gcm_sha256",
        "rsa_with_aes_256_gcm_sha384", "rsa_with_aes_128_cbc_sha", "rsa_with_aes_128_cbc_sha256",
        "rsa_with_aes_256_cbc_sha", "rsa_with_aes_256_cbc_sha256">>

CipherPreferences5 ==
    "elb_security_policy_2015_04" :> <<"ecdhe_ecdsa_with_aes_128_gcm_sha256",
        "ecdhe_rsa_with_aes_128_gcm_sha256", "ecdhe_ecdsa_with_aes_128_cbc_sha256",
        "ecdhe_rsa_with_aes_128_cbc_sha256", "ecdhe_ecdsa_with_aes_128_cbc_sha",
        "ecdhe_rsa_with_aes_128_cbc_sha", "ecdhe_ecdsa_with_aes_256_gcm_sha384",
        "ecdhe_rsa_with_aes_256_gcm_sha384", "ecdhe_ecdsa_with_aes_256_cbc_sha384",
        "ecdhe_rsa_with_aes_256_cbc_sha384", "ecdhe_rsa_with_aes_256_cbc_sha",
        "ecdhe_ecdsa_with_aes_256_cbc_sha", "rsa_with_aes_128_gcm_sha256", "rsa_with_aes_128_cbc_sha256",
        "rsa_with_aes_128_cbc_sha", "rsa_with_aes_256_gcm_sha384", "rsa_with_aes_256_cbc_sha256",
        "rsa_with_aes_256_cbc_sha", "rsa_with_3des_ede_cbc_sha">>
 @@ "elb_security_policy_2016_08" :> <<"ecdhe_ecdsa_with_aes_128_gcm_sha256",
        "ecdhe_rsa_with_aes_128_gcm_sha256", "ecdhe_ecdsa_with_aes_128_cbc_sha256",
        "ecdhe_rsa_with_aes_128_cbc_sha256", "ecdhe_ecdsa_with_aes_128_cbc_sha",
        "ecdhe_rsa_with_aes_128_cbc_sha", "ecdhe_ecdsa_with_aes_256_gcm_sha384",
        "ecdhe_rsa_with_aes_256_gcm_sha384", "ecdhe_ecdsa_with_aes_256_cbc_sha384",
        "ecdhe_rsa_with_aes_256_cbc_sha384", "ecdhe_rsa_with_aes_256_cbc_sha",
        "ecdhe_ecdsa_with_aes_256_cbc_sha", "rsa_with_aes_128_gcm_sha256", "rsa_with_aes_128_cbc_sha256",
        "rsa_with_aes_128_cbc_sha", "rsa_with_aes_256_gcm_sha384", "rsa_with_aes_256_cbc_sha256",
        "rsa_with_aes_256_cbc_sha">>
 @@ "elb_security_policy_tls_1_2_2017_01" :> <<"ecdhe_ecdsa_with_aes_128_gcm_sha256",
        "ecdhe_rsa_with_aes_128_gcm_sha256", "ecdhe_ecdsa_with_aes_128_cbc_sha256",
        "ecdhe_rsa_with_aes_128_cbc_sha256", "ecdhe_ecdsa_with_aes_256_gcm_sha384",
        "ecdhe_rsa_with_aes_256_gcm_sha384", "ecdhe_ecdsa_with_aes_256_cbc_sha384",
        "ecdhe_rsa_with_aes_256_cbc_sha384", "rsa_with_aes_128_gcm_sha256", "rsa_with_aes_128_cbc_sha256",
        "rsa_with_aes_256_gcm_sha384", "rsa_with_aes_256_cbc_sha256">>
 @@ "elb_security_policy_tls_1_1_2017_01" :> <<"ecdhe_ecdsa_with_aes_128_gcm_sha256",
        "ecdhe_rsa_with_aes_128_gcm_sha256", "ecdhe_ecdsa_with_aes_128_cbc_sha256",
        "ecdhe_rsa_with_aes_128_cbc_sha256", "ecdhe_ecdsa_with_aes_128_cbc_sha",
        "ecdhe_rsa_with_aes_128_cbc_sha", "ecdhe_ecdsa_with_aes_256_gcm_sha384",
        "ecdhe_rsa_with_aes_256_gcm_sha384", "ecdhe_ecdsa_with_aes_256_cbc_sha384",
        "ecdhe_rsa_with_aes_256_cbc_sha384", "ecdhe_rsa_with_aes_256_cbc_sha",
        "ecdhe_ecdsa_with_aes_256_cbc_sha", "rsa_with_aes_128_gcm_sha256", "rsa_with_aes_128_cbc_sha256",
        "rsa_with_aes_128_cbc_sha", "rsa_with_aes_256_gcm_sha384", "rsa_with_aes_256_cbc_sha256",
        "rsa_with_aes_256_cbc_sha">>
 @@ "elb_security_policy_tls_1_2_ext_2018_06" :> <<"ecdhe_ecdsa_with_aes_128_gcm_sha256",
        "ecdhe_rsa_with_aes_128_gcm_sha256", "ecdhe_ecdsa_with_aes_128_cbc_sha256",
        "ecdhe_rsa_with_aes_128_cbc_sha256", "ecdhe_ecdsa_with_aes_128_cbc_sha",
        "ecdhe_rsa_with_aes_128_cbc_sha", "ecdhe_ecdsa_with_aes_256_gcm_sha384",
        "ecdhe_rsa_with_aes_256_gcm_sha384", "ecdhe_ecdsa_with_aes_256_cbc_sha384",
        "ecdhe_rsa_with_aes_256_cbc_sha384", "ecdhe_rsa_with_aes_256_cbc_sha",
        "ecdhe_ecdsa_with_aes_256_cbc_sha", "rsa_with_aes_128_gcm_sha256", "rsa_with_aes_128_cbc_sha256",
        "rsa_with_aes_128_cbc_sha", "rsa_with_aes_256_gcm_sha384", "rsa_with_aes_256_cbc_sha256",
        "rsa_with_aes_256_cbc_sha">>
 @@ "elb_security_policy_fs_2018_06" :> <<"ecdhe_ecdsa_with_aes_128_gcm_sha256",
        "ecdhe_rsa_with_aes_128_gcm_sha256", "ecdhe_ecdsa_with_aes_128_cbc_sha256",
        "ecdhe_rsa_with_aes_128_cbc_sha256", "ecdhe_ecdsa_with_aes_128_cbc_sha",
        "ecdhe_rsa_with_aes_128_cbc_sha", "ecdhe_ecdsa_with_aes_256_gcm_sha384",
        "ecdhe_rsa_with_aes_256_gcm_sha384", "ecdhe_ecdsa_with_aes_256_cbc_sha384",
        "ecdhe_rsa_with_aes_256_cbc_sha384", "ecdhe_rsa_with_aes_256_cbc_sha",
        "ecdhe_ecdsa_with_aes_256_cbc_sha">>

CipherPreferences6 ==
    "elb_security_policy_fs_1_2_2019_08" :> <<"ecdhe_ecdsa_with_aes_128_gcm_sha256",
        "ecdhe_rsa_with_aes_128_gcm_sha256", "ecdhe_ecdsa_with_aes_128_cbc_sha256",
        "ecdhe_rsa_with_aes_128_cbc_sha256", "ecdhe_ecdsa_with_aes_128_cbc_sha",
        "ecdhe_rsa_with_aes_128_cbc_sha", "ecdhe_ecdsa_with_aes_256_gcm_sha384",
        "ecdhe_rsa_with_aes_256_gcm_sha384", "ecdhe_ecdsa_with_aes_256_cbc_sha384",
        "ecdhe_rsa_with_aes_256_cbc_sha384", "ecdhe_rsa_with_aes_256_cbc_sha",
        "ecdhe_ecdsa_with_aes_256_cbc_sha">>
 @@ "elb_security_policy_fs_1_1_2019_08" :> <<"ecdhe_ecdsa_with_aes_128_gcm_sha256",
        "ecdhe_rsa_with_aes_128_gcm_sha256", "ecdhe_ecdsa_with_aes_128_cbc_sha256",
        "ecdhe_rsa_with_aes_128_cbc_sha256", "ecdhe_ecdsa_with_aes_128_cbc_sha",
        "ecdhe_rsa_with_aes_128_cbc_sha", "ecdhe_ecdsa_with_aes_256_gcm_sha384",
        "ecdhe_rsa_with_aes_256_gcm_sha384", "ecdhe_ecdsa_with_aes_256_cbc_sha384",
        "ecdhe_rsa_with_aes_256_cbc_sha384", "ecdhe_rsa_with_aes_256_cbc_sha",
        "ecdhe_ecdsa_with_aes_256_cbc_sha">>
 @@ "elb_security_policy_fs_1_2_Res_2019_08" :> <<"ecdhe_ecdsa_with_aes_128_gcm_sha256",
        "ecdhe_rsa_with_aes_128_gcm_sha256", "ecdhe_ecdsa_with_aes_128_cbc_sha256",
        "ecdhe_rsa_with_aes_128_cbc_sha256", "ecdhe_ecdsa_with_aes_256_gcm_sha384",
        "ecdhe_rsa_with_aes_256_gcm_sha384", "ecdhe_ecdsa_with_aes_256_cbc_sha384",
        "ecdhe_rsa_with_aes_256_cbc_sha384">>
 @@ "cloudfront_upstream" :> <<"ecdhe_ecdsa_with_aes_256_gcm_sha384", "ecdhe_rsa_with_aes_256_gcm_sha384",
        "ecdhe_ecdsa_with_aes_128_gcm_sha256", "ecdhe_rsa_with_aes_128_gcm_sha256",
        "ecdhe_ecdsa_with_aes_256_cbc_sha384", "ecdhe_rsa_with_aes_256_cbc_sha384",
        "ecdhe_ecdsa_with_aes_256_cbc_sha", "ecdhe_rsa_with_aes_256_cbc_sha",
        "ecdhe_ecdsa_with_aes_128_cbc_sha256", "ecdhe_rsa_with_aes_128_cbc_sha256",
        "ecdhe_ecdsa_with_aes_128_cbc_sha", "ecdhe_rsa_with_aes_128_cbc_sha", "rsa_with_aes_256_gcm_sha384",
        "rsa_with_aes_128_gcm_sha256", "rsa_with_aes_256_cbc_sha", "rsa_with_aes_128_cbc_sha256",
        "rsa_with_aes_128_cbc_sha", "rsa_with_3des_ede_cbc_sha", "rsa_with_rc4_128_md5">>
 @@ "cloudfront_ssl_v_3" :> (S2N_TLS13_CLOUDFRONT_CIPHER_SUITES_20200716 \o
        <<"ecdhe_rsa_with_aes_128_gcm_sha256", "ecdhe_rsa_with_aes_128_cbc_sha256",
        "ecdhe_rsa_with_aes_128_cbc_sha", "ecdhe_rsa_with_aes_256_gcm_sha384",
        "ecdhe_rsa_with_chacha20_poly1305_sha256", "ecdhe_rsa_with_aes_256_cbc_sha384",
        "ecdhe_rsa_with_aes_256_cbc_sha", "rsa_with_aes_128_gcm_sha256", "rsa_with_aes_256_gcm_sha384",
        "rsa_with_aes_128_cbc_sha256", "rsa_with_aes_256_cbc_sha", "rsa_with_aes_128_cbc_sha",
        "rsa_with_3des_ede_cbc_sha", "rsa_with_rc4_128_md5">>)
 @@ "cloudfront_tls_1_0_2014" :> (S2N_TLS13_CLOUDFRONT_CIPHER_SUITES_20200716 \o
        <<"ecdhe_ecdsa_with_aes_128_gcm_sha256", "ecdhe_rsa_with_aes_128_gcm_sha256",
        "ecdhe_ecdsa_with_aes_128_cbc_sha256", "ecdhe_rsa_with_aes_128_cbc_sha256",
        "ecdhe_ecdsa_with_aes_128_cbc_sha", "ecdhe_rsa_with_aes_128_cbc_sha",
        "ecdhe_ecdsa_with_aes_256_gcm_sha384", "ecdhe_rsa_with_aes_256_gcm_sha384",
        "ecdhe_ecdsa_with_chacha20_poly1305_sha256", "ecdhe_rsa_with_chacha20_poly1305_sha256",
        "ecdhe_ecdsa_with_aes_256_cbc_sha384", "ecdhe_rsa_with_aes_256_cbc_sha384",
        "ecdhe_ecdsa_with_aes_256_cbc_sha", "ecdhe_rsa_with_aes_256_cbc_sha", "rsa_with_aes_128_gcm_sha256",
        "rsa_with_aes_256_gcm_sha384", "rsa_with_aes_128_cbc_sha256", "rsa_with_aes_256_cbc_sha",
        "rsa_with_aes_128_cbc_sha", "rsa_with_3des_ede_cbc_sha">>)

CipherPreferences7 ==
    "cloudfront_tls_1_0_2016" :> (S2N_TLS13_CLOUDFRONT_CIPHER_SUITES_20200716 \o
        <<"ecdhe_ecdsa_with_aes_128_gcm_sha256", "ecdhe_rsa_with_aes_128_gcm_sha256",
        "ecdhe_ecdsa_with_aes_128_cbc_sha256", "ecdhe_rsa_with_aes_128_cbc_sha256",
        "ecdhe_ecdsa_with_aes_128_cbc_sha", "ecdhe_rsa_with_aes_128_cbc_sha",
        "ecdhe_ecdsa_with_aes_256_gcm_sha384", "ecdhe_rsa_with_aes_256_gcm_sha384",
        "ecdhe_ecdsa_with_chacha20_poly1305_sha256", "ecdhe_rsa_with_chacha20_poly1305_sha256",
        "ecdhe_ecdsa_with_aes_256_cbc_sha384", "ecdhe_rsa_with_aes_256_cbc_sha384",
        "ecdhe_ecdsa_with_aes_256_cbc_sha", "ecdhe_rsa_with_aes_256_cbc_sha", "rsa_with_aes_128_gcm_sha256",
        "rsa_with_aes_256_gcm_sha384", "rsa_with_aes_128_cbc_sha256", "rsa_with_aes_256_cbc_sha",
        "rsa_with_aes_128_cbc_sha">>)
 @@ "cloudfront_tls_1_1_2016" :> (S2N_TLS13_CLOUDFRONT_CIPHER_SUITES_20200716 \o
        <<"ecdhe_ecdsa_with_aes_128_gcm_sha256", "ecdhe_rsa_with_aes_128_gcm_sha256",
        "ecdhe_ecdsa_with_aes_128_cbc_sha256", "ecdhe_rsa_with_aes_128_cbc_sha256",
        "ecdhe_ecdsa_with_aes_128_cbc_sha", "ecdhe_rsa_with_aes_128_cbc_sha",
        "ecdhe_ecdsa_with_aes_256_gcm_sha384", "ecdhe_rsa_with_aes_256_gcm_sha384",
        "ecdhe_ecdsa_with_chacha20_poly1305_sha256", "ecdhe_rsa_with_chacha20_poly1305_sha256",
        "ecdhe_ecdsa_with_aes_256_cbc_sha384", "ecdhe_rsa_with_aes_256_cbc_sha384",
        "ecdhe_ecdsa_with_aes_256_cbc_sha", "ecdhe_rsa_with_aes_256_cbc_sha", "rsa_with_aes_128_gcm_sha256",
        "rsa_with_aes_256_gcm_sha384", "rsa_with_aes_128_cbc_sha256", "rsa_with_aes_256_cbc_sha",
        "rsa_with_aes_128_cbc_sha">>)
 @@ "cloudfront_tls_1_2_2018" :> (S2N_TLS13_CLOUDFRONT_CIPHER_SUITES_20200716 \o
        <<"ecdhe_ecdsa_with_aes_128_gcm_sha256", "ecdhe_rsa_with_aes_128_gcm_sha256",
        "ecdhe_ecdsa_with_aes_128_cbc_sha256", "ecdhe_rsa_with_aes_128_cbc_sha256",
        "ecdhe_ecdsa_with_aes_256_gcm_sha384", "ecdhe_rsa_with_aes_256_gcm_sha384",
        "ecdhe_ecdsa_with_chacha20_poly1305_sha256", "ecdhe_rsa_with_chacha20_poly1305_sha256",
        "ecdhe_ecdsa_with_aes_256_cbc_sha384", "ecdhe_rsa_with_aes_256_cbc_sha384",
        "rsa_with_aes_128_gcm_sha256", "rsa_with_aes_256_gcm_sha384", "rsa_with_aes_128_cbc_sha256">>)
 @@ "cloudfront_ssl_v_3_legacy" :> <<"ecdhe_ecdsa_with_aes_128_gcm_sha256",
        "ecdhe_rsa_with_aes_128_gcm_sha256", "ecdhe_ecdsa_with_aes_128_cbc_sha256",
        "ecdhe_rsa_with_aes_128_cbc_sha256", "ecdhe_ecdsa_with_aes_128_cbc_sha",
        "ecdhe_rsa_with_aes_128_cbc_sha", "ecdhe_ecdsa_with_aes_256_gcm_sha384",
        "ecdhe_rsa_with_aes_256_gcm_sha384", "ecdhe_ecdsa_with_aes_256_cbc_sha384",
        "ecdhe_rsa_with_aes_256_cbc_sha384", "ecdhe_ecdsa_with_aes_256_cbc_sha",
        "ecdhe_rsa_with_aes_256_cbc_sha", "rsa_with_aes_128_gcm_sha256", "rsa_with_aes_256_gcm_sha384",
        "rsa_with_aes_128_cbc_sha256", "rsa_with_aes_256_cbc_sha", "rsa_with_aes_128_cbc_sha",
        "rsa_with_3des_ede_cbc_sha", "rsa_with_rc4_128_md5">>
 @@ "cloudfront_tls_1_0_2014_legacy" :> <<"ecdhe_ecdsa_with_aes_128_gcm_sha256",
        "ecdhe_rsa_with_aes_128_gcm_sha256", "ecdhe_ecdsa_with_aes_128_cbc_sha256",
        "ecdhe_rsa_with_aes_128_cbc_sha256", "ecdhe_ecdsa_with_aes_128_cbc_sha",
        "ecdhe_rsa_with_aes_128_cbc_sha", "ecdhe_ecdsa_with_aes_256_gcm_sha384",
        "ecdhe_rsa_with_aes_256_gcm_sha384", "ecdhe_ecdsa_with_aes_256_cbc_sha384",
        "ecdhe_rsa_with_aes_256_cbc_sha384", "ecdhe_ecdsa_with_aes_256_cbc_sha",
        "ecdhe_rsa_with_aes_256_cbc_sha", "rsa_with_aes_128_gcm_sha256", "rsa_with_aes_256_gcm_sha384",
        "rsa_with_aes_128_cbc_sha256", "rsa_with_aes_256_cbc_sha", "rsa_with_aes_128_cbc_sha",
        "rsa_with_3des_ede_cbc_sha">>

CipherPreferences8 ==
    "cloudfront_tls_1_0_2016_legacy" :> <<"ecdhe_ecdsa_with_aes_128_gcm_sha256",
        "ecdhe_rsa_with_aes_128_gcm_sha256", "ecdhe_ecdsa_with_aes_128_cbc_sha256",
        "ecdhe_rsa_with_aes_128_cbc_sha256", "ecdhe_ecdsa_with_aes_128_cbc_sha",
        "ecdhe_rsa_with_aes_128_cbc_sha", "ecdhe_ecdsa_with_aes_256_gcm_sha384",
        "ecdhe_rsa_with_aes_256_gcm_sha384", "ecdhe_ecdsa_with_aes_256_cbc_sha384",
        "ecdhe_rsa_with_aes_256_cbc_sha384", "ecdhe_ecdsa_with_aes_256_cbc_sha",
        "ecdhe_rsa_with_aes_256_cbc_sha", "rsa_with_aes_128_gcm_sha256", "rsa_with_aes_256_gcm_sha384",
        "rsa_with_aes_128_cbc_sha256", "rsa_with_aes_256_cbc_sha", "rsa_with_aes_128_cbc_sha">>
 @@ "cloudfront_tls_1_1_2016_legacy" :> <<"ecdhe_ecdsa_with_aes_128_gcm_sha256",
        "ecdhe_rsa_with_aes_128_gcm_sha256", "ecdhe_ecdsa_with_aes_128_cbc_sha256",
        "ecdhe_rsa_with_aes_128_cbc_sha256", "ecdhe_ecdsa_with_aes_128_cbc_sha",
        "ecdhe_rsa_with_aes_128_cbc_sha", "ecdhe_ecdsa_with_aes_256_gcm_sha384",
        "ecdhe_rsa_with_aes_256_gcm_sha384", "ecdhe_ecdsa_with_aes_256_cbc_sha384",
        "ecdhe_rsa_with_aes_256_cbc_sha384", "ecdhe_ecdsa_with_aes_256_cbc_sha",
        "ecdhe_rsa_with_aes_256_cbc_sha", "rsa_with_aes_128_gcm_sha256", "rsa_with_aes_256_gcm_sha384",
        "rsa_with_aes_128_cbc_sha256", "rsa_with_aes_256_cbc_sha", "rsa_with_aes_128_cbc_sha">>
 @@ "cloudfront_tls_1_2_2018_legacy" :> <<"ecdhe_ecdsa_with_aes_128_gcm_sha256",
        "ecdhe_rsa_with_aes_128_gcm_sha256", "ecdhe_ecdsa_with_aes_128_cbc_sha256",
        "ecdhe_rsa_with_aes_128_cbc_sha256", "ecdhe_ecdsa_with_aes_256_gcm_sha384",
        "ecdhe_rsa_with_aes_256_gcm_sha384", "ecdhe_ecdsa_with_aes_256_cbc_sha384",
        "ecdhe_rsa_with_aes_256_cbc_sha384", "rsa_with_aes_128_gcm_sha256", "rsa_with_aes_256_gcm_sha384",
        "rsa_with_aes_128_cbc_sha256">>
 @@ "cloudfront_tls_1_2_2019_legacy" :> <<"ecdhe_ecdsa_with_aes_128_gcm_sha256",
        "ecdhe_rsa_with_aes_128_gcm_sha256", "ecdhe_ecdsa_with_aes_256_gcm_sha384",
        "ecdhe_rsa_with_aes_256_gcm_sha384", "ecdhe_ecdsa_with_aes_256_cbc_sha384",
        "ecdhe_rsa_with_aes_256_cbc_sha384", "ecdhe_ecdsa_with_aes_128_cbc_sha256",
        "ecdhe_rsa_with_aes_128_cbc_sha256">>
 @@ "cloudfront_upstream_tls10" :> <<"ecdhe_ecdsa_with_aes_256_gcm_sha384",
        "ecdhe_rsa_with_aes_256_gcm_sha384", "ecdhe_ecdsa_with_aes_128_gcm_sha256",
        "ecdhe_rsa_with_aes_128_gcm_sha256", "ecdhe_ecdsa_with_aes_256_cbc_sha384",
        "ecdhe_rsa_with_aes_256_cbc_sha384", "ecdhe_ecdsa_with_aes_256_cbc_sha",
        "ecdhe_rsa_with_aes_256_cbc_sha", "ecdhe_ecdsa_with_aes_128_cbc_sha256",
        "ecdhe_rsa_with_aes_128_cbc_sha256", "ecdhe_ecdsa_with_aes_128_cbc_sha",
        "ecdhe_rsa_with_aes_128_cbc_sha", "rsa_with_aes_256_gcm_sha384", "rsa_with_aes_128_gcm_sha256",
        "rsa_with_aes_256_cbc_sha", "rsa_with_aes_128_cbc_sha256", "rsa_with_aes_128_cbc_sha",
        "rsa_with_3des_ede_cbc_sha", "rsa_with_rc4_128_md5">>
 @@ "cloudfront_upstream_tls11" :> <<"ecdhe_ecdsa_with_aes_256_gcm_sha384",
        "ecdhe_rsa_with_aes_256_gcm_sha384", "ecdhe_ecdsa_with_aes_128_gcm_sha256",
        "ecdhe_rsa_with_aes_128_gcm_sha256", "ecdhe_ecdsa_with_aes_256_cbc_sha384",
        "ecdhe_rsa_with_aes_256_cbc_sha384", "ecdhe_ecdsa_with_aes_256_cbc_sha",
        "ecdhe_rsa_with_aes_256_cbc_sha", "ecdhe_ecdsa_with_aes_128_cbc_sha256",
        "ecdhe_rsa_with_aes_128_cbc_sha256", "ecdhe_ecdsa_with_aes_128_cbc_sha",
        "ecdhe_rsa_with_aes_128_cbc_sha", "rsa_with_aes_256_gcm_sha384", "rsa_with_aes_128_gcm_sha256",
        "rsa_with_aes_256_cbc_sha", "rsa_with_aes_128_cbc_sha256", "rsa_with_aes_128_cbc_sha",
        "rsa_with_3des_ede_cbc_sha", "rsa_with_rc4_128_md5">>

CipherPreferences9 ==
    "cloudfront_upstream_tls12" :> <<"ecdhe_ecdsa_with_aes_256_gcm_sha384",
        "ecdhe_rsa_with_aes_256_gcm_sha384", "ecdhe_ecdsa_with_aes_128_gcm_sha256",
        "ecdhe_rsa_with_aes_128_gcm_sha256", "ecdhe_ecdsa_with_aes_256_cbc_sha384",
        "ecdhe_rsa_with_aes_256_cbc_sha384", "ecdhe_ecdsa_with_aes_256_cbc_sha",
        "ecdhe_rsa_with_aes_256_cbc_sha", "ecdhe_ecdsa_with_aes_128_cbc_sha256",
        "ecdhe_rsa_with_aes_128_cbc_sha256", "ecdhe_ecdsa_with_aes_128_cbc_sha",
        "ecdhe_rsa_with_aes_128_cbc_sha", "rsa_with_aes_256_gcm_sha384", "rsa_with_aes_128_gcm_sha256",
        "rsa_with_aes_256_cbc_sha", "rsa_with_aes_128_cbc_sha256", "rsa_with_aes_128_cbc_sha",
        "rsa_with_3des_ede_cbc_sha", "rsa_with_rc4_128_md5">>
 @@ "cloudfront_tls_1_2_2019" :> (S2N_TLS13_CLOUDFRONT_CIPHER_SUITES_20200716 \o
        <<"ecdhe_ecdsa_with_aes_128_gcm_sha256", "ecdhe_rsa_with_aes_128_gcm_sha256",
        "ecdhe_ecdsa_with_aes_256_gcm_sha384", "ecdhe_rsa_with_aes_256_gcm_sha384",
        "ecdhe_ecdsa_with_chacha20_poly1305_sha256", "ecdhe_rsa_with_chacha20_poly1305_sha256",
        "ecdhe_ecdsa_with_aes_256_cbc_sha384", "ecdhe_rsa_with_aes_256_cbc_sha384",
        "ecdhe_ecdsa_with_aes_128_cbc_sha256", "ecdhe_rsa_with_aes_128_cbc_sha256">>)
 @@ "cloudfront_tls_1_2_2021" :> (S2N_TLS13_CLOUDFRONT_CIPHER_SUITES_20200716 \o
        <<"ecdhe_ecdsa_with_aes_128_gcm_sha256", "ecdhe_rsa_with_aes_128_gcm_sha256",
        "ecdhe_ecdsa_with_aes_256_gcm_sha384", "ecdhe_rsa_with_aes_256_gcm_sha384",
        "ecdhe_ecdsa_with_chacha20_poly1305_sha256", "ecdhe_rsa_with_chacha20_poly1305_sha256">>)
 @@ "aws_crt_sdk_ssl_v3" :> (S2N_TLS13_CLOUDFRONT_CIPHER_SUITES_20200716 \o
        <<"ecdhe_ecdsa_with_aes_128_gcm_sha256", "ecdhe_rsa_with_aes_128_gcm_sha256",
        "ecdhe_ecdsa_with_aes_256_gcm_sha384", "ecdhe_rsa_with_aes_256_gcm_sha384",
        "ecdhe_ecdsa_with_chacha20_poly1305_sha256", "ecdhe_rsa_with_chacha20_poly1305_sha256",
        "ecdhe_ecdsa_with_aes_128_cbc_sha256", "ecdhe_rsa_with_aes_128_cbc_sha256",
        "ecdhe_ecdsa_with_aes_256_cbc_sha384", "ecdhe_rsa_with_aes_256_cbc_sha384",
        "ecdhe_ecdsa_with_aes_128_cbc_sha", "ecdhe_rsa_with_aes_128_cbc_sha",
        "ecdhe_ecdsa_with_aes_256_cbc_sha", "ecdhe_rsa_with_aes_256_cbc_sha", "rsa_with_aes_128_gcm_sha256",
        "rsa_with_aes_256_gcm_sha384", "rsa_with_aes_128_cbc_sha256", "rsa_with_aes_256_cbc_sha256",
        "rsa_with_aes_128_cbc_sha", "rsa_with_aes_256_cbc_sha", "rsa_with_3des_ede_cbc_sha",
        "rsa_with_rc4_128_md5">>)
 @@ "aws_crt_sdk_default" :> (S2N_TLS13_CLOUDFRONT_CIPHER_SUITES_20200716 \o
        <<"ecdhe_ecdsa_with_aes_128_gcm_sha256", "ecdhe_rsa_with_aes_128_gcm_sha256",
        "ecdhe_ecdsa_with_aes_256_gcm_sha384", "ecdhe_rsa_with_aes_256_gcm_sha384",
        "ecdhe_ecdsa_with_chacha20_poly1305_sha256", "ecdhe_rsa_with_chacha20_poly1305_sha256",
        "ecdhe_ecdsa_with_aes_128_cbc_sha256", "ecdhe_rsa_with_aes_128_cbc_sha256",
        "ecdhe_ecdsa_with_aes_256_cbc_sha384", "ecdhe_rsa_with_aes_256_cbc_sha384",
        "ecdhe_ecdsa_with_aes_128_cbc_sha", "ecdhe_rsa_with_aes_128_cbc_sha",
        "ecdhe_ecdsa_with_aes_256_cbc_sha", "ecdhe_rsa_with_aes_256_cbc_sha", "rsa_with_aes_128_gcm_sha256",
        "rsa_with_aes_256_gcm_sha384", "rsa_with_aes_128_cbc_sha256", "rsa_with_aes_256_cbc_sha256",
        "rsa_with_aes_128_cbc_sha", "rsa_with_aes_256_cbc_sha">>)
 @@ "aws_crt_sdk_tls_13" :> S2N_TLS13_CLOUDFRONT_CIPHER_SUITES_20200716

CipherPreferences10 ==
    "kms_tls_1_0_2018_10" :> <<"ecdhe_rsa_with_aes_256_gcm_sha384", "ecdhe_rsa_with_aes_128_gcm_sha256",
        "ecdhe_rsa_with_aes_256_cbc_sha384", "ecdhe_rsa_with_aes_256_cbc_sha",
        "ecdhe_rsa_with_aes_128_cbc_sha256", "ecdhe_rsa_with_3des_ede_cbc_sha",
        "dhe_rsa_with_aes_256_cbc_sha256", "dhe_rsa_with_aes_128_cbc_sha256", "dhe_rsa_with_aes_256_cbc_sha",
        "dhe_rsa_with_aes_128_cbc_sha">>
 @@ "kms_tls_1_0_2021_08" :> (S2N_TLS13_CLOUDFRONT_CIPHER_SUITES_20200716 \o
        <<"ecdhe_rsa_with_aes_256_gcm_sha384", "ecdhe_rsa_with_aes_128_gcm_sha256",
        "ecdhe_rsa_with_aes_256_cbc_sha384", "ecdhe_rsa_with_aes_256_cbc_sha",
        "ecdhe_rsa_with_aes_128_cbc_sha256", "ecdhe_rsa_with_3des_ede_cbc_sha",
        "dhe_rsa_with_aes_256_cbc_sha256", "dhe_rsa_with_aes_128_cbc_sha256", "dhe_rsa_with_aes_256_cbc_sha",
        "dhe_rsa_with_aes_128_cbc_sha">>)
 @@ "kms_pq_tls_1_0_2019_06" :> cipher_suites_kms_pq_tls_1_0_2019_06
 @@ "kms_pq_tls_1_0_2020_02" :> cipher_suites_kms_pq_tls_1_0_2019_06
 @@ "pq_sike_test_tls_1_0_2019_11" :> cipher_suites_pq_sike_test_tls_1_0_2019_11
 @@ "pq_sike_test_tls_1_0_2020_02" :> cipher_suites_pq_sike_test_tls_1_0_2019_11
 @@ "kms_pq_tls_1_0_2020_07" :> <<"ecdhe_kyber_rsa_with_aes_256_gcm_sha384",
        "ecdhe_bike_rsa_with_aes_256_gcm_sha384", "ecdhe_sike_rsa_with_aes_256_gcm_sha384",
        "ecdhe_rsa_with_aes_256_gcm_sha384", "ecdhe_rsa_with_aes_128_gcm_sha256",
        "ecdhe_rsa_with_aes_256_cbc_sha384", "ecdhe_rsa_with_aes_256_cbc_sha",
        "ecdhe_rsa_with_aes_128_cbc_sha256", "ecdhe_rsa_with_3des_ede_cbc_sha",
        "dhe_rsa_with_aes_256_cbc_sha256", "dhe_rsa_with_aes_128_cbc_sha256", "dhe_rsa_with_aes_256_cbc_sha",
        "dhe_rsa_with_aes_128_cbc_sha">>
 @@ "pq_tls_1_0_2020_12" :> (S2N_TLS13_CIPHER_SUITES_20190801 \o <<"ecdhe_kyber_rsa_with_aes_256_gcm_sha384",
        "ecdhe_bike_rsa_with_aes_256_gcm_sha384", "ecdhe_sike_rsa_with_aes_256_gcm_sha384",
        "ecdhe_rsa_with_aes_256_gcm_sha384", "ecdhe_rsa_with_aes_128_gcm_sha256",
        "ecdhe_rsa_with_aes_256_cbc_sha384", "ecdhe_rsa_with_aes_256_cbc_sha",
        "ecdhe_rsa_with_aes_128_cbc_sha256", "ecdhe_rsa_with_3des_ede_cbc_sha",
        "dhe_rsa_with_aes_256_cbc_sha256", "dhe_rsa_with_aes_128_cbc_sha256", "dhe_rsa_with_aes_256_cbc_sha",
        "dhe_rsa_with_aes_128_cbc_sha">>)

CipherPreferences11 ==
    "pq_tls_1_1_2021_05_17" :> <<"ecdhe_kyber_rsa_with_aes_256_gcm_sha384",
        "ecdhe_bike_rsa_with_aes_256_gcm_sha384", "ecdhe_sike_rsa_with_aes_256_gcm_sha384",
        "ecdhe_ecdsa_with_aes_128_gcm_sha256", "ecdhe_rsa_with_aes_128_gcm_sha256",
        "ecdhe_ecdsa_with_aes_128_cbc_sha256", "ecdhe_rsa_with_aes_128_cbc_sha256",
        "ecdhe_ecdsa_with_aes_128_cbc_sha", "ecdhe_rsa_with_aes_128_cbc_sha",
        "ecdhe_ecdsa_with_aes_256_gcm_sha384", "ecdhe_rsa_with_aes_256_gcm_sha384",
        "ecdhe_ecdsa_with_aes_256_cbc_sha384", "ecdhe_rsa_with_aes_256_cbc_sha384",
        "ecdhe_rsa_with_aes_256_cbc_sha", "ecdhe_ecdsa_with_aes_256_cbc_sha", "rsa_with_aes_128_gcm_sha256",
        "rsa_with_aes_128_cbc_sha256", "rsa_with_aes_128_cbc_sha", "rsa_with_aes_256_gcm_sha384",
        "rsa_with_aes_256_cbc_sha256", "rsa_with_aes_256_cbc_sha">>
 @@ "pq_tls_1_0_2021_05_18" :> <<"ecdhe_kyber_rsa_with_aes_256_gcm_sha384",
        "ecdhe_bike_rsa_with_aes_256_gcm_sha384", "ecdhe_sike_rsa_with_aes_256_gcm_sha384",
        "ecdhe_ecdsa_with_aes_128_cbc_sha", "ecdhe_rsa_with_aes_128_cbc_sha",
        "ecdhe_ecdsa_with_aes_128_gcm_sha256", "ecdhe_rsa_with_aes_128_gcm_sha256",
        "ecdhe_ecdsa_with_aes_256_gcm_sha384", "ecdhe_rsa_with_aes_256_gcm_sha384",
        "ecdhe_ecdsa_with_aes_128_cbc_sha256", "ecdhe_rsa_with_aes_128_cbc_sha256",
        "ecdhe_ecdsa_with_aes_256_cbc_sha", "ecdhe_rsa_with_aes_256_cbc_sha",
        "ecdhe_ecdsa_with_aes_256_cbc_sha384", "ecdhe_rsa_with_aes_256_cbc_sha384",
        "rsa_with_aes_128_cbc_sha", "rsa_with_aes_128_gcm_sha256", "rsa_with_aes_256_gcm_sha384",
        "rsa_with_aes_128_cbc_sha256", "rsa_with_aes_256_cbc_sha", "rsa_with_aes_256_cbc_sha256",
        "rsa_with_3des_ede_cbc_sha", "dhe_rsa_with_aes_128_cbc_sha", "dhe_rsa_with_aes_128_gcm_sha256",
        "dhe_rsa_with_aes_256_gcm_sha384", "dhe_rsa_with_aes_128_cbc_sha256", "dhe_rsa_with_aes_256_cbc_sha",
        "dhe_rsa_with_aes_256_cbc_sha256">>
 @@ "pq_tls_1_0_2021_05_19" :> <<"ecdhe_kyber_rsa_with_aes_256_gcm_sha384",
        "ecdhe_bike_rsa_with_aes_256_gcm_sha384", "ecdhe_sike_rsa_with_aes_256_gcm_sha384",
        "ecdhe_ecdsa_with_aes_128_gcm_sha256", "ecdhe_rsa_with_aes_128_gcm_sha256",
        "ecdhe_ecdsa_with_aes_128_cbc_sha256", "ecdhe_rsa_with_aes_128_cbc_sha256",
        "ecdhe_ecdsa_with_aes_128_cbc_sha", "ecdhe_rsa_with_aes_128_cbc_sha",
        "ecdhe_ecdsa_with_aes_256_gcm_sha384", "ecdhe_rsa_with_aes_256_gcm_sha384",
        "ecdhe_ecdsa_with_aes_256_cbc_sha384", "ecdhe_rsa_with_aes_256_cbc_sha384",
        "ecdhe_rsa_with_aes_256_cbc_sha", "ecdhe_ecdsa_with_aes_256_cbc_sha", "rsa_with_aes_128_gcm_sha256",
        "rsa_with_aes_128_cbc_sha256", "rsa_with_aes_128_cbc_sha", "rsa_with_aes_256_gcm_sha384",
        "rsa_with_aes_256_cbc_sha256", "rsa_with_aes_256_cbc_sha">>
 @@ "pq_tls_1_1_2021_05_21" :> (S2N_TLS13_CLOUDFRONT_CIPHER_SUITES_20200716 \o
        <<"ecdhe_kyber_rsa_with_aes_256_gcm_sha384", "ecdhe_bike_rsa_with_aes_256_gcm_sha384",
        "ecdhe_sike_rsa_with_aes_256_gcm_sha384", "ecdhe_ecdsa_with_aes_128_gcm_sha256",
        "ecdhe_rsa_with_aes_128_gcm_sha256", "ecdhe_ecdsa_with_aes_128_cbc_sha256",
        "ecdhe_rsa_with_aes_128_cbc_sha256", "ecdhe_ecdsa_with_aes_128_cbc_sha",
        "ecdhe_rsa_with_aes_128_cbc_sha", "ecdhe_ecdsa_with_aes_256_gcm_sha384",
        "ecdhe_rsa_with_aes_256_gcm_sha384", "ecdhe_ecdsa_with_aes_256_cbc_sha384",
        "ecdhe_rsa_with_aes_256_cbc_sha384", "ecdhe_rsa_with_aes_256_cbc_sha",
        "ecdhe_ecdsa_with_aes_256_cbc_sha", "rsa_with_aes_128_gcm_sha256", "rsa_with_aes_128_cbc_sha256",
        "rsa_with_aes_128_cbc_sha", "rsa_with_aes_256_gcm_sha384", "rsa_with_aes_256_cbc_sha256",
        "rsa_with_aes_256_cbc_sha">>)

CipherPreferences12 ==
    "pq_tls_1_0_2021_05_22" :> (S2N_TLS13_CLOUDFRONT_CIPHER_SUITES_20200716 \o
        <<"ecdhe_kyber_rsa_with_aes_256_gcm_sha384", "ecdhe_bike_rsa_with_aes_256_gcm_sha384",
        "ecdhe_sike_rsa_with_aes_256_gcm_sha384", "ecdhe_ecdsa_with_aes_128_cbc_sha",
        "ecdhe_rsa_with_aes_128_cbc_sha", "ecdhe_ecdsa_with_aes_128_gcm_sha256",
        "ecdhe_rsa_with_aes_128_gcm_sha256", "ecdhe_ecdsa_with_aes_256_gcm_sha384",
        "ecdhe_rsa_with_aes_256_gcm_sha384", "ecdhe_ecdsa_with_aes_128_cbc_sha256",
        "ecdhe_rsa_with_aes_128_cbc_sha256", "ecdhe_ecdsa_with_aes_256_cbc_sha",
        "ecdhe_rsa_with_aes_256_cbc_sha", "ecdhe_ecdsa_with_aes_256_cbc_sha384",
        "ecdhe_rsa_with_aes_256_cbc_sha384", "rsa_with_aes_128_cbc_sha", "rsa_with_aes_128_gcm_sha256",
        "rsa_with_aes_256_gcm_sha384", "rsa_with_aes_128_cbc_sha256", "rsa_with_aes_256_cbc_sha",
        "rsa_with_aes_256_cbc_sha256", "rsa_with_3des_ede_cbc_sha", "dhe_rsa_with_aes_128_cbc_sha",
        "dhe_rsa_with_aes_128_gcm_sha256", "dhe_rsa_with_aes_256_gcm_sha384",
        "dhe_rsa_with_aes_128_cbc_sha256", "dhe_rsa_with_aes_256_cbc_sha",
        "dhe_rsa_with_aes_256_cbc_sha256">>)
 @@ "pq_tls_1_0_2021_05_23" :> (S2N_TLS13_CLOUDFRONT_CIPHER_SUITES_20200716 \o
        <<"ecdhe_kyber_rsa_with_aes_256_gcm_sha384", "ecdhe_bike_rsa_with_aes_256_gcm_sha384",
        "ecdhe_sike_rsa_with_aes_256_gcm_sha384", "ecdhe_ecdsa_with_aes_128_gcm_sha256",
        "ecdhe_rsa_with_aes_128_gcm_sha256", "ecdhe_ecdsa_with_aes_128_cbc_sha256",
        "ecdhe_rsa_with_aes_128_cbc_sha256", "ecdhe_ecdsa_with_aes_128_cbc_sha",
        "ecdhe_rsa_with_aes_128_cbc_sha", "ecdhe_ecdsa_with_aes_256_gcm_sha384",
        "ecdhe_rsa_with_aes_256_gcm_sha384", "ecdhe_ecdsa_with_aes_256_cbc_sha384",
        "ecdhe_rsa_with_aes_256_cbc_sha384", "ecdhe_rsa_with_aes_256_cbc_sha",
        "ecdhe_ecdsa_with_aes_256_cbc_sha", "rsa_with_aes_128_gcm_sha256", "rsa_with_aes_128_cbc_sha256",
        "rsa_with_aes_128_cbc_sha", "rsa_with_aes_256_gcm_sha384", "rsa_with_aes_256_cbc_sha256",
        "rsa_with_aes_256_cbc_sha">>)
 @@ "pq_tls_1_0_2021_05_24" :> (S2N_TLS13_CIPHER_SUITES_20190801 \o
        <<"ecdhe_kyber_rsa_with_aes_256_gcm_sha384", "ecdhe_bike_rsa_with_aes_256_gcm_sha384",
        "ecdhe_sike_rsa_with_aes_256_gcm_sha384", "ecdhe_rsa_with_aes_256_gcm_sha384",
        "ecdhe_rsa_with_aes_128_gcm_sha256", "ecdhe_rsa_with_aes_256_cbc_sha384",
        "ecdhe_rsa_with_aes_256_cbc_sha", "ecdhe_rsa_with_aes_128_cbc_sha256",
        "ecdhe_rsa_with_3des_ede_cbc_sha", "dhe_rsa_with_aes_256_cbc_sha256",
        "dhe_rsa_with_aes_128_cbc_sha256", "dhe_rsa_with_aes_256_cbc_sha", "dhe_rsa_with_aes_128_cbc_sha">>)
 @@ "pq_tls_1_0_2021_05_25" :> <<"ecdhe_kyber_rsa_with_aes_256_gcm_sha384",
        "ecdhe_bike_rsa_with_aes_256_gcm_sha384", "ecdhe_sike_rsa_with_aes_256_gcm_sha384",
        "ecdhe_ecdsa_with_aes_128_gcm_sha256", "ecdhe_rsa_with_aes_128_gcm_sha256",
        "ecdhe_ecdsa_with_aes_256_gcm_sha384", "ecdhe_rsa_with_aes_256_gcm_sha384",
        "ecdhe_ecdsa_with_aes_128_cbc_sha", "ecdhe_rsa_with_aes_128_cbc_sha",
        "ecdhe_ecdsa_with_aes_128_cbc_sha256", "ecdhe_rsa_with_aes_128_cbc_sha256",
        "ecdhe_ecdsa_with_aes_256_cbc_sha", "ecdhe_rsa_with_aes_256_cbc_sha",
        "ecdhe_ecdsa_with_aes_256_cbc_sha384", "ecdhe_rsa_with_aes_256_cbc_sha384",
        "rsa_with_aes_128_gcm_sha256", "rsa_with_aes_256_gcm_sha384", "rsa_with_aes_128_cbc_sha",
        "rsa_with_aes_128_cbc_sha256", "rsa_with_aes_256_cbc_sha", "rsa_with_aes_256_cbc_sha256",
        "rsa_with_3des_ede_cbc_sha", "dhe_rsa_with_aes_128_gcm_sha256", "dhe_rsa_with_aes_256_gcm_sha384",
        "dhe_rsa_with_aes_128_cbc_sha", "dhe_rsa_with_aes_128_cbc_sha256", "dhe_rsa_with_aes_256_cbc_sha",
        "dhe_rsa_with_aes_256_cbc_sha256">>

CipherPreferences13 ==
    "pq_tls_1_0_2021_05_26" :> (S2N_TLS13_CLOUDFRONT_CIPHER_SUITES_20200716 \o
        <<"ecdhe_kyber_rsa_with_aes_256_gcm_sha384", "ecdhe_bike_rsa_with_aes_256_gcm_sha384",
        "ecdhe_sike_rsa_with_aes_256_gcm_sha384", "ecdhe_ecdsa_with_aes_128_gcm_sha256",
        "ecdhe_rsa_with_aes_128_gcm_sha256", "ecdhe_ecdsa_with_aes_256_gcm_sha384",
        "ecdhe_rsa_with_aes_256_gcm_sha384", "ecdhe_ecdsa_with_aes_128_cbc_sha",
        "ecdhe_rsa_with_aes_128_cbc_sha", "ecdhe_ecdsa_with_aes_128_cbc_sha256",
        "ecdhe_rsa_with_aes_128_cbc_sha256", "ecdhe_ecdsa_with_aes_256_cbc_sha",
        "ecdhe_rsa_with_aes_256_cbc_sha", "ecdhe_ecdsa_with_aes_256_cbc_sha384",
        "ecdhe_rsa_with_aes_256_cbc_sha384", "rsa_with_aes_128_gcm_sha256", "rsa_with_aes_256_gcm_sha384",
        "rsa_with_aes_128_cbc_sha", "rsa_with_aes_128_cbc_sha256", "rsa_with_aes_256_cbc_sha",
        "rsa_with_aes_256_cbc_sha256", "rsa_with_3des_ede_cbc_sha", "dhe_rsa_with_aes_128_gcm_sha256",
        "dhe_rsa_with_aes_256_gcm_sha384", "dhe_rsa_with_aes_128_cbc_sha", "dhe_rsa_with_aes_128_cbc_sha256",
        "dhe_rsa_with_aes_256_cbc_sha", "dhe_rsa_with_aes_256_cbc_sha256">>)
 @@ "kms_fips_tls_1_2_2018_10" :> <<"ecdhe_rsa_with_aes_256_gcm_sha384", "ecdhe_rsa_with_aes_128_gcm_sha256",
        "ecdhe_rsa_with_aes_256_cbc_sha384", "ecdhe_rsa_with_aes_128_cbc_sha256",
        "dhe_rsa_with_aes_256_cbc_sha256", "dhe_rsa_with_aes_128_cbc_sha256">>
 @@ "kms_fips_tls_1_2_2021_08" :> <<"tls13_aes_128_gcm_sha256", "tls13_aes_256_gcm_sha384",
        "ecdhe_rsa_with_aes_256_gcm_sha384", "ecdhe_rsa_with_aes_128_gcm_sha256",
        "ecdhe_rsa_with_aes_256_cbc_sha384", "ecdhe_rsa_with_aes_128_cbc_sha256",
        "dhe_rsa_with_aes_256_cbc_sha256", "dhe_rsa_with_aes_128_cbc_sha256">>
 @@ "20210816" :> <<"ecdhe_ecdsa_with_aes_256_cbc_sha384", "ecdhe_rsa_with_aes_256_cbc_sha384",
        "ecdhe_ecdsa_with_aes_256_gcm_sha384", "ecdhe_rsa_with_aes_256_gcm_sha384">>
 @@ "20210816_gcm" :> <<"ecdhe_ecdsa_with_aes_256_gcm_sha384", "ecdhe_rsa_with_aes_256_gcm_sha384",
        "ecdhe_ecdsa_with_aes_256_cbc_sha384", "ecdhe_rsa_with_aes_256_cbc_sha384">>

CipherPreferences14 ==
    "test_all" :> <<"rsa_with_rc4_128_md5", "rsa_with_rc4_128_sha", "rsa_with_3des_ede_cbc_sha",
        "dhe_rsa_with_3des_ede_cbc_sha", "rsa_with_aes_128_cbc_sha", "dhe_rsa_with_aes_128_cbc_sha",
        "rsa_with_aes_256_cbc_sha", "dhe_rsa_with_aes_256_cbc_sha", "rsa_with_aes_128_cbc_sha256",
        "rsa_with_aes_256_cbc_sha256", "dhe_rsa_with_aes_128_cbc_sha256", "dhe_rsa_with_aes_256_cbc_sha256",
        "rsa_with_aes_128_gcm_sha256", "rsa_with_aes_256_gcm_sha384", "dhe_rsa_with_aes_128_gcm_sha256",
        "dhe_rsa_with_aes_256_gcm_sha384", "tls13_aes_128_gcm_sha256", "tls13_aes_256_gcm_sha384",
        "tls13_chacha20_poly1305_sha256", "ecdhe_ecdsa_with_aes_128_cbc_sha",
        "ecdhe_ecdsa_with_aes_256_cbc_sha", "ecdhe_rsa_with_rc4_128_sha", "ecdhe_rsa_with_3des_ede_cbc_sha",
        "ecdhe_rsa_with_aes_128_cbc_sha", "ecdhe_rsa_with_aes_256_cbc_sha",
        "ecdhe_ecdsa_with_aes_128_cbc_sha256", "ecdhe_ecdsa_with_aes_256_cbc_sha384",
        "ecdhe_rsa_with_aes_128_cbc_sha256", "ecdhe_rsa_with_aes_256_cbc_sha384",
        "ecdhe_ecdsa_with_aes_128_gcm_sha256", "ecdhe_ecdsa_with_aes_256_gcm_sha384",
        "ecdhe_rsa_with_aes_128_gcm_sha256", "ecdhe_rsa_with_aes_256_gcm_sha384",
        "ecdhe_rsa_with_chacha20_poly1305_sha256", "ecdhe_ecdsa_with_chacha20_poly1305_sha256",
        "dhe_rsa_with_chacha20_poly1305_sha256", "ecdhe_bike_rsa_with_aes_256_gcm_sha384",
        "ecdhe_sike_rsa_with_aes_256_gcm_sha384", "ecdhe_kyber_rsa_with_aes_256_gcm_sha384">>
 @@ "test_all_tls12" :> <<"rsa_with_rc4_128_md5", "rsa_with_rc4_128_sha", "rsa_with_3des_ede_cbc_sha",
        "dhe_rsa_with_3des_ede_cbc_sha", "rsa_with_aes_128_cbc_sha", "dhe_rsa_with_aes_128_cbc_sha",
        "rsa_with_aes_256_cbc_sha", "dhe_rsa_with_aes_256_cbc_sha", "rsa_with_aes_128_cbc_sha256",
        "rsa_with_aes_256_cbc_sha256", "dhe_rsa_with_aes_128_cbc_sha256", "dhe_rsa_with_aes_256_cbc_sha256",
        "rsa_with_aes_128_gcm_sha256", "rsa_with_aes_256_gcm_sha384", "dhe_rsa_with_aes_128_gcm_sha256",
        "dhe_rsa_with_aes_256_gcm_sha384", "ecdhe_ecdsa_with_aes_128_cbc_sha",
        "ecdhe_ecdsa_with_aes_256_cbc_sha", "ecdhe_rsa_with_rc4_128_sha", "ecdhe_rsa_with_3des_ede_cbc_sha",
        "ecdhe_rsa_with_aes_128_cbc_sha", "ecdhe_rsa_with_aes_256_cbc_sha",
        "ecdhe_ecdsa_with_aes_128_cbc_sha256", "ecdhe_ecdsa_with_aes_256_cbc_sha384",
        "ecdhe_rsa_with_aes_128_cbc_sha256", "ecdhe_rsa_with_aes_256_cbc_sha384",
        "ecdhe_ecdsa_with_aes_128_gcm_sha256", "ecdhe_ecdsa_with_aes_256_gcm_sha384",
        "ecdhe_rsa_with_aes_128_gcm_sha256", "ecdhe_rsa_with_aes_256_gcm_sha384",
        "ecdhe_rsa_with_chacha20_poly1305_sha256", "ecdhe_ecdsa_with_chacha20_poly1305_sha256",
        "dhe_rsa_with_chacha20_poly1305_sha256", "ecdhe_bike_rsa_with_aes_256_gcm_sha384",
        "ecdhe_sike_rsa_with_aes_256_gcm_sha384", "ecdhe_kyber_rsa_with_aes_256_gcm_sha384">>
 @@ "test_all_fips" :> <<"rsa_with_3des_ede_cbc_sha", "rsa_with_aes_128_cbc_sha", "rsa_with_aes_256_cbc_sha",
        "rsa_with_aes_128_cbc_sha256", "rsa_with_aes_256_cbc_sha256", "dhe_rsa_with_aes_128_cbc_sha256",
        "dhe_rsa_with_aes_256_cbc_sha256", "rsa_with_aes_128_gcm_sha256", "rsa_with_aes_256_gcm_sha384",
        "dhe_rsa_with_aes_128_gcm_sha256", "dhe_rsa_with_aes_256_gcm_sha384",
        "ecdhe_ecdsa_with_aes_128_cbc_sha256", "ecdhe_ecdsa_with_aes_256_cbc_sha384",
        "ecdhe_rsa_with_aes_128_cbc_sha256", "ecdhe_rsa_with_aes_256_cbc_sha384",
        "ecdhe_ecdsa_with_aes_128_gcm_sha256", "ecdhe_ecdsa_with_aes_256_gcm_sha384",
        "ecdhe_rsa_with_aes_128_gcm_sha256", "ecdhe_rsa_with_aes_256_gcm_sha384">>
 @@ "test_all_ecdsa" :> <<"ecdhe_ecdsa_with_aes_128_cbc_sha", "ecdhe_ecdsa_with_aes_256_cbc_sha",
        "ecdhe_ecdsa_with_aes_128_cbc_sha256", "ecdhe_ecdsa_with_aes_256_cbc_sha384",
        "ecdhe_ecdsa_with_aes_128_gcm_sha256", "ecdhe_ecdsa_with_aes_256_gcm_sha384",
        "ecdhe_ecdsa_with_chacha20_poly1305_sha256">>

CipherPreferences15 ==
    "test_all_rsa_kex" :> <<"rsa_with_aes_128_cbc_sha", "rsa_with_rc4_128_md5", "rsa_with_rc4_128_sha",
        "rsa_with_3des_ede_cbc_sha", "rsa_with_aes_128_cbc_sha", "rsa_with_aes_256_cbc_sha",
        "rsa_with_aes_128_cbc_sha256", "rsa_with_aes_256_cbc_sha256", "rsa_with_aes_128_gcm_sha256",
        "rsa_with_aes_256_gcm_sha384">>
 @@ "test_ecdsa_priority" :> <<"ecdhe_ecdsa_with_aes_128_cbc_sha", "ecdhe_ecdsa_with_aes_256_cbc_sha",
        "ecdhe_ecdsa_with_aes_128_cbc_sha256", "ecdhe_ecdsa_with_aes_256_cbc_sha384",
        "ecdhe_ecdsa_with_aes_128_gcm_sha256", "ecdhe_ecdsa_with_aes_256_gcm_sha384",
        "ecdhe_ecdsa_with_chacha20_poly1305_sha256", "rsa_with_rc4_128_md5", "rsa_with_rc4_128_sha",
        "rsa_with_3des_ede_cbc_sha", "dhe_rsa_with_3des_ede_cbc_sha", "rsa_with_aes_128_cbc_sha",
        "dhe_rsa_with_aes_128_cbc_sha", "rsa_with_aes_256_cbc_sha", "dhe_rsa_with_aes_256_cbc_sha",
        "rsa_with_aes_128_cbc_sha256", "rsa_with_aes_256_cbc_sha256", "dhe_rsa_with_aes_128_cbc_sha256",
        "dhe_rsa_with_aes_256_cbc_sha256", "rsa_with_aes_128_gcm_sha256", "rsa_with_aes_256_gcm_sha384",
        "dhe_rsa_with_aes_128_gcm_sha256", "dhe_rsa_with_aes_256_gcm_sha384", "ecdhe_rsa_with_rc4_128_sha",
        "ecdhe_rsa_with_3des_ede_cbc_sha", "ecdhe_rsa_with_aes_128_cbc_sha", "ecdhe_rsa_with_aes_256_cbc_sha",
        "ecdhe_rsa_with_aes_128_cbc_sha256", "ecdhe_rsa_with_aes_256_cbc_sha384",
        "ecdhe_rsa_with_aes_128_gcm_sha256", "ecdhe_rsa_with_aes_256_gcm_sha384",
        "ecdhe_rsa_with_chacha20_poly1305_sha256", "dhe_rsa_with_chacha20_poly1305_sha256">>
 @@ "test_all_tls13" :> <<"tls13_aes_128_gcm_sha256", "tls13_aes_256_gcm_sha384",
        "tls13_chacha20_poly1305_sha256">>

\* All of them, by the name of the source without its prefix.
cipher_preferences == CipherPreferences1 @@ CipherPreferences2 @@ CipherPreferences3 @@ CipherPreferences4 @@
    CipherPreferences5 @@ CipherPreferences6 @@ CipherPreferences7 @@ CipherPreferences8 @@ CipherPreferences9
    @@ CipherPreferences10 @@ CipherPreferences11 @@ CipherPreferences12 @@ CipherPreferences13 @@
    CipherPreferences14 @@ CipherPreferences15
=================================================================================
