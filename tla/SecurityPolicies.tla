----------------------------- MODULE SecurityPolicies -----------------------------
(***************************************************************************)
(* The security policies of tls/s2n_security_policies.c and the preference  *)
(* lists they are made of: signature schemes, curves, KEMs and hybrid       *)
(* groups.  A policy is named as in the source, without the prefix          *)
(* "security_policy_"; an application names it by a version string.         *)
(***************************************************************************)
EXTENDS CipherPreferences, SequencesExt

\* A signature scheme: the value on the wire, algorithm, hash, curve, and its range of versions (0 is no bound).
SignatureScheme(iana, sig, hash, curve, min, max) ==
    [iana_value |-> iana, sig_alg |-> sig, hash_alg |-> hash, signature_curve |-> curve,
     minimum_protocol_version |-> min, maximum_protocol_version |-> max]

SchemesRsa ==
    "rsa_pkcs1_md5_sha1" :> SignatureScheme("rsa_pkcs1_md5_sha1", "RSA", "MD5_SHA1", NULL, 0, S2N_TLS12)
 @@ "rsa_pkcs1_sha1" :> SignatureScheme("rsa_pkcs1_sha1", "RSA", "SHA1", NULL, 0, S2N_TLS12)
 @@ "rsa_pkcs1_sha224" :> SignatureScheme("rsa_pkcs1_sha224", "RSA", "SHA224", NULL, 0, S2N_TLS12)
 @@ "rsa_pkcs1_sha256" :> SignatureScheme("rsa_pkcs1_sha256", "RSA", "SHA256", NULL, 0, S2N_TLS12)
 @@ "rsa_pkcs1_sha384" :> SignatureScheme("rsa_pkcs1_sha384", "RSA", "SHA384", NULL, 0, S2N_TLS12)
 @@ "rsa_pkcs1_sha512" :> SignatureScheme("rsa_pkcs1_sha512", "RSA", "SHA512", NULL, 0, S2N_TLS12)

SchemesEcdsa ==
    "ecdsa_sha1" :> SignatureScheme("ecdsa_sha1", "ECDSA", "SHA1", NULL, 0, S2N_TLS12)
 @@ "ecdsa_sha224" :> SignatureScheme("ecdsa_sha224", "ECDSA", "SHA224", NULL, 0, S2N_TLS12)
 @@ "ecdsa_sha256" :> SignatureScheme("ecdsa_sha256", "ECDSA", "SHA256", NULL, 0, S2N_TLS12)
 @@ "ecdsa_sha384" :> SignatureScheme("ecdsa_sha384", "ECDSA", "SHA384", NULL, 0, S2N_TLS12)
 @@ "ecdsa_sha512" :> SignatureScheme("ecdsa_sha512", "ECDSA", "SHA512", NULL, 0, S2N_TLS12)
 @@ "ecdsa_secp256r1_sha256" :> SignatureScheme("ecdsa_sha256", "ECDSA", "SHA256", "secp256r1", S2N_TLS13, 0)
 @@ "ecdsa_secp384r1_sha384" :> SignatureScheme("ecdsa_sha384", "ECDSA", "SHA384", "secp384r1", S2N_TLS13, 0)
 @@ "ecdsa_secp521r1_sha512" :> SignatureScheme("ecdsa_sha512", "ECDSA", "SHA512", "secp521r1", S2N_TLS13, 0)

SchemesPss ==
    "rsa_pss_rsae_sha256" :> SignatureScheme("rsa_pss_rsae_sha256", "RSA_PSS_RSAE", "SHA256", NULL, 0, 0)
 @@ "rsa_pss_rsae_sha384" :> SignatureScheme("rsa_pss_rsae_sha384", "RSA_PSS_RSAE", "SHA384", NULL, 0, 0)
 @@ "rsa_pss_rsae_sha512" :> SignatureScheme("rsa_pss_rsae_sha512", "RSA_PSS_RSAE", "SHA512", NULL, 0, 0)
 @@ "rsa_pss_pss_sha256" :> SignatureScheme("rsa_pss_pss_sha256", "RSA_PSS_PSS", "SHA256", NULL, S2N_TLS13, 0)
 @@ "rsa_pss_pss_sha384" :> SignatureScheme("rsa_pss_pss_sha384", "RSA_PSS_PSS", "SHA384", NULL, S2N_TLS13, 0)
 @@ "rsa_pss_pss_sha512" :> SignatureScheme("rsa_pss_pss_sha512", "RSA_PSS_PSS", "SHA512", NULL, S2N_TLS13, 0)

Scheme == SchemesRsa @@ SchemesEcdsa @@ SchemesPss

signature_preferences ==
    "20140601" :> <<"rsa_pkcs1_sha256", "rsa_pkcs1_sha384", "rsa_pkcs1_sha512", "rsa_pkcs1_sha224",
        "ecdsa_sha256", "ecdsa_secp256r1_sha256", "ecdsa_sha384", "ecdsa_secp384r1_sha384", "ecdsa_sha512",
        "ecdsa_sha224", "rsa_pkcs1_sha1", "ecdsa_sha1">>
 @@ "20200207" :> <<"rsa_pss_pss_sha256", "rsa_pss_pss_sha384", "rsa_pss_pss_sha512", "rsa_pss_rsae_sha256",
        "rsa_pss_rsae_sha384", "rsa_pss_rsae_sha512", "rsa_pkcs1_sha256", "rsa_pkcs1_sha384",
        "rsa_pkcs1_sha512", "rsa_pkcs1_sha224", "ecdsa_sha256", "ecdsa_secp256r1_sha256", "ecdsa_sha384",
        "ecdsa_secp384r1_sha384", "ecdsa_sha512", "ecdsa_sha224", "rsa_pkcs1_sha1", "ecdsa_sha1">>
 @@ "20201021" :> <<"rsa_pss_pss_sha256", "rsa_pss_pss_sha384", "rsa_pss_pss_sha512", "rsa_pss_rsae_sha256",
        "rsa_pss_rsae_sha384", "rsa_pss_rsae_sha512", "rsa_pkcs1_sha256", "rsa_pkcs1_sha384",
        "rsa_pkcs1_sha512", "rsa_pkcs1_sha224", "ecdsa_sha256", "ecdsa_secp256r1_sha256", "ecdsa_sha384",
        "ecdsa_secp384r1_sha384", "ecdsa_sha512", "ecdsa_secp521r1_sha512", "ecdsa_sha224", "rsa_pkcs1_sha1",
        "ecdsa_sha1">>
 @@ "null" :> <<>>
 @@ "certificate_20201110" :> <<"rsa_pss_pss_sha256", "rsa_pss_pss_sha384", "rsa_pss_pss_sha512",
        "rsa_pss_rsae_sha256", "rsa_pss_rsae_sha384", "rsa_pss_rsae_sha512", "rsa_pkcs1_sha256",
        "rsa_pkcs1_sha384", "rsa_pkcs1_sha512", "rsa_pkcs1_sha224", "ecdsa_sha256", "ecdsa_secp256r1_sha256",
        "ecdsa_sha384", "ecdsa_secp384r1_sha384", "ecdsa_sha512", "ecdsa_sha224">>
 @@ "20210816" :> <<"rsa_pkcs1_sha384", "rsa_pkcs1_sha512", "ecdsa_sha384", "ecdsa_sha512">>

ecc_preferences ==
    "20140601" :> <<"secp256r1", "secp384r1">>
 @@ "20200310" :> <<"x25519", "secp256r1", "secp384r1">>
 @@ "20201021" :> <<"secp256r1", "secp384r1", "secp521r1">>
 @@ "20210816" :> <<"secp384r1">>
 @@ "test_all" :> <<"x25519", "secp256r1", "secp384r1", "secp521r1">>
 @@ "null" :> <<>>
s2n_all_supported_curves_list == <<"secp256r1", "secp384r1", "x25519", "secp521r1">>

\* The KEMs of hybrid TLS 1.2, and the groups of hybrid TLS 1.3: a curve and a KEM together.
pq_kems ==
    "r1" :> <<"bike1_l1_r1", "sike_p503_r1">>
 @@ "r2r1" :> <<"bike1_l1_r2", "sike_p434_r3", "bike1_l1_r1", "sike_p503_r1">>
 @@ "r2r1_2020_07" :> <<"kyber_512_r2", "bike1_l1_r2", "sike_p434_r3", "bike1_l1_r1", "sike_p503_r1">>
 @@ "r3r2r1_2021_05" :> <<"kyber_512_r3", "bike_l1_r3", "kyber_512_r2", "bike1_l1_r2", "sike_p434_r3",
        "bike1_l1_r1", "sike_p503_r1">>
 @@ "sike_r1" :> <<"sike_p503_r1">>
 @@ "sike_r2r1" :> <<"sike_p434_r3", "sike_p503_r1">>
KemGroup(curve, kem) == [curve |-> curve, kem |-> kem]
GroupsOf(kems) == FlattenSeq([i \in 1..Len(kems) |-> <<KemGroup("x25519", kems[i]), KemGroup("secp256r1", kems[i])>>])
pq_kem_groups ==
    "r2" :> GroupsOf(<<"kyber_512_r2", "bike1_l1_r2", "sike_p434_r3">>)
 @@ "r3r2" :> GroupsOf(<<"kyber_512_r3", "bike_l1_r3", "kyber_512_r2", "bike1_l1_r2", "sike_p434_r3">>)

KemPreferences(kems, groups) == [kems |-> kems, tls13_kem_groups |-> groups]
kem_preferences ==
    "kms_pq_tls_1_0_2019_06" :> KemPreferences(pq_kems["r1"], <<>>)
 @@ "kms_pq_tls_1_0_2020_02" :> KemPreferences(pq_kems["r2r1"], <<>>)
 @@ "kms_pq_tls_1_0_2020_07" :> KemPreferences(pq_kems["r2r1_2020_07"], <<>>)
 @@ "pq_sike_test_tls_1_0_2019_11" :> KemPreferences(pq_kems["sike_r1"], <<>>)
 @@ "pq_sike_test_tls_1_0_2020_02" :> KemPreferences(pq_kems["sike_r2r1"], <<>>)
 @@ "pq_tls_1_0_2020_12" :> KemPreferences(pq_kems["r2r1_2020_07"], pq_kem_groups["r2"])
 @@ "pq_tls_1_0_2021_05" :> KemPreferences(pq_kems["r3r2r1_2021_05"], pq_kem_groups["r3r2"])
 @@ "null" :> KemPreferences(<<>>, <<>>)

\* The KEMs each hybrid suite of TLS 1.2 may use.
kem_mapping == [s \in {"ecdhe_bike_rsa_with_aes_256_gcm_sha384", "ecdhe_sike_rsa_with_aes_256_gcm_sha384",
                       "ecdhe_kyber_rsa_with_aes_256_gcm_sha384"} |->
    CASE s = "ecdhe_bike_rsa_with_aes_256_gcm_sha384" -> {"bike1_l1_r1", "bike1_l1_r2", "bike_l1_r3"}
      [] s = "ecdhe_sike_rsa_with_aes_256_gcm_sha384" -> {"sike_p503_r1", "sike_p434_r3"}
      [] OTHER -> {"kyber_512_r2", "kyber_512_90s_r2", "kyber_512_r3"}]

AnyScheme == << >>
\* A policy: lowest version, cipher suites, KEMs, signature schemes, schemes allowed in certificates (AnyScheme for no limit), curves.
Policy(min, ciphers, kems, sigs, certsigs, curves) ==
    [minimum_protocol_version |-> min, cipher_preferences |-> ciphers, kem_preferences |-> kems,
     signature_preferences |-> sigs, certificate_signature_preferences |-> certsigs, ecc_preferences |-> curves]

\* Most policies share the lists of one of two dates.
Of2014(min, ciphers) == Policy(min, ciphers, kem_preferences["null"], signature_preferences["20140601"], AnyScheme,
                               ecc_preferences["20140601"])
Of2020(min, ciphers) == Policy(min, ciphers, kem_preferences["null"], signature_preferences["20200207"], AnyScheme,
                               ecc_preferences["20200310"])

Policies1 ==
    "20170210" :> Of2014(S2N_TLS10, cipher_preferences["20170210"])
 @@ "default_tls13" :> Policy(S2N_TLS10, cipher_preferences["20210831"], kem_preferences["null"],
        signature_preferences["20200207"], signature_preferences["certificate_20201110"],
        ecc_preferences["20200310"])
 @@ "20190801" :> Of2020(S2N_TLS10, cipher_preferences["20190801"])
 @@ "20190802" :> Policy(S2N_TLS10, cipher_preferences["20190801"], kem_preferences["null"],
        signature_preferences["20200207"], AnyScheme, ecc_preferences["20140601"])
 @@ "20170405" :> Of2014(S2N_TLS10, cipher_preferences["20170405"])
 @@ "20170405_gcm" :> Of2014(S2N_TLS10, cipher_preferences["20170405_gcm"])
 @@ "elb_2015_04" :> Of2014(S2N_TLS10, cipher_preferences["elb_security_policy_2015_04"])
 @@ "elb_2016_08" :> Of2014(S2N_TLS10, cipher_preferences["elb_security_policy_2016_08"])
 @@ "elb_tls_1_1_2017_01" :> Of2014(S2N_TLS11, cipher_preferences["elb_security_policy_tls_1_1_2017_01"])
 @@ "elb_tls_1_2_2017_01" :> Of2014(S2N_TLS12, cipher_preferences["elb_security_policy_tls_1_2_2017_01"])
 @@ "elb_tls_1_2_ext_2018_06" :> Of2014(S2N_TLS12, cipher_preferences["elb_security_policy_tls_1_2_ext_2018_06"])
 @@ "elb_fs_2018_06" :> Of2014(S2N_TLS10, cipher_preferences["elb_security_policy_fs_2018_06"])
 @@ "elb_fs_1_2_2019_08" :> Of2014(S2N_TLS12, cipher_preferences["elb_security_policy_fs_1_2_2019_08"])
 @@ "elb_fs_1_1_2019_08" :> Of2014(S2N_TLS11, cipher_preferences["elb_security_policy_fs_1_1_2019_08"])
 @@ "elb_fs_1_2_Res_2019_08" :> Of2014(S2N_TLS12, cipher_preferences["elb_security_policy_fs_1_2_Res_2019_08"])
 @@ "cloudfront_upstream" :> Of2014(S2N_SSLv3, cipher_preferences["cloudfront_upstream"])
 @@ "cloudfront_upstream_tls10" :> Of2014(S2N_TLS10, cipher_preferences["cloudfront_upstream_tls10"])

Policies2 ==
    "cloudfront_upstream_tls11" :> Of2014(S2N_TLS11, cipher_preferences["cloudfront_upstream_tls11"])
 @@ "cloudfront_upstream_tls12" :> Of2014(S2N_TLS12, cipher_preferences["cloudfront_upstream_tls12"])
 @@ "cloudfront_ssl_v_3" :> Of2020(S2N_SSLv3, cipher_preferences["cloudfront_ssl_v_3"])
 @@ "cloudfront_tls_1_0_2014" :> Of2020(S2N_TLS10, cipher_preferences["cloudfront_tls_1_0_2014"])
 @@ "cloudfront_tls_1_0_2016" :> Of2020(S2N_TLS10, cipher_preferences["cloudfront_tls_1_0_2016"])
 @@ "cloudfront_tls_1_1_2016" :> Of2020(S2N_TLS11, cipher_preferences["cloudfront_tls_1_1_2016"])
 @@ "cloudfront_tls_1_2_2018" :> Of2020(S2N_TLS12, cipher_preferences["cloudfront_tls_1_2_2018"])
 @@ "cloudfront_tls_1_2_2019" :> Of2020(S2N_TLS12, cipher_preferences["cloudfront_tls_1_2_2019"])
 @@ "cloudfront_tls_1_2_2021" :> Of2020(S2N_TLS12, cipher_preferences["cloudfront_tls_1_2_2021"])
 @@ "cloudfront_ssl_v_3_legacy" :> Of2014(S2N_SSLv3, cipher_preferences["cloudfront_ssl_v_3_legacy"])
 @@ "cloudfront_tls_1_0_2014_legacy" :> Of2014(S2N_TLS10, cipher_preferences["cloudfront_tls_1_0_2014_legacy"])
 @@ "cloudfront_tls_1_0_2016_legacy" :> Of2014(S2N_TLS10, cipher_preferences["cloudfront_tls_1_0_2016_legacy"])
 @@ "cloudfront_tls_1_1_2016_legacy" :> Of2014(S2N_TLS11, cipher_preferences["cloudfront_tls_1_1_2016_legacy"])
 @@ "cloudfront_tls_1_2_2018_legacy" :> Of2014(S2N_TLS12, cipher_preferences["cloudfront_tls_1_2_2018_legacy"])
 @@ "cloudfront_tls_1_2_2019_legacy" :> Of2014(S2N_TLS12, cipher_preferences["cloudfront_tls_1_2_2019_legacy"])
 @@ "aws_crt_sdk_ssl_v3" :> Of2020(S2N_SSLv3, cipher_preferences["aws_crt_sdk_ssl_v3"])
 @@ "aws_crt_sdk_tls_10" :> Of2020(S2N_TLS10, cipher_preferences["aws_crt_sdk_default"])
 @@ "aws_crt_sdk_tls_11" :> Of2020(S2N_TLS11, cipher_preferences["aws_crt_sdk_default"])

Policies3 ==
    "aws_crt_sdk_tls_12" :> Of2020(S2N_TLS12, cipher_preferences["aws_crt_sdk_default"])
 @@ "aws_crt_sdk_tls_13" :> Of2020(S2N_TLS13, cipher_preferences["aws_crt_sdk_tls_13"])
 @@ "kms_tls_1_0_2018_10" :> Of2014(S2N_TLS10, cipher_preferences["kms_tls_1_0_2018_10"])
 @@ "kms_tls_1_0_2021_08" :> Of2020(S2N_TLS10, cipher_preferences["kms_tls_1_0_2021_08"])
 @@ "kms_pq_tls_1_0_2019_06" :> Policy(S2N_TLS10, cipher_preferences["kms_pq_tls_1_0_2019_06"],
        kem_preferences["kms_pq_tls_1_0_2019_06"], signature_preferences["20140601"], AnyScheme,
        ecc_preferences["20140601"])
 @@ "kms_pq_tls_1_0_2020_02" :> Policy(S2N_TLS10, cipher_preferences["kms_pq_tls_1_0_2020_02"],
        kem_preferences["kms_pq_tls_1_0_2020_02"], signature_preferences["20140601"], AnyScheme,
        ecc_preferences["20140601"])
 @@ "pq_sike_test_tls_1_0_2019_11" :> Policy(S2N_TLS10, cipher_preferences["pq_sike_test_tls_1_0_2019_11"],
        kem_preferences["pq_sike_test_tls_1_0_2019_11"], signature_preferences["20140601"], AnyScheme,
        ecc_preferences["20140601"])
 @@ "pq_sike_test_tls_1_0_2020_02" :> Policy(S2N_TLS10, cipher_preferences["pq_sike_test_tls_1_0_2020_02"],
        kem_preferences["pq_sike_test_tls_1_0_2020_02"], signature_preferences["20140601"], AnyScheme,
        ecc_preferences["20140601"])
 @@ "kms_pq_tls_1_0_2020_07" :> Policy(S2N_TLS10, cipher_preferences["kms_pq_tls_1_0_2020_07"],
        kem_preferences["kms_pq_tls_1_0_2020_07"], signature_preferences["20140601"], AnyScheme,
        ecc_preferences["20140601"])
 @@ "pq_tls_1_0_2020_12" :> Policy(S2N_TLS10, cipher_preferences["pq_tls_1_0_2020_12"],
        kem_preferences["pq_tls_1_0_2020_12"], signature_preferences["20200207"], AnyScheme,
        ecc_preferences["20200310"])
 @@ "pq_tls_1_1_2021_05_17" :> Policy(S2N_TLS11, cipher_preferences["pq_tls_1_1_2021_05_17"],
        kem_preferences["pq_tls_1_0_2021_05"], signature_preferences["20140601"], AnyScheme,
        ecc_preferences["20200310"])
 @@ "pq_tls_1_0_2021_05_18" :> Policy(S2N_TLS10, cipher_preferences["pq_tls_1_0_2021_05_18"],
        kem_preferences["pq_tls_1_0_2021_05"], signature_preferences["20140601"], AnyScheme,
        ecc_preferences["20200310"])
 @@ "pq_tls_1_0_2021_05_19" :> Policy(S2N_TLS10, cipher_preferences["pq_tls_1_0_2021_05_19"],
        kem_preferences["pq_tls_1_0_2021_05"], signature_preferences["20140601"], AnyScheme,
        ecc_preferences["20200310"])
 @@ "pq_tls_1_0_2021_05_20" :> Policy(S2N_TLS10, cipher_preferences["kms_pq_tls_1_0_2020_07"],
        kem_preferences["pq_tls_1_0_2021_05"], signature_preferences["20140601"], AnyScheme,
        ecc_preferences["20200310"])
 @@ "pq_tls_1_1_2021_05_21" :> Policy(S2N_TLS11, cipher_preferences["pq_tls_1_1_2021_05_21"],
        kem_preferences["pq_tls_1_0_2021_05"], signature_preferences["20200207"], AnyScheme,
        ecc_preferences["20200310"])
 @@ "pq_tls_1_0_2021_05_22" :> Policy(S2N_TLS10, cipher_preferences["pq_tls_1_0_2021_05_22"],
        kem_preferences["pq_tls_1_0_2021_05"], signature_preferences["20200207"], AnyScheme,
        ecc_preferences["20200310"])
 @@ "pq_tls_1_0_2021_05_23" :> Policy(S2N_TLS10, cipher_preferences["pq_tls_1_0_2021_05_23"],
        kem_preferences["pq_tls_1_0_2021_05"], signature_preferences["20200207"], AnyScheme,
        ecc_preferences["20200310"])
 @@ "pq_tls_1_0_2021_05_24" :> Policy(S2N_TLS10, cipher_preferences["pq_tls_1_0_2021_05_24"],
        kem_preferences["pq_tls_1_0_2021_05"], signature_preferences["20200207"], AnyScheme,
        ecc_preferences["20200310"])

Policies4 ==
    "pq_tls_1_0_2021_05_25" :> Policy(S2N_TLS10, cipher_preferences["pq_tls_1_0_2021_05_25"],
        kem_preferences["pq_tls_1_0_2021_05"], signature_preferences["20140601"], AnyScheme,
        ecc_preferences["20200310"])
 @@ "pq_tls_1_0_2021_05_26" :> Policy(S2N_TLS10, cipher_preferences["pq_tls_1_0_2021_05_26"],
        kem_preferences["pq_tls_1_0_2021_05"], signature_preferences["20200207"], AnyScheme,
        ecc_preferences["20200310"])
 @@ "kms_fips_tls_1_2_2018_10" :> Of2014(S2N_TLS12, cipher_preferences["kms_fips_tls_1_2_2018_10"])
 @@ "kms_fips_tls_1_2_2021_08" :> Policy(S2N_TLS12, cipher_preferences["kms_fips_tls_1_2_2021_08"],
        kem_preferences["null"], signature_preferences["20200207"], AnyScheme, ecc_preferences["20140601"])
 @@ "20140601" :> Of2014(S2N_SSLv3, cipher_preferences["20140601"])
 @@ "20141001" :> Of2014(S2N_TLS10, cipher_preferences["20141001"])
 @@ "20150202" :> Of2014(S2N_TLS10, cipher_preferences["20150202"])
 @@ "20150214" :> Of2014(S2N_TLS10, cipher_preferences["20150214"])
 @@ "20160411" :> Of2014(S2N_TLS10, cipher_preferences["20160411"])
 @@ "20150306" :> Of2014(S2N_TLS10, cipher_preferences["20150306"])
 @@ "20160804" :> Of2014(S2N_TLS10, cipher_preferences["20160804"])
 @@ "20160824" :> Of2014(S2N_TLS10, cipher_preferences["20160824"])
 @@ "20190122" :> Of2014(S2N_TLS10, cipher_preferences["20190122"])
 @@ "20190121" :> Of2014(S2N_TLS10, cipher_preferences["20190121"])
 @@ "20190120" :> Of2014(S2N_TLS10, cipher_preferences["20190120"])
 @@ "20190214" :> Of2014(S2N_TLS10, cipher_preferences["20190214"])
 @@ "20190214_gcm" :> Of2014(S2N_TLS10, cipher_preferences["20190214_gcm"])
 @@ "20210825" :> Of2020(S2N_TLS10, cipher_preferences["20210825"])

Policies5 ==
    "20210825_gcm" :> Of2020(S2N_TLS10, cipher_preferences["20210825_gcm"])
 @@ "20170328" :> Of2014(S2N_TLS10, cipher_preferences["20170328"])
 @@ "20170328_gcm" :> Of2014(S2N_TLS10, cipher_preferences["20170328_gcm"])
 @@ "20170718" :> Of2014(S2N_TLS10, cipher_preferences["20170718"])
 @@ "20170718_gcm" :> Of2014(S2N_TLS10, cipher_preferences["20170718_gcm"])
 @@ "20201021" :> Policy(S2N_TLS10, cipher_preferences["20190122"], kem_preferences["null"],
        signature_preferences["20201021"], AnyScheme, ecc_preferences["20201021"])
 @@ "20210816" :> Policy(S2N_TLS12, cipher_preferences["20210816"], kem_preferences["null"],
        signature_preferences["20210816"], AnyScheme, ecc_preferences["20210816"])
 @@ "20210816_gcm" :> Policy(S2N_TLS12, cipher_preferences["20210816_gcm"], kem_preferences["null"],
        signature_preferences["20210816"], AnyScheme, ecc_preferences["20210816"])
 @@ "test_all" :> Policy(S2N_SSLv3, cipher_preferences["test_all"], kem_preferences["kms_pq_tls_1_0_2020_07"],
        signature_preferences["20201021"], AnyScheme, ecc_preferences["test_all"])
 @@ "test_all_tls12" :> Policy(S2N_SSLv3, cipher_preferences["test_all_tls12"],
        kem_preferences["kms_pq_tls_1_0_2020_07"], signature_preferences["20201021"], AnyScheme,
        ecc_preferences["20201021"])
 @@ "test_all_fips" :> Policy(S2N_TLS10, cipher_preferences["test_all_fips"], kem_preferences["null"],
        signature_preferences["20201021"], AnyScheme, ecc_preferences["20201021"])
 @@ "test_all_ecdsa" :> Policy(S2N_TLS10, cipher_preferences["test_all_ecdsa"], kem_preferences["null"],
        signature_preferences["20201021"], AnyScheme, ecc_preferences["test_all"])
 @@ "test_all_rsa_kex" :> Of2014(S2N_TLS10, cipher_preferences["test_all_rsa_kex"])
 @@ "test_all_tls13" :> Policy(S2N_SSLv3, cipher_preferences["test_all_tls13"], kem_preferences["null"],
        signature_preferences["20201021"], AnyScheme, ecc_preferences["test_all"])
 @@ "test_ecdsa_priority" :> Policy(S2N_SSLv3, cipher_preferences["test_ecdsa_priority"], kem_preferences["null"],
        signature_preferences["20201021"], AnyScheme, ecc_preferences["test_all"])
 @@ "null" :> Policy(S2N_TLS10, cipher_preferences["null"], kem_preferences["null"], signature_preferences["null"],
        AnyScheme, ecc_preferences["null"])

Policies == Policies1 @@ Policies2 @@ Policies3 @@ Policies4 @@ Policies5

\* The names applications use.
SameName == { "default_tls13", "20140601", "20141001", "20150202", "20150214", "20150306", "20160411",
    "20160804", "20160824", "20170210", "20170328", "20170328_gcm", "20190214", "20190214_gcm", "20210825",
    "20210825_gcm", "20170405", "20170405_gcm", "20170718", "20170718_gcm", "20190120", "20190121", "20190122",
    "20190801", "20190802", "20201021", "20210816", "test_all", "test_all_fips", "test_all_ecdsa",
    "test_all_rsa_kex", "test_ecdsa_priority", "test_all_tls12", "test_all_tls13", "null"}
Renamed ==
    "default" :> "20170210" @@ "default_fips" :> "20170405"
    @@ "ELBSecurityPolicy-TLS-1-0-2015-04" :> "elb_2015_04"
    @@ "ELBSecurityPolicy-TLS-1-0-2015-05" :> "elb_2016_08" @@ "ELBSecurityPolicy-2016-08" :> "elb_2016_08"
    @@ "ELBSecurityPolicy-TLS-1-1-2017-01" :> "elb_tls_1_1_2017_01"
    @@ "ELBSecurityPolicy-TLS-1-2-2017-01" :> "elb_tls_1_2_2017_01"
    @@ "ELBSecurityPolicy-TLS-1-2-Ext-2018-06" :> "elb_tls_1_2_ext_2018_06"
    @@ "ELBSecurityPolicy-FS-2018-06" :> "elb_fs_2018_06"
    @@ "ELBSecurityPolicy-FS-1-2-2019-08" :> "elb_fs_1_2_2019_08"
    @@ "ELBSecurityPolicy-FS-1-1-2019-08" :> "elb_fs_1_1_2019_08"
    @@ "ELBSecurityPolicy-FS-1-2-Res-2019-08" :> "elb_fs_1_2_Res_2019_08"
    @@ "CloudFront-Upstream" :> "cloudfront_upstream"
    @@ "CloudFront-Upstream-TLS-1-0" :> "cloudfront_upstream_tls10"
    @@ "CloudFront-Upstream-TLS-1-1" :> "cloudfront_upstream_tls11"
    @@ "CloudFront-Upstream-TLS-1-2" :> "cloudfront_upstream_tls12"
    @@ "CloudFront-SSL-v-3" :> "cloudfront_ssl_v_3" @@ "CloudFront-TLS-1-0-2014" :> "cloudfront_tls_1_0_2014"
    @@ "CloudFront-TLS-1-0-2016" :> "cloudfront_tls_1_0_2016"
    @@ "CloudFront-TLS-1-1-2016" :> "cloudfront_tls_1_1_2016"
    @@ "CloudFront-TLS-1-2-2018" :> "cloudfront_tls_1_2_2018"
    @@ "CloudFront-TLS-1-2-2019" :> "cloudfront_tls_1_2_2019"
    @@ "CloudFront-TLS-1-2-2021" :> "cloudfront_tls_1_2_2021"
    @@ "CloudFront-SSL-v-3-Legacy" :> "cloudfront_ssl_v_3_legacy"
    @@ "CloudFront-TLS-1-0-2014-Legacy" :> "cloudfront_tls_1_0_2014_legacy"
    @@ "CloudFront-TLS-1-0-2016-Legacy" :> "cloudfront_tls_1_0_2016_legacy"
    @@ "CloudFront-TLS-1-1-2016-Legacy" :> "cloudfront_tls_1_1_2016_legacy"
    @@ "CloudFront-TLS-1-2-2018-Legacy" :> "cloudfront_tls_1_2_2018_legacy"
    @@ "CloudFront-TLS-1-2-2019-Legacy" :> "cloudfront_tls_1_2_2019_legacy"
    @@ "AWS-CRT-SDK-SSLv3.0" :> "aws_crt_sdk_ssl_v3" @@ "AWS-CRT-SDK-TLSv1.0" :> "aws_crt_sdk_tls_10"
    @@ "AWS-CRT-SDK-TLSv1.1" :> "aws_crt_sdk_tls_11" @@ "AWS-CRT-SDK-TLSv1.2" :> "aws_crt_sdk_tls_12"
    @@ "AWS-CRT-SDK-TLSv1.3" :> "aws_crt_sdk_tls_13" @@ "KMS-TLS-1-0-2018-10" :> "kms_tls_1_0_2018_10"
    @@ "KMS-TLS-1-0-2021-08" :> "kms_tls_1_0_2021_08"
    @@ "KMS-FIPS-TLS-1-2-2018-10" :> "kms_fips_tls_1_2_2018_10"
    @@ "KMS-FIPS-TLS-1-2-2021-08" :> "kms_fips_tls_1_2_2021_08"
    @@ "KMS-PQ-TLS-1-0-2019-06" :> "kms_pq_tls_1_0_2019_06"
    @@ "KMS-PQ-TLS-1-0-2020-02" :> "kms_pq_tls_1_0_2020_02"
    @@ "KMS-PQ-TLS-1-0-2020-07" :> "kms_pq_tls_1_0_2020_07"
    @@ "PQ-SIKE-TEST-TLS-1-0-2019-11" :> "pq_sike_test_tls_1_0_2019_11"
    @@ "PQ-SIKE-TEST-TLS-1-0-2020-02" :> "pq_sike_test_tls_1_0_2020_02"
    @@ "PQ-TLS-1-0-2020-12" :> "pq_tls_1_0_2020_12" @@ "PQ-TLS-1-1-2021-05-17" :> "pq_tls_1_1_2021_05_17"
    @@ "PQ-TLS-1-0-2021-05-18" :> "pq_tls_1_0_2021_05_18" @@ "PQ-TLS-1-0-2021-05-19" :> "pq_tls_1_0_2021_05_19"
    @@ "PQ-TLS-1-0-2021-05-20" :> "pq_tls_1_0_2021_05_20" @@ "PQ-TLS-1-1-2021-05-21" :> "pq_tls_1_1_2021_05_21"
    @@ "PQ-TLS-1-0-2021-05-22" :> "pq_tls_1_0_2021_05_22" @@ "PQ-TLS-1-0-2021-05-23" :> "pq_tls_1_0_2021_05_23"
    @@ "PQ-TLS-1-0-2021-05-24" :> "pq_tls_1_0_2021_05_24" @@ "PQ-TLS-1-0-2021-05-25" :> "pq_tls_1_0_2021_05_25"
    @@ "PQ-TLS-1-0-2021-05-26" :> "pq_tls_1_0_2021_05_26" @@ "20200207" :> "test_all_tls13"
    @@ "20210816_GCM" :> "20210816_gcm"
security_policy_selection == [v \in SameName |-> v] @@ Renamed

----------------------------------------------------------------------------
IsTls13(suite) == CipherSuite[suite].minimum_required_tls_version >= S2N_TLS13
s2n_kex_includes(suite, kex) ==
    \/ CipherSuite[suite].key_exchange_alg = kex
    \/ CipherSuite[suite].key_exchange_alg = "hybrid_ecdhe_kem" /\ kex \in {"ecdhe", "kem"}
s2n_cipher_suite_requires_ecc_extension(suite) == IsTls13(suite) \/ s2n_kex_includes(suite, "ecdhe")
s2n_cipher_suite_requires_pq_extension(suite) == s2n_kex_includes(suite, "kem")

s2n_find_security_policy_from_version(version) == Policies[security_policy_selection[version]]

\* The three flags of a selection entry.
s2n_security_policy_supports_tls13(policy) == \E s \in ToSet(policy.cipher_preferences) : IsTls13(s)
s2n_ecc_is_extension_required(policy) ==
    \E s \in ToSet(policy.cipher_preferences) : s2n_cipher_suite_requires_ecc_extension(s)
s2n_pq_kem_is_extension_required(policy) ==
    \E s \in ToSet(policy.cipher_preferences) : s2n_cipher_suite_requires_pq_extension(s)

s2n_check_ecc_preferences_curves_list(curves) == ToSet(curves) \subseteq ToSet(s2n_all_supported_curves_list)
s2n_ecc_preferences_includes_curve(policy, curve) == curve \in ToSet(policy.ecc_preferences)
s2n_kem_preferences_includes_tls13_kem_group(policy, group) == group \in ToSet(policy.kem_preferences.tls13_kem_groups)

\* KEMs are preferred exactly when a hybrid suite of TLS 1.2 is.
s2n_validate_kem_preferences(policy) ==
    (policy.kem_preferences.kems # <<>>) <=> s2n_pq_kem_is_extension_required(policy)

\* libcrypto does not tell the RSA-PSS schemes of certificates apart: all six or none.
NUM_RSA_PSS_SCHEMES == 6
s2n_validate_certificate_signature_preferences(schemes) ==
    Cardinality({i \in DOMAIN schemes : Scheme[schemes[i]].sig_alg \in {"RSA_PSS_RSAE", "RSA_PSS_PSS"}})
        \in {0, NUM_RSA_PSS_SCHEMES}

\* What the library checks of its tables when it starts.
s2n_security_policies_init ==
    \A version \in DOMAIN security_policy_selection :
        LET policy == s2n_find_security_policy_from_version(version)
        IN  /\ s2n_check_ecc_preferences_curves_list(policy.ecc_preferences)
            /\ s2n_validate_certificate_signature_preferences(policy.certificate_signature_preferences)
            /\ policy # Policies["null"] => policy.ecc_preferences # <<>>
            /\ s2n_validate_kem_preferences(policy)

ASSUME PoliciesAreValid == s2n_security_policies_init

\* Whether what was negotiated lies within a policy.
s2n_connection_is_valid_for_cipher_preferences(version, suite, policy) ==
    version >= policy.minimum_protocol_version /\ suite \in ToSet(policy.cipher_preferences)

===================================================================================
