------------------------------- MODULE Config -------------------------------
(***************************************************************************)
(* struct s2n_config: what s2n_config_init puts in it and what the setters *)
(* of s2n_config.c change.  A setter that fails leaves the config alone.   *)
(* The fields are those that a connection takes over when it is given the  *)
(* config, and those that certificates are kept in.                        *)
(***************************************************************************)
EXTENDS Integers, Sequences, FiniteSets

NULL == "NULL"

S2N_CERT_TYPES == <<"RSA", "ECDSA", "RSA_PSS">>
CertTypes == {S2N_CERT_TYPES[i] : i \in DOMAIN S2N_CERT_TYPES}

DEFAULT_MAX_CHAIN_DEPTH == 7

NoCerts == [t \in CertTypes |-> NULL]

\* An X509_STORE: the authorities in it, whether one that is not self-signed
\* ends a chain (X509_V_FLAG_PARTIAL_CHAIN), and whether it has been made at all.
NoStore == [made |-> FALSE, anchors |-> {}, partial |-> FALSE]

\* s2n_config_init reads the system's authorities with
\* s2n_x509_trust_store_from_system_defaults.
s2n_config_init ==
    [client_cert_auth_type |-> "NONE", check_ocsp |-> TRUE, disable_x509_validation |-> FALSE,
     max_verify_cert_chain_depth |-> 0, verify_host |-> NULL, status_request_type |-> "NONE",
     trust_store |-> [made |-> TRUE, anchors |-> {"system"}, partial |-> FALSE],
     initial_tickets_to_send |-> 0, psk_mode |-> "RESUMPTION", quic_enabled |-> FALSE,
     async_pkey_cb |-> FALSE, no_signing_key |-> FALSE,
     default_certs_by_type |-> NoCerts, default_certs_are_explicit |-> FALSE,
     is_rsa_cert_configured |-> FALSE, cert_allocated |-> FALSE, cert_tiebreak_cb |-> NULL,
     domain_name_to_cert_map |-> <<>>]

s2n_config_set_client_auth_type(config, type) == [config EXCEPT !.client_cert_auth_type = type]

s2n_config_set_verify_host_callback(config, fn) == [config EXCEPT !.verify_host = fn]

\* stapling: s2n_x509_ocsp_stapling_supported, what libcrypto was built with.
s2n_config_set_check_stapled_ocsp_response(config, check, stapling) ==
    IF check /\ ~stapling THEN config ELSE [config EXCEPT !.check_ocsp = check]

s2n_config_set_status_request_type(config, type, stapling) ==
    IF type = "OCSP" /\ ~stapling THEN config ELSE [config EXCEPT !.status_request_type = type]

s2n_x509_trust_store_wipe(store) == NoStore

s2n_config_wipe_trust_store(config) ==
    [config EXCEPT !.trust_store = s2n_x509_trust_store_wipe(@)]

\* s2n_x509_trust_store_add_pem: the store is made when there is none.
s2n_config_add_pem_to_trust_store(config, anchor) ==
    [config EXCEPT !.trust_store.made = TRUE, !.trust_store.anchors = @ \cup {anchor}]

\* s2n_x509_trust_store_from_ca_file; the store is lost when the file cannot be
\* loaded (anchor = NULL).
s2n_config_set_verification_ca_location(config, anchor, stapling) ==
    IF anchor = NULL THEN [config EXCEPT !.trust_store = s2n_x509_trust_store_wipe(@)]
    ELSE [s2n_config_add_pem_to_trust_store(config, anchor)
            EXCEPT !.trust_store.partial = TRUE,
                   !.status_request_type = IF stapling THEN "OCSP" ELSE "NONE"]

s2n_config_disable_x509_verification(config) ==
    [s2n_config_wipe_trust_store(config) EXCEPT !.disable_x509_validation = TRUE]

s2n_config_set_max_cert_chain_depth(config, depth) ==
    IF depth = 0 THEN config ELSE [config EXCEPT !.max_verify_cert_chain_depth = depth]

s2n_config_set_async_pkey_callback(config) == [config EXCEPT !.async_pkey_cb = TRUE]

s2n_config_set_psk_mode(config, mode) == [config EXCEPT !.psk_mode = mode]

s2n_config_enable_quic(config) == [config EXCEPT !.quic_enabled = TRUE]

s2n_config_get_num_default_certs(config) ==
    Cardinality({t \in CertTypes : config.default_certs_by_type[t] # NULL})
=============================================================================
