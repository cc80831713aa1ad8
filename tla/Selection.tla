------------------------------ MODULE Selection ------------------------------
(***************************************************************************)
(* How a client and a server agree on a protocol version, a cipher suite,  *)
(* a group or KEM, a signature scheme and a certificate: the hello         *)
(* messages with the extensions that carry preferences, a retry, and the   *)
(* checks a client makes of what the server chose.                         *)
(*                                                                         *)
(* Both sides run this library under any two of its security policies; the *)
(* client may stand for an older one that knows fewer versions or speaks   *)
(* first in the framing of SSLv2.  A middlebox may strip the extension     *)
(* that TLS 1.3 is offered with.  Resumption, PSKs and client certificates *)
(* are in Negotiate.                                                       *)
(***************************************************************************)
EXTENDS SecurityPolicies

\* Who meets whom: the two policies as s2n_connection_get_security_policy finds them, the server's
\* certificates and Diffie-Hellman parameters, the highest version the client
\* knows, which sides are built with post-quantum code, and a fault.  Setups is a
\* sequence of sets of these.
CONSTANT Setups

VARIABLES setup, client, server, net

vars == <<setup, client, server, net>>

s2n_unknown_protocol_version == 0
Least(a, b) == IF a < b THEN a ELSE b
First(seq, Test(_)) == LET i == SelectInSeq(seq, Test) IN IF i = 0 THEN NULL ELSE seq[i]
NoGroup == KemGroup(NULL, NULL)

\* A certificate: its type of key and, of an ECDSA key, the curve.
RsaCert == [type |-> "RSA", curve |-> NULL]
PssCert == [type |-> "RSA_PSS", curve |-> NULL]
EcdsaCert(curve) == [type |-> "ECDSA", curve |-> curve]
NoCert  == [type |-> NULL, curve |-> NULL]

ClientPolicy == setup.client
ServerPolicy == setup.server

\* Suites with a KEM are unavailable in a build without post-quantum code.
Available(suite, pq) == pq \/ ~s2n_cipher_suite_requires_pq_extension(suite)

(***************************************************************************)
(* s2n_connection_get_protocol_version: the version agreed on, or before   *)
(* there is one the highest that this side offers.                         *)
(***************************************************************************)
s2n_connection_get_protocol_version(conn, own) ==
    IF conn.actual_protocol_version # s2n_unknown_protocol_version THEN conn.actual_protocol_version ELSE own

Conn == [state |-> "HELLO", client_protocol_version |-> s2n_unknown_protocol_version,
         server_protocol_version |-> s2n_unknown_protocol_version,
         actual_protocol_version |-> s2n_unknown_protocol_version,
         cipher_suite |-> NULL, retry |-> FALSE, kem |-> NULL,
         client_curve |-> NULL, client_group |-> NoGroup,
         server_curve |-> NULL, server_group |-> NoGroup,
         sig_scheme |-> NULL, cert |-> NoCert]

Failed(conn) == [conn EXCEPT !.state = "FAILED"]
NoMessage == [type |-> "NONE"]

Init ==
    /\ \E i \in DOMAIN Setups : setup \in Setups[i]
    /\ setup.fault = "SSLV2" => setup.version <= S2N_TLS12
    /\ client = [Conn EXCEPT !.client_protocol_version = setup.version,
                             !.actual_protocol_version = setup.version]
    /\ server = [Conn EXCEPT !.server_protocol_version = S2N_TLS13]
    /\ net = NoMessage

----------------------------------------------------------------------------
(***************************************************************************)
(* The ClientHello.  The shares are of one KEM group and one curve: those  *)
(* preferred most, or after a retry the one the server asked for.          *)
(***************************************************************************)
s2n_cipher_suite_validate_available(suite, version) ==
    Available(suite, setup.pq[1]) /\ CipherSuite[suite].minimum_required_tls_version <= version

s2n_signature_scheme_valid_to_offer(scheme, version) == version >= Scheme[scheme].minimum_protocol_version
s2n_signature_scheme_valid_to_accept(scheme, version) ==
    /\ s2n_signature_scheme_valid_to_offer(scheme, version)
    /\ \/ Scheme[scheme].maximum_protocol_version = s2n_unknown_protocol_version
       \/ version <= Scheme[scheme].maximum_protocol_version

KemGroups(policy, pq) == IF pq THEN policy.kem_preferences.tls13_kem_groups ELSE << >>

s2n_generate_default_pq_hybrid_key_share(conn) ==
    IF KemGroups(ClientPolicy, setup.pq[1]) = << >> THEN NoGroup
    ELSE IF conn.retry THEN conn.server_group ELSE KemGroups(ClientPolicy, setup.pq[1])[1]
s2n_generate_default_ecc_key_share(conn) ==
    IF conn.retry THEN conn.server_curve ELSE ClientPolicy.ecc_preferences[1]

\* Without a suite of TLS 1.3 in the policy, TLS 1.2 is the highest version offered.
ClientVersion ==
    IF s2n_security_policy_supports_tls13(ClientPolicy) THEN setup.version ELSE Least(setup.version, S2N_TLS12)

ClientHello(conn) ==
    LET version == ClientVersion
        tls13   == version >= S2N_TLS13
        plain   == setup.fault = "SSLV2"
    IN  [type |-> "CLIENT_HELLO", sslv2 |-> plain,
         version |-> Least(version, S2N_TLS12),
         suites |-> {s \in ToSet(ClientPolicy.cipher_preferences) : s2n_cipher_suite_validate_available(s, version)},
         fallback_scsv |-> setup.fault = "FALLBACK",
         supported_versions |-> IF tls13 THEN ClientPolicy.minimum_protocol_version..version ELSE {},
         supported_groups |-> ~plain /\ s2n_ecc_is_extension_required(ClientPolicy),
         groups |-> IF tls13 THEN ToSet(KemGroups(ClientPolicy, setup.pq[1])) ELSE {},
         curves |-> ToSet(ClientPolicy.ecc_preferences),
         share_group |-> IF tls13 THEN s2n_generate_default_pq_hybrid_key_share(conn) ELSE NoGroup,
         share_curve |-> IF tls13 THEN s2n_generate_default_ecc_key_share(conn) ELSE NULL,
         sig_algs |-> IF version < S2N_TLS12 \/ plain THEN {}
                      ELSE {Scheme[s].iana_value : s \in
                               {s \in ToSet(ClientPolicy.signature_preferences) :
                                    s2n_signature_scheme_valid_to_offer(s, version)}},
         pq_kems |-> IF s2n_pq_kem_is_extension_required(ClientPolicy) /\ setup.pq[1] /\ ~plain
                     THEN ToSet(ClientPolicy.kem_preferences.kems) ELSE {}]

s2n_client_hello_send ==
    /\ client.state = "HELLO" /\ net = NoMessage
    /\ LET hello == ClientHello(client)
       IN  /\ client' = [client EXCEPT !.state = "SERVER_HELLO",
                !.client_protocol_version = ClientVersion, !.actual_protocol_version = Least(@, ClientVersion),
                !.client_curve = IF hello.share_curve # NULL THEN hello.share_curve ELSE @,
                !.client_group = IF hello.share_group # NoGroup THEN hello.share_group ELSE @]
           /\ net' = hello
    /\ UNCHANGED <<setup, server>>

\* A middlebox removes the extension by which TLS 1.3 is offered.
SupportedVersionsStripped ==
    /\ setup.fault = "STRIP" /\ net.type = "CLIENT_HELLO" /\ net.supported_versions # {}
    /\ net' = [net EXCEPT !.supported_versions = {}]
    /\ UNCHANGED <<setup, client, server>>

----------------------------------------------------------------------------
(***************************************************************************)
(* The server: certificates.  A name that matches, exactly or as a         *)
(* wildcard, shuts out the default certificates even of other types.       *)
(***************************************************************************)
s2n_get_compatible_cert_chain_and_key(type) ==
    LET certs == IF setup.certs.exact # {} THEN setup.certs.exact
                 ELSE IF setup.certs.wildcard # {} THEN setup.certs.wildcard ELSE setup.certs.default
    IN  IF \E c \in certs : c.type = type THEN CHOOSE c \in certs : c.type = type ELSE NoCert

s2n_get_auth_method_for_cert_type(type) == IF type = "ECDSA" THEN "ECDSA" ELSE "RSA"
s2n_get_cert_type_for_sig_alg(sig_alg) ==
    CASE sig_alg \in {"RSA", "RSA_PSS_RSAE"} -> "RSA" [] sig_alg = "RSA_PSS_PSS" -> "RSA_PSS" [] OTHER -> "ECDSA"

s2n_is_cipher_suite_valid_for_auth(suite) ==
    \/ CipherSuite[suite].auth_method = NULL
    \/ \E type \in {"RSA", "RSA_PSS", "ECDSA"} :
          /\ s2n_get_auth_method_for_cert_type(type) = CipherSuite[suite].auth_method
          /\ s2n_get_compatible_cert_chain_and_key(type) # NoCert

s2n_certs_exist_for_sig_scheme(scheme) ==
    LET cert == s2n_get_compatible_cert_chain_and_key(s2n_get_cert_type_for_sig_alg(Scheme[scheme].sig_alg))
    IN  cert # NoCert /\ Scheme[scheme].signature_curve \in {NULL, cert.curve}

s2n_is_sig_alg_valid_for_cipher_suite(sig_alg, suite) ==
    LET type == s2n_get_cert_type_for_sig_alg(sig_alg)
    IN  /\ CipherSuite[suite].key_exchange_alg = "rsa" => type # "RSA_PSS"
        /\ CipherSuite[suite].auth_method \in {NULL, s2n_get_auth_method_for_cert_type(type)}

s2n_is_signature_scheme_usable(scheme, conn) ==
    /\ s2n_signature_scheme_valid_to_accept(scheme, conn.actual_protocol_version)
    /\ s2n_certs_exist_for_sig_scheme(scheme)
    /\ s2n_is_sig_alg_valid_for_cipher_suite(Scheme[scheme].sig_alg, conn.cipher_suite)

s2n_choose_default_sig_scheme(conn) ==
    CASE CipherSuite[conn.cipher_suite].auth_method = "ECDSA" -> "ecdsa_sha1"
      [] conn.actual_protocol_version >= S2N_TLS12 -> "rsa_pkcs1_sha1"
      [] OTHER -> "rsa_pkcs1_md5_sha1"

s2n_tls13_default_sig_scheme(conn) ==
    First(ServerPolicy.signature_preferences, LAMBDA s : s2n_is_signature_scheme_usable(s, conn))

\* NULL is an error.
s2n_choose_sig_scheme_from_peer_preference_list(conn, hello) ==
    LET default == IF conn.actual_protocol_version < S2N_TLS13 THEN s2n_choose_default_sig_scheme(conn)
                   ELSE s2n_tls13_default_sig_scheme(conn)
        match == First(ServerPolicy.signature_preferences,
                       LAMBDA s : s2n_is_signature_scheme_usable(s, conn) /\ Scheme[s].iana_value \in hello.sig_algs)
    IN  IF default = NULL \/ match = NULL THEN default ELSE match

----------------------------------------------------------------------------
(***************************************************************************)
(* The server: key exchange and cipher suite, in the server's order.       *)
(***************************************************************************)
s2n_choose_kem(suite, hello) ==
    First(ServerPolicy.kem_preferences.kems,
          LAMBDA k : k \in kem_mapping[suite] /\ (hello.pq_kems # {} => k \in hello.pq_kems))

s2n_kex_supported(suite, conn, hello) ==
    CASE CipherSuite[suite].key_exchange_alg = "rsa"   -> s2n_get_compatible_cert_chain_and_key("RSA") # NoCert
      [] CipherSuite[suite].key_exchange_alg = "dhe"   -> setup.dhparams
      [] CipherSuite[suite].key_exchange_alg = "ecdhe" -> conn.server_curve # NULL
      [] OTHER -> conn.server_curve # NULL /\ setup.pq[2] /\ s2n_choose_kem(suite, hello) # NULL

\* Suites that could serve, but for needing a higher version than agreed on.
Eligible(suite, conn, hello) ==
    /\ suite \in hello.suites
    /\ (conn.actual_protocol_version >= S2N_TLS13) = IsTls13(suite)
    /\ Available(suite, setup.pq[2])
    /\ s2n_is_cipher_suite_valid_for_auth(suite)
    /\ IsTls13(suite) \/ s2n_kex_supported(suite, conn, hello)

s2n_set_cipher_as_server(conn, hello) ==
    LET suites   == ServerPolicy.cipher_preferences
        match    == First(suites, LAMBDA s : /\ Eligible(s, conn, hello)
                                             /\ conn.actual_protocol_version >= CipherSuite[s].minimum_required_tls_version)
        settled  == IF match # NULL THEN match ELSE First(suites, LAMBDA s : Eligible(s, conn, hello))
        \* s2n_configure_kem runs for every hybrid suite that is looked at; the last one before the end stays.
        looked   == IF match = NULL THEN suites ELSE SubSeq(suites, 1, SelectInSeq(suites, LAMBDA s : s = match))
        hybrids  == SelectSeq(looked, LAMBDA s : s2n_cipher_suite_requires_pq_extension(s) /\ Eligible(s, conn, hello))
    IN  IF settled = NULL \/ (hello.fallback_scsv /\ conn.client_protocol_version < conn.server_protocol_version)
        THEN Failed(conn)
        ELSE [conn EXCEPT !.cipher_suite = settled,
                          !.kem = IF hybrids = << >> THEN @ ELSE s2n_choose_kem(Last(hybrids), hello)]

----------------------------------------------------------------------------
(***************************************************************************)
(* The server: the extensions of a ClientHello and what follows them.  A   *)
(* failed conn goes through the remaining steps unchanged.                 *)
(***************************************************************************)
Then(conn, Step(_)) == IF conn.state = "FAILED" THEN conn ELSE Step(conn)

\* s2n_parse_client_hello: a curve to fall back on when the client names none.
FallbackCurve ==
    IF s2n_ecc_preferences_includes_curve(ServerPolicy, "secp256r1") THEN "secp256r1" ELSE ServerPolicy.ecc_preferences[1]

s2n_client_supported_versions_recv(conn, hello) ==
    LET common == {v \in hello.supported_versions : /\ v >= ServerPolicy.minimum_protocol_version
                                                    /\ v <= conn.server_protocol_version}
    IN  IF hello.supported_versions = {} \/ s2n_connection_get_protocol_version(conn, conn.server_protocol_version) < S2N_TLS13
        THEN conn
        ELSE IF common = {} THEN Failed(conn)
        ELSE [conn EXCEPT !.client_protocol_version = Max(hello.supported_versions),
                          !.actual_protocol_version = Max(common)]

MutualGroups(conn, hello) ==
    IF s2n_connection_get_protocol_version(conn, conn.server_protocol_version) < S2N_TLS13 THEN << >>
    ELSE SelectSeq(KemGroups(ServerPolicy, setup.pq[2]), LAMBDA g : g \in hello.groups)
MutualCurves(hello) == SelectSeq(ServerPolicy.ecc_preferences, LAMBDA c : c \in hello.curves)

s2n_client_supported_groups_recv(conn, hello) ==
    IF ~hello.supported_groups THEN conn
    ELSE LET groups == MutualGroups(conn, hello)
             curves == MutualCurves(hello)
         IN  [conn EXCEPT !.server_group = IF groups # << >> THEN groups[1] ELSE NoGroup,
                          !.server_curve = IF groups = << >> /\ curves # << >> THEN curves[1] ELSE NULL]

\* A client sends at most one share of each kind; after a retry exactly one.
s2n_client_key_share_recv(conn, hello) ==
    IF conn.actual_protocol_version < S2N_TLS13 THEN conn
    ELSE IF conn.retry /\ (hello.share_group # NoGroup) = (hello.share_curve # NULL) THEN Failed(conn)
    ELSE [conn EXCEPT
            !.client_group = IF hello.share_group \in ToSet(MutualGroups(conn, hello)) THEN hello.share_group ELSE @,
            !.client_curve = IF hello.share_curve \in ToSet(MutualCurves(hello)) THEN hello.share_curve ELSE @]

\* Mutant: the group preferred stays beside the curve there is a share of.
KeyShareSelect_KeepsGroup(conn) ==
    CASE conn.actual_protocol_version < S2N_TLS13 -> conn
      [] (conn.server_curve = NULL) = (conn.server_group = NoGroup) -> Failed(conn)
      [] conn.client_group # NoGroup -> [conn EXCEPT !.server_group = conn.client_group, !.server_curve = NULL]
      [] conn.client_curve # NULL -> [conn EXCEPT !.server_curve = conn.client_curve]
      [] OTHER -> [conn EXCEPT !.retry = TRUE]

\* A share at hand is better than the group preferred.
s2n_extensions_server_key_share_select(conn) ==
    CASE conn.actual_protocol_version < S2N_TLS13 -> conn
      [] (conn.server_curve = NULL) = (conn.server_group = NoGroup) -> Failed(conn)
      [] conn.client_group # NoGroup -> [conn EXCEPT !.server_group = conn.client_group, !.server_curve = NULL]
      [] conn.client_curve # NULL -> [conn EXCEPT !.server_curve = conn.client_curve, !.server_group = NoGroup]
      [] OTHER -> [conn EXCEPT !.retry = TRUE]

s2n_choose_sig_scheme(conn, hello) ==
    LET scheme == IF hello.sslv2 THEN s2n_choose_default_sig_scheme(conn)
                  ELSE s2n_choose_sig_scheme_from_peer_preference_list(conn, hello)
    IN  IF scheme = NULL THEN Failed(conn) ELSE [conn EXCEPT !.sig_scheme = scheme]

s2n_select_certs_for_server_auth(conn) ==
    LET cert == s2n_get_compatible_cert_chain_and_key(s2n_get_cert_type_for_sig_alg(Scheme[conn.sig_scheme].sig_alg))
    IN  IF cert = NoCert THEN Failed(conn) ELSE [conn EXCEPT !.cert = cert]

\* Version agreed on without supported_versions, and the policy's lowest.
s2n_choose_version(conn) ==
    IF conn.client_protocol_version < ServerPolicy.minimum_protocol_version THEN Failed(conn)
    ELSE IF conn.actual_protocol_version >= S2N_TLS13 THEN conn
    ELSE [conn EXCEPT !.actual_protocol_version = Least(conn.server_protocol_version, conn.client_protocol_version)]

SuiteSchemeAndCert(conn, hello) ==
    Then(Then(Then(conn, LAMBDA c : s2n_set_cipher_as_server(c, hello)),
              LAMBDA c : s2n_choose_sig_scheme(c, hello)), s2n_select_certs_for_server_auth)

s2n_sslv2_client_hello_recv(conn, hello) == SuiteSchemeAndCert(s2n_choose_version(conn), hello)

s2n_process_client_hello(parsed, hello) ==
    LET own == IF s2n_security_policy_supports_tls13(ServerPolicy) THEN parsed
               ELSE [parsed EXCEPT !.server_protocol_version = Least(@, S2N_TLS12),
                                   !.actual_protocol_version = Least(parsed.server_protocol_version, S2N_TLS12)]
        versions  == s2n_client_supported_versions_recv(own, hello)
        groups    == Then(versions, LAMBDA c : s2n_client_supported_groups_recv(c, hello))
        shares    == Then(groups, LAMBDA c : s2n_client_key_share_recv(c, hello))
        selected  == Then(shares, s2n_extensions_server_key_share_select)
    IN  SuiteSchemeAndCert(Then(selected, s2n_choose_version), hello)

s2n_client_hello_recv ==
    /\ net.type = "CLIENT_HELLO" /\ server.state = "HELLO"
    /\ LET parsed == [server EXCEPT !.client_protocol_version = net.version,
                                    !.server_curve = IF net.sslv2 THEN @ ELSE FallbackCurve]
           conn   == IF net.suites = {} THEN Failed(parsed)
                     ELSE IF net.sslv2 THEN s2n_sslv2_client_hello_recv(parsed, net)
                     ELSE s2n_process_client_hello(parsed, net)
       IN  server' = [conn EXCEPT !.state = CASE @ = "FAILED" -> @
                                              [] conn.retry /\ ~server.retry -> "SEND_RETRY"
                                              [] OTHER -> "SEND_HELLO"]
    /\ net' = NoMessage
    /\ UNCHANGED <<setup, client>>

----------------------------------------------------------------------------
(***************************************************************************)
(* The ServerHello, and the retry in its form.                             *)
(***************************************************************************)
s2n_server_add_downgrade_mechanism ==
    CASE server.server_protocol_version < S2N_TLS13 -> NULL
      [] server.actual_protocol_version = S2N_TLS12 -> "TLS12"
      [] server.actual_protocol_version <= S2N_TLS11 -> "TLS11"
      [] OTHER -> NULL

ServerHello(retry) ==
    [type |-> "SERVER_HELLO", retry |-> retry,
     version |-> Least(server.actual_protocol_version, S2N_TLS12),
     suite |-> server.cipher_suite,
     downgrade |-> IF retry THEN NULL ELSE s2n_server_add_downgrade_mechanism,
     supported_version |-> IF server.actual_protocol_version >= S2N_TLS13 THEN server.server_protocol_version
                           ELSE s2n_unknown_protocol_version,
     curve |-> server.server_curve, group |-> server.server_group]

s2n_server_hello_retry_send ==
    /\ server.state = "SEND_RETRY"
    /\ net' = ServerHello(TRUE)
    /\ server' = [server EXCEPT !.state = "HELLO"]
    /\ UNCHANGED <<setup, client>>

s2n_server_key_share_send_check ==
    IF server.server_curve # NULL THEN server.client_curve = server.server_curve
    ELSE /\ setup.pq[2]
         /\ s2n_kem_preferences_includes_tls13_kem_group(ServerPolicy, server.server_group)
         /\ server.client_group = server.server_group

s2n_server_hello_send ==
    /\ server.state = "SEND_HELLO"
    /\ LET sent == server.actual_protocol_version >= S2N_TLS13 => s2n_server_key_share_send_check
       IN  /\ server' = IF sent THEN [server EXCEPT !.state = "SEND_FLIGHT"] ELSE Failed(server)
           /\ net' = IF sent THEN ServerHello(FALSE) ELSE net
    /\ UNCHANGED <<setup, client>>

----------------------------------------------------------------------------
(***************************************************************************)
(* The client: checks of the ServerHello.                                  *)
(***************************************************************************)
s2n_server_supported_versions_recv(conn, hello) ==
    LET version == hello.supported_version
    IN  IF conn.actual_protocol_version < S2N_TLS13 \/ version = s2n_unknown_protocol_version THEN conn
        ELSE IF version >= S2N_TLS13 /\ version <= conn.client_protocol_version
                /\ version >= ClientPolicy.minimum_protocol_version
        THEN [conn EXCEPT !.server_protocol_version = version] ELSE Failed(conn)

\* In a retry a group without a share; otherwise the group of a share that was sent.
s2n_server_key_share_recv(conn, hello) ==
    CASE hello.supported_version = s2n_unknown_protocol_version -> conn
      [] hello.curve # NULL /\ s2n_ecc_preferences_includes_curve(ClientPolicy, hello.curve) ->
            IF hello.retry \/ conn.client_curve = hello.curve
            THEN [conn EXCEPT !.server_curve = hello.curve] ELSE Failed(conn)
      [] hello.curve = NULL /\ s2n_kem_preferences_includes_tls13_kem_group(ClientPolicy, hello.group) /\ setup.pq[1] ->
            IF hello.retry \/ conn.client_group = hello.group
            THEN [conn EXCEPT !.server_group = hello.group] ELSE Failed(conn)
      [] OTHER -> Failed(conn)

s2n_client_detect_downgrade_mechanism(version, hello) ==
    /\ client.client_protocol_version = S2N_TLS13
    /\ \/ version = S2N_TLS12 /\ hello.downgrade = "TLS12"
       \/ version <= S2N_TLS11 /\ hello.downgrade = "TLS11"

s2n_choose_version_as_client(conn, hello) ==
    IF conn.server_protocol_version >= S2N_TLS13
    THEN [conn EXCEPT !.actual_protocol_version = conn.server_protocol_version]
    ELSE IF \/ s2n_client_detect_downgrade_mechanism(hello.version, hello)
            \/ hello.version < ClientPolicy.minimum_protocol_version
            \/ hello.version > conn.client_protocol_version
         THEN Failed(conn)
         ELSE [conn EXCEPT !.server_protocol_version = hello.version,
                           !.actual_protocol_version = Least(hello.version, conn.client_protocol_version)]

s2n_set_cipher_as_client(conn, hello) ==
    IF /\ hello.suite \in ToSet(ClientPolicy.cipher_preferences)
       /\ Available(hello.suite, setup.pq[1])
       /\ conn.retry /\ ~hello.retry => conn.cipher_suite = hello.suite
    THEN [conn EXCEPT !.cipher_suite = hello.suite] ELSE Failed(conn)

\* A retry must ask for a share of another group.
s2n_server_hello_retry_recv(conn) ==
    IF /\ conn.actual_protocol_version >= S2N_TLS13
       /\ (conn.server_curve # NULL) # (conn.server_group # NoGroup)
       /\ conn.server_curve # NULL => conn.server_curve # conn.client_curve
       /\ conn.server_group # NoGroup => conn.server_group # conn.client_group
    THEN [conn EXCEPT !.state = "HELLO"] ELSE Failed(conn)

s2n_server_hello_recv ==
    /\ net.type = "SERVER_HELLO" /\ client.state = "SERVER_HELLO"
    /\ LET marked  == IF ~net.retry THEN client
                      ELSE IF client.retry \/ client.actual_protocol_version < S2N_TLS13 THEN Failed(client)
                      ELSE [client EXCEPT !.retry = TRUE]
           version == Then(marked, LAMBDA c : s2n_server_supported_versions_recv(c, net))
           share   == Then(version, LAMBDA c : s2n_server_key_share_recv(c, net))
           agreed  == Then(share, LAMBDA c : s2n_choose_version_as_client(c, net))
           suite   == Then(agreed, LAMBDA c : s2n_set_cipher_as_client(c, net))
       IN  client' = IF net.retry THEN Then(suite, s2n_server_hello_retry_recv)
                     ELSE Then(suite, LAMBDA c : [c EXCEPT !.state = "FLIGHT",
                                                           !.sig_scheme = s2n_choose_default_sig_scheme(c)])
    /\ net' = NoMessage
    /\ UNCHANGED <<setup, server>>

----------------------------------------------------------------------------
(***************************************************************************)
(* Certificate and CertificateVerify of TLS 1.3, or Certificate and        *)
(* ServerKeyExchange before it.  A suite that exchanges keys with RSA      *)
(* signs nothing.                                                          *)
(***************************************************************************)
Signs(conn) == CipherSuite[conn.cipher_suite].key_exchange_alg # "rsa"
Ephemeral(conn, kex) == s2n_kex_includes(conn.cipher_suite, kex)

s2n_server_key_send ==
    /\ server.state = "SEND_FLIGHT" /\ net = NoMessage
    /\ net' = [type |-> "FLIGHT", cert |-> server.cert, scheme |-> server.sig_scheme,
               curve |-> server.server_curve, kem |-> server.kem]
    /\ server' = [server EXCEPT !.state = "DONE"]
    /\ UNCHANGED <<setup, client>>

s2n_is_cert_type_valid_for_auth(conn, type) ==
    CipherSuite[conn.cipher_suite].auth_method \in {NULL, s2n_get_auth_method_for_cert_type(type)}

\* The scheme named by the server, or NULL; before TLS 1.2 no scheme is named.
s2n_get_and_validate_negotiated_signature_scheme(conn, iana) ==
    LET version == conn.actual_protocol_version
        default == s2n_choose_default_sig_scheme(conn)
        match   == First(ClientPolicy.signature_preferences,
                         LAMBDA s : s2n_signature_scheme_valid_to_accept(s, version) /\ Scheme[s].iana_value = iana)
    IN  CASE version < S2N_TLS12 -> conn.sig_scheme
          [] match # NULL -> match
          [] version <= S2N_TLS12 /\ s2n_signature_scheme_valid_to_accept(default, version)
                /\ Scheme[default].iana_value = iana -> default
          [] OTHER -> NULL

\* A signature made under one scheme, verified under another with a key of a certificate.
s2n_pkey_verify(made, under, cert) ==
    /\ Scheme[made].sig_alg = Scheme[under].sig_alg /\ Scheme[made].hash_alg = Scheme[under].hash_alg
    /\ s2n_get_cert_type_for_sig_alg(Scheme[under].sig_alg) = cert.type

\* Whether the client accepts the parameters of a ServerKeyExchange.
s2n_server_key_recv(conn, flight) ==
    /\ Ephemeral(conn, "ecdhe") => flight.curve \in ToSet(s2n_all_supported_curves_list)
    /\ Ephemeral(conn, "kem") => /\ flight.kem \in ToSet(ClientPolicy.kem_preferences.kems)
                                 /\ flight.kem \in kem_mapping[conn.cipher_suite]

s2n_server_cert_recv ==
    /\ net.type = "FLIGHT" /\ client.state = "FLIGHT"
    /\ LET scheme == IF Signs(client)
                     THEN s2n_get_and_validate_negotiated_signature_scheme(client, Scheme[net.scheme].iana_value)
                     ELSE client.sig_scheme
           tls13  == client.actual_protocol_version >= S2N_TLS13
       IN  client' = IF /\ s2n_is_cert_type_valid_for_auth(client, net.cert.type)
                        /\ scheme # NULL
                        /\ Signs(client) => s2n_pkey_verify(net.scheme, scheme, net.cert)
                        /\ tls13 \/ s2n_server_key_recv(client, net)
                     THEN [client EXCEPT !.state = "DONE", !.sig_scheme = scheme, !.cert = net.cert,
                             !.server_curve = IF ~tls13 /\ Ephemeral(client, "ecdhe") THEN net.curve ELSE @,
                             !.kem = IF Ephemeral(client, "kem") THEN net.kem ELSE @]
                     ELSE Failed(client)
    /\ net' = NoMessage
    /\ UNCHANGED <<setup, server>>

----------------------------------------------------------------------------
Next ==
    \/ s2n_client_hello_send
    \/ SupportedVersionsStripped
    \/ s2n_client_hello_recv
    \/ s2n_server_hello_retry_send
    \/ s2n_server_hello_send
    \/ s2n_server_hello_recv
    \/ s2n_server_key_send
    \/ s2n_server_cert_recv

Spec == Init /\ [][Next]_vars

----------------------------------------------------------------------------
(***************************************************************************)
(* Properties.                                                             *)
(***************************************************************************)
Agreeing == client.state = "DONE"
Curves(policy) == ToSet(policy.ecc_preferences)

\* The highest version that both libraries and both policies allow.
HighestOf(policy, version) == IF s2n_security_policy_supports_tls13(policy) THEN version ELSE Least(version, S2N_TLS12)
HighestCommon == Least(HighestOf(ClientPolicy, setup.version), HighestOf(ServerPolicy, S2N_TLS13))

\* When a client accepts what a server chose, the two hold the same version,
\* suite, group, KEM and scheme, and each of these is within both policies.
\* The one exception is a default scheme of TLS 1.2 and before, which no policy
\* need name.  No policy check is made of the choice as a whole: the server
\* looks at each list on its own and the client at each message.
AgreedWithinBothPolicies ==
    Agreeing =>
        LET suite == client.cipher_suite
            version == client.actual_protocol_version
            tls13 == version >= S2N_TLS13
        IN  /\ version = server.actual_protocol_version /\ suite = server.cipher_suite
            /\ \A policy \in {ClientPolicy, ServerPolicy} :
                  /\ s2n_connection_is_valid_for_cipher_preferences(version, suite, policy)
                  /\ (tls13 /\ client.server_curve # NULL) \/ Ephemeral(client, "ecdhe")
                         => client.server_curve \in Curves(policy)
                  /\ tls13 /\ client.server_group # NoGroup
                         => s2n_kem_preferences_includes_tls13_kem_group(policy, client.server_group)
                  /\ Ephemeral(client, "kem") => client.kem \in ToSet(policy.kem_preferences.kems)
                  /\ Signs(client) => \/ client.sig_scheme \in ToSet(policy.signature_preferences)
                                      \/ ~tls13 /\ client.sig_scheme = s2n_choose_default_sig_scheme(client)
            /\ tls13 => /\ (client.server_curve # NULL) # (client.server_group # NoGroup)
                        /\ client.server_curve = server.server_curve /\ client.server_group = server.server_group
                        /\ client.server_curve # NULL => client.client_curve = client.server_curve
                        /\ client.server_group # NoGroup => client.client_group = client.server_group
            /\ IsTls13(suite) = tls13
            /\ CipherSuite[suite].minimum_required_tls_version <= version

\* A handshake that is accepted has the highest version both sides allow, even
\* when the offer of TLS 1.3 was removed on its way: the server marks its random
\* and the client refuses the mark.
HighestCommonVersion == Agreeing => client.actual_protocol_version = HighestCommon

\* What could have been agreed on at a version, stated without the order in which
\* the code looks: a suite of both policies with a key exchange and a certificate
\* for it and, in TLS 1.3, a group and a usable scheme.
SuitePossible(suite, version) ==
    LET kex == CipherSuite[suite].key_exchange_alg
        auth == CipherSuite[suite].auth_method
        types == {c.type : c \in IF setup.certs.exact # {} THEN setup.certs.exact
                                 ELSE IF setup.certs.wildcard # {} THEN setup.certs.wildcard
                                 ELSE setup.certs.default}
    IN  /\ suite \in ToSet(ClientPolicy.cipher_preferences) \cap ToSet(ServerPolicy.cipher_preferences)
        /\ IsTls13(suite) = (version >= S2N_TLS13) /\ CipherSuite[suite].minimum_required_tls_version <= version
        /\ auth = "RSA" => "RSA" \in types
        /\ auth = "ECDSA" => "ECDSA" \in types
        /\ kex = "dhe" => setup.dhparams
        /\ kex = "ecdhe" => Curves(ClientPolicy) \cap Curves(ServerPolicy) # {} /\ setup.fault # "SSLV2"
        /\ kex = "hybrid_ecdhe_kem" =>
              /\ setup.pq[1] /\ setup.pq[2] /\ setup.fault # "SSLV2"
              /\ Curves(ClientPolicy) \cap Curves(ServerPolicy) # {}
              /\ \E k \in kem_mapping[suite] : \A policy \in {ClientPolicy, ServerPolicy} :
                    k \in ToSet(policy.kem_preferences.kems)

Tls13Possible ==
    /\ \/ Curves(ClientPolicy) \cap Curves(ServerPolicy) # {}
       \/ ToSet(KemGroups(ClientPolicy, setup.pq[1])) \cap ToSet(KemGroups(ServerPolicy, setup.pq[2])) # {}
    /\ \E s \in ToSet(ClientPolicy.signature_preferences) \cap ToSet(ServerPolicy.signature_preferences) :
          /\ s2n_signature_scheme_valid_to_accept(s, S2N_TLS13) /\ s2n_certs_exist_for_sig_scheme(s)

Possible ==
    /\ \A policy \in {ClientPolicy, ServerPolicy} : HighestCommon >= policy.minimum_protocol_version
    /\ \E suite \in DOMAIN CipherSuite : SuitePossible(suite, HighestCommon)
    /\ HighestCommon >= S2N_TLS13 => Tls13Possible
    /\ ~(setup.fault = "FALLBACK" /\ HighestOf(ClientPolicy, setup.version) < HighestOf(ServerPolicy, S2N_TLS13))
    /\ ~(setup.fault = "STRIP" /\ HighestCommon >= S2N_TLS13)

\* A negotiation fails only if the two sides have nothing in common at their
\* highest common version: the server finds a choice when there is one, in every
\* order of preference, and the client refuses none that the server makes.
FailsOnlyWhenItMust == "FAILED" \in {client.state, server.state} => ~Possible
=============================================================================
