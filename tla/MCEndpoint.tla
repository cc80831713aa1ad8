----------------------------- MODULE MCEndpoint -----------------------------
(***************************************************************************)
(* What the life of a connection and the certificates of a config are      *)
(* checked with.  One of them takes place in a behaviour, the other stays  *)
(* as it is.                                                               *)
(***************************************************************************)
EXTENDS ConnectionLife, Certificates

VARIABLE part

(* The application's two configs: one replaces another and both are accepted; one is refused at
   once by a client, which has no use for two certificates, and half-way by a server, for want of
   a key to sign with. *)
Mutual == s2n_config_set_client_auth_type(s2n_config_init, "REQUIRED")
Strict == s2n_config_set_max_cert_chain_depth(s2n_config_set_verify_host_callback(s2n_config_init, "config"), 3)
Unchecked == s2n_config_disable_x509_verification(s2n_config_init)
Unsigned == [Mutual EXCEPT !.no_signing_key = TRUE]
Offloaded == s2n_config_set_async_pkey_callback(s2n_config_enable_quic([Unsigned EXCEPT !.initial_tickets_to_send = 1]))
TwoCerts == [Unsigned EXCEPT !.default_certs_by_type["RSA"] = "x", !.default_certs_by_type["ECDSA"] = "y"]
Both(a, b) == [id \in AppIds |-> IF id = "A" THEN a ELSE b]
MCAppConfigs == {Both(Strict, Offloaded), Both(Unchecked, TwoCerts)}
ExternalConfigs == {Both(s2n_config_set_psk_mode(s2n_config_init, "EXTERNAL"), Unchecked)}

(* Certificates: two keys and their names, one expired intermediate, one self-signed, and two
   that do not load. *)
Dns(name) == [kind |-> "dns", name |-> name]
Cn(name, coding) == [name |-> name, coding |-> coding]
Leaf(subject, issuer, sig, to) == [cert |-> TRUE, subject |-> subject, issuer |-> issuer, sig |-> sig, from |-> 0, to |-> to]
Text == [cert |-> FALSE]
Pem(type, key, sans, cns, body) == [type |-> type, public |-> "k", private |-> key, sans |-> sans, cns |-> cns, body |-> body]
Inter == Leaf("inter", "root", "sha256", 9)
MCPems ==
    [r1 |-> Pem("RSA", "k", <<Dns(<<"a", "b">>)>>, <<>>, <<Leaf("r1", "root", "sha256", 9)>>),
     r2 |-> Pem("RSA", "k", <<Dns(<<"*", "b">>)>>, <<Cn(<<"a", "c">>, "utf8")>>, <<Leaf("r2", "inter", "sha1", 9), Inter>>),
     e1 |-> Pem("ECDSA", NULL, <<Dns(<<"A", "b">>), Dns(<<"c", "b">>)>>, <<>>, <<Leaf("e1", "inter", "sha256", 9), Leaf("inter", "root", "sha256", 4)>>),
     e2 |-> Pem("ECDSA", "k", <<>>, <<Cn(<<"A", "b">>, "utf8")>>, <<Leaf("e2", "e2", "sha1", 9)>>),
     e3 |-> Pem("ECDSA", "k", <<[kind |-> "uri", name |-> <<"a", "c">>], [kind |-> "ip", name |-> <<"1">>]>>,
                <<Cn(<<"a", "c">>, "bmp")>>, <<Leaf("e3", "root", "sha256", 9)>>),
     mismatch |-> Pem("RSA", "other", <<>>, <<>>, <<Leaf("m", "root", "sha256", 9)>>),
     garbage |-> Pem("RSA", "k", <<>>, <<>>, <<Leaf("g", "root", "sha256", 9), Text>>)]
AnyScheme == [any |-> TRUE, sigs |-> {}]
Only == [any |-> FALSE, sigs |-> {"sha256", "sha1"}]
Trusting(anchor) == s2n_config_set_verification_ca_location(s2n_config_init, anchor, TRUE)
Client(config, prefs, host) == [config |-> config, prefs |-> prefs, host |-> host]
MCClients ==
    {Client(Trusting("root"), Only, <<"a", "b">>),
     Client(Trusting("root"), AnyScheme, <<"c", "b">>),
     Client(s2n_config_set_max_cert_chain_depth(s2n_config_add_pem_to_trust_store(Trusting("r1"), "inter"), 1),
            AnyScheme, <<"A", "b">>),
     Client(s2n_config_set_check_stapled_ocsp_response(s2n_config_add_pem_to_trust_store(Trusting("e2"), "inter"), FALSE, TRUE),
            [Only EXCEPT !.sigs = {"sha256"}], <<"a", "b">>),
     Client(Trusting("root"), AnyScheme, <<"a", "c">>),
     Client(Trusting("root"), AnyScheme, <<>>),
     Client(s2n_config_set_status_request_type(s2n_config_disable_x509_verification(s2n_config_init), "OCSP", TRUE),
            Only, <<"d", "e">>)}
Response(about, status, this, next) == [size |-> 1, successful |-> TRUE, signed |-> TRUE, about |-> about, status |-> status, this |-> this, next |-> next]
MCResponses == {NoResponse, Response("r1", "good", 5, 0), Response("r1", "good", 2, 4), Response("r2", "revoked", 2, 9), [Response("r1", "good", 5, 0) EXCEPT !.signed = FALSE]}
MCHosts == {<<>>, <<"a", "b">>, <<"A", "c">>, <<"c", "b">>}

MCInit ==
    \/ /\ part = "life" /\ LifeInit /\ CertInit
    \/ /\ part = "certificates" /\ CertInit
       /\ LifeInit /\ conn = Freed /\ \A fd \in Fds : ~corked[fd]
       /\ configs["A"] = Strict

MCNext ==
    \/ part = "life" /\ LifeNext /\ UNCHANGED <<certvars, part>>
    \/ part = "certificates" /\ CertNext /\ UNCHANGED <<lvars, part>>

MCSpec == MCInit /\ [][MCNext]_<<lvars, certvars, part>>

-----------------------------------------------------------------------------
\* What the library takes it gives back, once: memory and I/O contexts when a connection is
\* wiped or freed (s2n_connection_free), the options of the application's sockets
\* (s2n_connection_wipe_io), and the chains of a config (s2n_config_free_cert_chain_and_key).
NothingLeaked == MemoryOwned /\ SocketsRestored /\ ChainsFreedOnce
=============================================================================
