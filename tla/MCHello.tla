------------------------------ MODULE MCHello ------------------------------
(***************************************************************************)
(* What two endpoints settle in their hellos: versions, suites, groups and *)
(* signatures (Selection), features (Extensions), sessions and pre-shared  *)
(* keys (Psk).  One of the three takes place in a behaviour, the others    *)
(* stay as they are.                                                       *)
(***************************************************************************)
EXTENDS Selection

CONSTANTS Examined,     \* the parts examined
          AgeAdds, PskSetups, Sizes, MaxSends, MaxClock, MaxRounds

VARIABLES part,
          conn, message, at, fsetup,                                             \* of Extensions
          cl, sv, up, down, session, issued, clock, round, sent, got, psetup     \* of Psk

fvars == <<conn, message, at, fsetup>>
pvars == <<cl, sv, up, down, session, issued, clock, round, sent, got, psetup>>

-----------------------------------------------------------------------------
(* Selection: every policy meets every policy, and some that differ in each of their lists meet
   again under every version, build and fault. *)

Certs(exact, wildcard, default) == [exact |-> exact, wildcard |-> wildcard, default |-> default]

PoliciesNamed(names) == {s2n_find_security_policy_from_version(n) : n \in names}
EveryPolicy == PoliciesNamed(DOMAIN security_policy_selection \ {"null"})
AllPairs ==
    [client : EveryPolicy, server : EveryPolicy, version : {S2N_TLS13}, pq : {<<TRUE, TRUE>>}, dhparams : {TRUE},
     fault : {"NONE"}, certs : {Certs({}, {}, {RsaCert}), Certs({}, {}, {EcdsaCert("secp256r1"), RsaCert})}]

SomePolicies == PoliciesNamed({"default", "default_tls13", "20140601", "20190802", "20210816", "20201021", "test_all",
                 "test_all_ecdsa", "test_all_tls13", "AWS-CRT-SDK-TLSv1.3",
                 "PQ-TLS-1-0-2020-12", "PQ-TLS-1-0-2021-05-24", "KMS-PQ-TLS-1-0-2019-06"})
SomePairs ==
    [client : SomePolicies, server : SomePolicies, version : {S2N_SSLv3, S2N_TLS11, S2N_TLS12, S2N_TLS13},
     pq : {<<TRUE, TRUE>>, <<TRUE, FALSE>>, <<FALSE, TRUE>>}, dhparams : BOOLEAN,
     fault : {"NONE", "STRIP", "FALLBACK", "SSLV2"},
     certs : {Certs({}, {}, {EcdsaCert("secp256r1")}),
              Certs({}, {EcdsaCert("secp384r1"), RsaCert}, {RsaCert}),
              Certs({PssCert}, {RsaCert}, {EcdsaCert("secp256r1")})}]

SelectionSetups == <<AllPairs, SomePairs>>

-----------------------------------------------------------------------------
(* Extensions: the features of two configurations that differ from a usual one in at most two
   settings, which may be on the same side or not. *)

Usual == [version |-> S2N_TLS13, alpn |-> <<"http", "h2">>, ocsp |-> TRUE, sct |-> TRUE, mfl |-> 1,
          tickets |-> TRUE, quic |-> FALSE, name |-> "host"]

Sides == {"client", "server"}

Settings == [version |-> {S2N_TLS12, S2N_TLS13}, alpn |-> {<<>>, <<"h2">>, <<"h2", "http">>},
            ocsp |-> {FALSE}, sct |-> {FALSE}, mfl |-> {0, 2}, tickets |-> {FALSE},
            quic |-> {TRUE}, name |-> {""}]

\* The configurations of both sides with up to n settings changed.
Pairs[n \in 0..2] ==
    IF n = 0 THEN {[client |-> [Usual EXCEPT !.version = v], server |-> [Usual EXCEPT !.version = w]] :
                        v \in {S2N_TLS12, S2N_TLS13}, w \in {S2N_TLS12, S2N_TLS13}}
    ELSE Pairs[n - 1] \cup
         UNION {{[p EXCEPT ![side][f] = v] : p \in Pairs[n - 1], v \in Settings[f]} :
                    side \in Sides, f \in DOMAIN Settings}

\* A client has a session only with tickets, one of TLS 1.3 only when that is
\* what it speaks.
Resumable(p, resumes) ==
    /\ resumes # "none" => p.client.tickets
    /\ resumes = "psk" => p.client.version = S2N_TLS13 /\ p.server.version = S2N_TLS13

Setting(p, resumes, valid, retry, other) ==
    [client |-> p.client, server |-> p.server, session |-> resumes, valid |-> valid,
     retry |-> retry, other |-> other]

\* Of another implementation only the version matters.
Plain(config) == \A f \in DOMAIN config \ {"version"} : config[f] = Usual[f]

Candidates ==
    {Setting(p, resumes, valid, retry, other) :
        p \in Pairs[1], resumes \in {"none", "psk", "ems", "plain"}, valid \in BOOLEAN,
        retry \in BOOLEAN, other \in Sides}
    \cup {Setting(p, resumes, valid, retry, "none") :
            p \in Pairs[2], resumes \in {"none", "psk", "ems", "plain"}, valid \in BOOLEAN,
            retry \in BOOLEAN}

FeatureSetups == {s \in Candidates :
                /\ Resumable(s, s.session)
                /\ s.valid => s.session \in {"ems", "plain"}
                /\ s.retry => s.client.version = S2N_TLS13 /\ s.server.version = S2N_TLS13
                /\ s.other # "none" => /\ Plain(s[s.other])
                                       /\ s.retry => Plain(s.client) /\ Plain(s.server)}

Features == INSTANCE Extensions WITH Setups <- FeatureSetups, setup <- fsetup

-----------------------------------------------------------------------------
(* Psk: sessions resumed with and without a retry, and lists of external keys of one and of two
   hashes. *)

Psk == INSTANCE Psk

\* An external key that its application has configured early data for, or not (max = 0).
External(identity, hash, max) ==
    [type |-> "external", identity |-> identity, size |-> 4, secret |-> 100 + identity, hmac_alg |-> hash,
     ticket_age_add |-> 0, ticket_issue_time |-> 0, max_early_data_size |-> max,
     cipher |-> IF max = 0 THEN "none" ELSE IF hash = "sha384" THEN "AES_256" ELSE "AES_128",
     application_protocol |-> [name |-> "", size |-> 0], keying_material_expiration |-> 0, origin |-> 0]

Client(ciphers, alpn, psks, early) == [ciphers |-> ciphers, alpn |-> alpn, psks |-> psks, early |-> early]
Server(ciphers, alpn, psks, max, tickets, reads) ==
    [ciphers |-> ciphers, alpn |-> alpn, psks |-> psks, max_early_data |-> max, tickets |-> tickets,
     reads_early |-> reads]

Small == <<"AES_128", "AES_256">>
Large == <<"AES_256", "AES_128">>
H2 == [name |-> "h2", size |-> 2]
H1 == [name |-> "http/1.1", size |-> 8]

\* Sessions: the first connection has no key, the next ones the ticket's.
ResumptionSetups ==
    {[client |-> Client(Small, <<>>, <<>>, TRUE),
      server |-> Server(Large, <<>>, <<>>, max, 1, reads), retry |-> retry] :
        max \in {0, 30}, reads \in BOOLEAN, retry \in BOOLEAN}
    \cup
    {[client |-> Client(Small, <<H1, H2>>, <<>>, FALSE),
      server |-> Server(Small, <<H2>>, <<>>, 0, 2, FALSE), retry |-> FALSE]}

A == External(1, "sha256", 30)
B == External(2, "sha256", 60)
C == External(3, "sha384", 30)
D == External(4, "sha256", 0)

\* Keys set by the applications; after a retry all are of one hash.
ExternalSetups ==
    {[client |-> Client(Small, <<>>, keys, TRUE),
      server |-> Server(ciphers, <<>>, known, 0, 0, reads), retry |-> FALSE] :
        keys \in {<<A>>, <<A, B>>, <<C, A>>, <<D, B>>, <<A, D>>}, known \in {<<A>>, <<B, A>>, <<C>>},
        ciphers \in {Small, Large}, reads \in BOOLEAN}
    \cup
    {[client |-> Client(Small, <<>>, keys, TRUE),
      server |-> Server(Small, <<>>, known, 0, 0, TRUE), retry |-> TRUE] :
        keys \in {<<A>>, <<A, B>>}, known \in {<<A>>, <<B>>}}

\* After a retry the second hello leaves out the first key, of another hash.
RetrySetups ==
    {[client |-> Client(Small, <<>>, <<C, A>>, FALSE),
      server |-> Server(Small, <<>>, <<A>>, 0, 0, FALSE), retry |-> TRUE]}

MCPskSetups == ResumptionSetups \cup ExternalSetups
-----------------------------------------------------------------------------
IdleSetup == CHOOSE s \in AllPairs : TRUE
IdleFeatures == CHOOSE s \in FeatureSetups : TRUE
IdlePsk == CHOOSE s \in PskSetups : TRUE

HelloInit ==
    /\ part \in Examined
    /\ part # "selection" => setup = IdleSetup
    /\ part # "features" => fsetup = IdleFeatures
    /\ part # "psk" => psetup = IdlePsk
    /\ Init /\ Features!ExtensionsInit /\ Psk!PskInit

HelloNext ==
    /\ UNCHANGED part
    /\ \/ part = "selection" /\ Next /\ UNCHANGED <<fvars, pvars>>
       \/ part = "features" /\ Features!ExtensionsNext /\ UNCHANGED <<vars, pvars>>
       \/ part = "psk" /\ Psk!PskNext /\ UNCHANGED <<vars, fvars>>

HelloSpec == HelloInit /\ [][HelloNext]_<<part, vars, fvars, pvars>>

-----------------------------------------------------------------------------
(* Properties, of the parts. *)

\* What two policies agree on is in both, in the highest version both have whatever happens to
\* the hello on its way, and a handshake fails only when nothing would do (s2n_cipher_suites.c,
\* s2n_server_hello.c, s2n_server_key_share.c).
SelectionRight == AgreedWithinBothPolicies /\ HighestCommonVersion /\ FailsOnlyWhenItMust

\* Both sides have the same features on, those both were configured for, and nothing is
\* answered that was not asked (s2n_extension_type.c and the extensions).
FeaturesRight == Features!FeaturesAgree /\ Features!OnlySolicited

\* Both sides use the same key of those offered (s2n_server_psk_recv, s2n_client_psk_recv).
PskAgreed == Psk!PskAgreed

\* Both sides use the same key; early data stays in its limit and in order
\* (s2n_early_data_io.c); keying material is used no longer than it may (s2n_resume.c:70).
PskRight == Psk!PskAgreed /\ Psk!EarlyDataWithinLimit /\ Psk!KeyingMaterialLimited
=============================================================================
