---------------------------- MODULE Certificates ----------------------------
(***************************************************************************)
(* Certificates from the application's PEM to the peer that checks them:   *)
(* loading a chain and its key (crypto/s2n_certificate.c), a config's      *)
(* store of chains by name and its defaults (tls/s2n_config.c), what a     *)
(* server sends for a server name (tls/s2n_handshake.c), and what a client *)
(* makes of it (tls/s2n_x509_validator.c), with a stapled OCSP response.   *)
(*                                                                         *)
(* A name is the sequence of its labels; a label is a word, of which some  *)
(* have an upper case form.  A certificate on the wire is its subject, its *)
(* issuer, how it is signed and when it is valid.                          *)
(***************************************************************************)
EXTENDS Config, SequencesExt

CONSTANTS Pems,         \* what the application may load, by the name of its handle
          Hosts,        \* server names
          Clients,      \* a config, the certificate_signature_preferences of its policy, and a server name
          CertVersions,
          Responses,    \* OCSP responses
          Now,          \* the time on the client's clock
          MaxChains     \* bound: chains that are loaded

VARIABLES chains,   \* the s2n_cert_chain_and_key of each handle
          store,    \* the server's config
          live,     \* it has not been freed
          added,    \* the handles in the order in which they were added to it
          hs        \* one handshake

Chains == DOMAIN Pems

\* No handle is the one of no chain.
ASSUME CertAssumption == NULL \notin Chains

certvars == <<chains, store, live, added, hs>>

S2N_TLS13 == 34

-----------------------------------------------------------------------------
(* Names. *)

\* s2n_blob_char_to_lower, strncasecmp
Lower(name) == [i \in DOMAIN name |-> IF name[i] = "A" THEN "a" ELSE name[i]]

\* The whole name, or one label where the name has a wildcard.
s2n_default_verify_host(host, name) ==
    /\ host # <<>>
    /\ \/ Lower(host) = Lower(name)
       \/ /\ Len(name) > 1 /\ Head(name) = "*" /\ name # <<"*", "">>
          /\ Len(host) > 1 /\ Lower(Tail(host)) = Lower(Tail(name))

\* Nothing, for a name without a dot.
s2n_create_wildcard_hostname(name) == IF Len(name) < 2 THEN <<>> ELSE <<"*">> \o Tail(name)

-----------------------------------------------------------------------------
(* A chain and its key. *)

NoResponse == [size |-> 0]

\* owner: who has to free it, "app" or "config", or nobody.
NoChain == [alive |-> FALSE, freed |-> 0, owner |-> NULL]

s2n_cert_chain_and_key_new ==
    [alive |-> TRUE, freed |-> 0, owner |-> NULL, type |-> NULL, key |-> NULL, certs |-> <<>>,
     san_names |-> <<>>, cn_names |-> <<>>, ocsp_status |-> NoResponse]

\* The certificates up to the first that cannot be read, which must be the end of the text.
s2n_create_cert_chain_from_stuffer(body) ==
    LET good == {i \in 1..Len(body) : \A j \in 1..i : body[j].cert}
    IN  [ok |-> good # {} /\ Cardinality(good) = Len(body), certs |-> SubSeq(body, 1, Cardinality(good))]

\* Only DNS names.
s2n_cert_chain_and_key_load_sans(pem) ==
    LET Dns(san) == san.kind = "dns"
        dns == SelectSeq(pem.sans, Dns)
    IN  [i \in DOMAIN dns |-> Lower(dns[i].name)]

\* Every common name there is, whatever its encoding; an empty one is left out.
s2n_cert_chain_and_key_load_cns(pem) ==
    LET Filled(cn) == cn.name # <<>>
        cns == SelectSeq(pem.cns, Filled)
    IN  [i \in DOMAIN cns |-> Lower(cns[i].name)]

s2n_pkey_match(public, private) == public = private

\* With or without the private key (s2n_cert_chain_and_key_load_public_pem_bytes).
s2n_cert_chain_and_key_load_pem(chain, pem) ==
    LET read == s2n_create_cert_chain_from_stuffer(pem.body)
        have == [chain EXCEPT !.certs = read.certs]
        keyed == [have EXCEPT !.key = pem.private, !.type = pem.type]
    IN  IF ~read.ok THEN [ok |-> FALSE, chain |-> have]
        ELSE IF pem.type \notin CertTypes THEN [ok |-> FALSE, chain |-> [keyed EXCEPT !.type = NULL]]
        ELSE IF pem.private # NULL /\ ~s2n_pkey_match(pem.public, pem.private) THEN [ok |-> FALSE, chain |-> keyed]
        ELSE [ok |-> TRUE,
              chain |-> [keyed EXCEPT !.san_names = s2n_cert_chain_and_key_load_sans(pem),
                                      !.cn_names = s2n_cert_chain_and_key_load_cns(pem)]]

s2n_cert_chain_and_key_free(chain) == [NoChain EXCEPT !.freed = chain.freed + 1, !.owner = chain.owner]

\* Data of length zero removes what there was.
s2n_cert_chain_and_key_set_ocsp_data(chain, response) == [chain EXCEPT !.ocsp_status = response]

-----------------------------------------------------------------------------
(* A config's chains. *)

\* The first chain of a type keeps a name, unless the application breaks the tie.
\* map: the config's domain_name_to_cert_map.
s2n_config_update_domain_name_to_cert_map(map, name, id, type, tiebreak) ==
    LET Put(certs) == [n \in DOMAIN map \cup {name} |-> IF n = name THEN certs ELSE map[n]]
    IN  IF name = <<>> THEN map
        ELSE IF name \notin DOMAIN map THEN Put([NoCerts EXCEPT ![type] = id])
        ELSE IF map[name][type] = NULL \/ tiebreak = "newest" THEN Put([map[name] EXCEPT ![type] = id])
        ELSE map

EnterNames(config, names, id, type) ==
    [config EXCEPT !.domain_name_to_cert_map =
        FoldLeft(LAMBDA map, name : s2n_config_update_domain_name_to_cert_map(map, name, id, type, config.cert_tiebreak_cb),
                 @, names)]

\* Mutant: the common names are entered too.
s2n_config_build_domain_name_to_cert_map_Both(config, chain, id) ==
    EnterNames(config, chain.san_names \o chain.cn_names, id, chain.type)

s2n_config_build_domain_name_to_cert_map(config, chain, id) ==
    EnterNames(config, IF chain.san_names = <<>> THEN chain.cn_names ELSE chain.san_names, id, chain.type)

s2n_config_add_cert_chain_and_key_to_store(config, chain, id) ==
    [s2n_config_build_domain_name_to_cert_map(config, chain, id) EXCEPT
        !.is_rsa_cert_configured = @ \/ chain.type = "RSA",
        !.default_certs_by_type[chain.type] = IF ~config.default_certs_are_explicit /\ @ = NULL THEN id ELSE @,
        !.no_signing_key = @ \/ chain.key = NULL]

s2n_config_clear_default_certificates(config) == [config EXCEPT !.default_certs_by_type = NoCerts]

\* At most one chain of each type; a list that is refused changes nothing.
s2n_config_set_cert_chain_and_key_defaults(config, ids) ==
    LET TypeOf(id) == chains[id].type
        types == {TypeOf(id) : id \in ids}
    IN  IF ids = {} \/ Cardinality(types) # Cardinality(ids) THEN config
        ELSE [s2n_config_clear_default_certificates(config) EXCEPT
                !.default_certs_by_type = [t \in CertTypes |->
                    IF t \in types THEN CHOOSE id \in ids : TypeOf(id) = t ELSE NULL],
                !.is_rsa_cert_configured = @ \/ "RSA" \in types,
                !.default_certs_are_explicit = TRUE]

\* The chains s2n_config_add_cert_chain_and_key made, which the application has no handle of.
s2n_config_free_cert_chain_and_key(config) ==
    IF config.cert_allocated
    THEN [id \in Chains |-> IF \E t \in CertTypes : config.default_certs_by_type[t] = id
                            THEN s2n_cert_chain_and_key_free(chains[id]) ELSE chains[id]]
    ELSE chains

s2n_config_get_single_default_cert(config) ==
    LET types == {i \in DOMAIN S2N_CERT_TYPES : config.default_certs_by_type[S2N_CERT_TYPES[i]] # NULL}
    IN  IF types = {} THEN NULL
        ELSE config.default_certs_by_type[S2N_CERT_TYPES[CHOOSE i \in types : \A j \in types : i <= j]]

-----------------------------------------------------------------------------
(* What a server sends. *)

s2n_find_cert_matches(config, name) ==
    IF name \in DOMAIN config.domain_name_to_cert_map
    THEN [exists |-> TRUE, certs |-> config.domain_name_to_cert_map[name]]
    ELSE [exists |-> FALSE, certs |-> NoCerts]

\* The name itself first, then with a wildcard for its first label.
s2n_conn_find_name_matching_certs(config, host) ==
    LET name == Lower(host)
        wc   == s2n_create_wildcard_hostname(name)
        none == [exists |-> FALSE, certs |-> NoCerts]
        exact == IF name = <<>> THEN none ELSE s2n_find_cert_matches(config, name)
    IN  [exact |-> exact, wildcard |-> IF exact.exists \/ wc = <<>> THEN none ELSE s2n_find_cert_matches(config, wc)]

\* Possibly none, when the name is known and not for this type of key.
s2n_get_compatible_cert_chain_and_key(config, found, type) ==
    IF found.exact.exists THEN found.exact.certs[type]
    ELSE IF found.wildcard.exists THEN found.wildcard.certs[type]
    ELSE config.default_certs_by_type[type]

-----------------------------------------------------------------------------
(* What a client makes of it. *)

\* s2n_x509_validator_init and s2n_x509_validator_init_no_x509_validation,
\* s2n_x509_validator_set_max_chain_depth
Validator(config) ==
    [state |-> "INIT", skip |-> config.disable_x509_validation,
     store_ctx |-> ~config.disable_x509_validation /\ config.trust_store.made,
     check_ocsp |-> ~config.disable_x509_validation /\ config.check_ocsp, verified |-> <<>>,
     max_chain_depth |-> IF config.max_verify_cert_chain_depth # 0 /\ ~config.disable_x509_validation
                         THEN config.max_verify_cert_chain_depth ELSE DEFAULT_MAX_CHAIN_DEPTH]

\* The uint8_t of s2n_verify_host_information: each DNS name, URI and address until one is
\* accepted; the last common name when there was neither a DNS name nor an address.
\* POSIX_ENSURE returns -1, which is 255 here, for a common name that does not fit peer_cn.
s2n_verify_host_information(pem, host) ==
    LET named == {pem.sans[i] : i \in DOMAIN pem.sans}
        cn    == Last(pem.cns)
        Accepted(name) == IF s2n_default_verify_host(host, name) THEN 1 ELSE 0
    IN  IF \E san \in named : s2n_default_verify_host(host, san.name) THEN 1
        ELSE IF \E san \in named : san.kind \in {"dns", "ip"} THEN 0
        ELSE IF pem.cns = <<>> THEN 0
        ELSE CASE cn.coding = "long" -> 255
               [] cn.coding = "ia5" -> 0                     \* not a type it knows
               [] cn.coding = "bmp" -> 0                     \* two bytes a character, compared as they are
               [] OTHER -> Accepted(cn.name)

s2n_validate_sig_scheme_supported(cert, prefs, version) ==
    cert.sig \in prefs /\ ~(version >= S2N_TLS13 /\ cert.sig = "sha1")

s2n_validate_certificate_signature(cert, prefs, version) ==
    prefs.any \/ cert.subject = cert.issuer \/ s2n_validate_sig_scheme_supported(cert, prefs.sigs, version)

\* libcrypto: a path from the leaf through certificates of the wire to an authority, each
\* within its time; the names on it, with the authority's.  Nothing, when there is none.
X509_verify_cert(wire, trust) ==
    LET Anchored(c) == trust.partial /\ c.subject \in trust.anchors
        Ends(c)     == Anchored(c) \/ c.issuer \in trust.anchors
        Paths == {p \in UNION {[1..n -> 1..Len(wire)] : n \in 1..Len(wire)} :
                    /\ p[1] = 1
                    /\ \A i \in 1..(Len(p) - 1) : wire[p[i + 1]].subject = wire[p[i]].issuer
                    /\ Ends(wire[p[Len(p)]])
                    /\ \A i \in DOMAIN p : wire[p[i]].from <= Now /\ Now <= wire[p[i]].to}
        Named(p) == LET end == wire[p[Len(p)]]
                    IN  [i \in DOMAIN p |-> wire[p[i]].subject]
                            \o (IF Anchored(end) \/ end.issuer = end.subject THEN <<>> ELSE <<end.issuer>>)
    IN  IF Paths = {} THEN <<>> ELSE Named(CHOOSE p \in Paths : \A q \in Paths : Len(p) <= Len(q))

\* s2n_x509_validator_validate_cert_chain without the extensions of TLS 1.3.
ValidateChain(v, client, pem, wire, version) ==
    LET read == Min({Len(wire), v.max_chain_depth})
        path == X509_verify_cert(wire, client.config.trust_store)
        Fail == [ok |-> FALSE, v |-> v]
    IN  IF ~v.skip /\ ~client.config.trust_store.made THEN Fail
        ELSE IF v.state # "INIT" THEN Fail
        ELSE IF ~v.skip /\ \E i \in 1..read : ~s2n_validate_certificate_signature(wire[i], client.prefs, version) THEN Fail
        ELSE IF ~v.skip /\ read < Len(wire) THEN Fail
        ELSE IF v.skip THEN [ok |-> TRUE, v |-> v]
        ELSE IF s2n_verify_host_information(pem, client.host) = 0 \/ path = <<>> THEN Fail
        ELSE [ok |-> TRUE, v |-> [v EXCEPT !.state = "VALIDATED", !.verified = path]]

\* An hour, when the response does not say until when it holds.
DEFAULT_OCSP_NEXT_UPDATE_PERIOD == 1
NextUpdate(r) == IF r.next = 0 THEN r.this + DEFAULT_OCSP_NEXT_UPDATE_PERIOD ELSE r.next

\* What OCSP_basic_verify and OCSP_resp_find_status make of it is in its fields.
\* Mutant: a response is good for ever.
s2n_x509_validator_validate_cert_stapled_ocsp_response_AnyTime(v, leaf, r) ==
    LET Checked == /\ v.state = "VALIDATED" /\ r.size > 0 /\ r.successful
                   /\ leaf.issuer \in Range(v.verified)
                   /\ r.signed /\ r.about = leaf.subject /\ r.this <= Now /\ r.status = "good"
        ok == v.skip \/ ~v.check_ocsp \/ Checked
    IN  [ok |-> ok, v |-> IF ok THEN [v EXCEPT !.state = "OCSP_VALIDATED"] ELSE v]

s2n_x509_validator_validate_cert_stapled_ocsp_response(v, leaf, r) ==
    LET Checked == /\ v.state = "VALIDATED" /\ r.size > 0 /\ r.successful
                   /\ leaf.issuer \in Range(v.verified)
                   /\ r.signed /\ r.about = leaf.subject
                   /\ r.this <= Now /\ Now <= NextUpdate(r)
                   /\ r.status = "good"
        ok == v.skip \/ ~v.check_ocsp \/ Checked
    IN  [ok |-> ok, v |-> IF ok THEN [v EXCEPT !.state = "OCSP_VALIDATED"] ELSE v]

s2n_x509_validator_is_cert_chain_validated(v) == v.state \in {"VALIDATED", "OCSP_VALIDATED"}

\* The chain X509_verify_cert found, in an empty handle.  A handle that is not empty is emptied
\* and refused.  A validated chain without a store_ctx is one that was never verified.
s2n_connection_get_peer_cert_chain(v, handle) ==
    IF handle # <<>> \/ ~s2n_x509_validator_is_cert_chain_validated(v) \/ ~v.store_ctx
    THEN [ok |-> FALSE, chain |-> <<>>] ELSE [ok |-> TRUE, chain |-> v.verified]

-----------------------------------------------------------------------------
(* The application that serves the names. *)

NoHandshake == [at |-> "idle"]

CertInit ==
    /\ chains = [id \in Chains |-> NoChain]
    /\ store = s2n_config_init
    /\ live = TRUE
    /\ added = <<>>
    /\ hs = NoHandshake

\* Each PEM is loaded once; MaxChains bounds how many.
Unused(id) == chains[id].owner = NULL /\ Cardinality({c \in Chains : chains[c].owner # NULL}) < MaxChains

\* A chain that cannot be loaded is freed by the application.
LoadChain(id) ==
    \E r \in {s2n_cert_chain_and_key_load_pem(s2n_cert_chain_and_key_new, Pems[id])} :
        /\ Unused(id)
        /\ hs = NoHandshake
        /\ chains' = [chains EXCEPT ![id] =
                        [(IF r.ok THEN r.chain ELSE s2n_cert_chain_and_key_free(r.chain)) EXCEPT !.owner = "app"]]
        /\ UNCHANGED <<store, live, added, hs>>

Mine(id) == chains[id].alive /\ chains[id].owner = "app"

\* Which of the two interfaces a config is filled with is never mixed.
AddToStore(id) ==
    /\ live /\ hs = NoHandshake /\ Mine(id) /\ id \notin Range(added) /\ ~store.cert_allocated
    /\ store' = s2n_config_add_cert_chain_and_key_to_store(store, chains[id], id)
    /\ added' = Append(added, id)
    /\ UNCHANGED <<chains, live, hs>>

\* s2n_config_add_cert_chain_and_key: one pair in a config, as its documentation says.  What
\* cannot be loaded belongs to nobody.
AddPems(id) ==
    \E r \in {s2n_cert_chain_and_key_load_pem(s2n_cert_chain_and_key_new, Pems[id])} :
        /\ Unused(id)
        /\ live /\ hs = NoHandshake /\ added = <<>> /\ ~store.default_certs_are_explicit
        /\ store' = IF r.ok THEN [s2n_config_add_cert_chain_and_key_to_store(store, r.chain, id) EXCEPT !.cert_allocated = TRUE]
                    ELSE store
        /\ added' = IF r.ok THEN <<id>> ELSE added
        /\ chains' = [chains EXCEPT ![id] = [r.chain EXCEPT !.owner = IF r.ok THEN "config" ELSE "nobody"]]
        /\ UNCHANGED <<live, hs>>

SetDefaults(ids) ==
    /\ live /\ hs = NoHandshake /\ ~store.cert_allocated /\ \A id \in ids : Mine(id)
    /\ store' = s2n_config_set_cert_chain_and_key_defaults(store, ids)
    /\ UNCHANGED <<chains, live, added, hs>>

\* s2n_config_set_cert_tiebreak_callback
SetTiebreak ==
    /\ live /\ hs = NoHandshake /\ store.cert_tiebreak_cb = NULL
    /\ store' = [store EXCEPT !.cert_tiebreak_cb = "newest"]
    /\ UNCHANGED <<chains, live, added, hs>>

\* One chain has a response at a time.
SetOcspData(id, response) ==
    /\ hs = NoHandshake /\ Mine(id) /\ \A other \in Chains \ {id} : chains[other].alive => chains[other].ocsp_status = NoResponse
    /\ chains' = [chains EXCEPT ![id] = s2n_cert_chain_and_key_set_ocsp_data(@, response)]
    /\ UNCHANGED <<store, live, added, hs>>

\* s2n_config_free, s2n_config_cleanup.
FreeConfig ==
    /\ live /\ hs = NoHandshake
    /\ chains' = s2n_config_free_cert_chain_and_key(store)
    /\ live' = FALSE
    /\ UNCHANGED <<store, added, hs>>

FreeChain(id) ==
    /\ Mine(id) /\ hs = NoHandshake /\ (~live \/ id \notin Range(added) \cup Range(store.default_certs_by_type))
    /\ chains' = [chains EXCEPT ![id] = s2n_cert_chain_and_key_free(@)]
    /\ UNCHANGED <<store, live, added, hs>>

-----------------------------------------------------------------------------
(* A handshake with one of the clients. *)

\* s2n_server_can_send_ocsp
Stapled(client, chain) == client.config.status_request_type = "OCSP" /\ chain.ocsp_status.size > 0

\* The ClientHello, and the server's Certificate for a key of this type.
ServerCert(client, version, type) ==
    \E id \in {s2n_get_compatible_cert_chain_and_key(store, s2n_conn_find_name_matching_certs(store, client.host), type)} :
        /\ live /\ hs = NoHandshake /\ id # NULL
        /\ hs' = [at |-> "cert", client |-> client, version |-> version, id |-> id,
                  v |-> Validator(client.config), status |-> Stapled(client, chains[id]), peer |-> <<>>]
        /\ UNCHANGED <<chains, store, live, added>>

Checked(r, next) == [hs EXCEPT !.v = r.v, !.at = IF r.ok THEN next ELSE "failed"]

\* s2n_server_cert_recv; in TLS 1.3 the response comes with the certificate.
CertRecv ==
    /\ hs.at = "cert"
    /\ hs' = LET r == ValidateChain(hs.v, hs.client, Pems[hs.id], chains[hs.id].certs, hs.version)
                 s == s2n_x509_validator_validate_cert_stapled_ocsp_response(r.v, Head(chains[hs.id].certs), chains[hs.id].ocsp_status)
             IN  IF ~r.ok \/ ~hs.status THEN Checked(r, "done")
                 ELSE IF hs.version = S2N_TLS13 THEN Checked(s, "done") ELSE Checked(r, "status")
    /\ UNCHANGED <<chains, store, live, added>>

\* s2n_server_status_recv, s2n_server_certificate_status_recv
StatusRecv ==
    /\ hs.at = "status"
    /\ hs' = Checked(s2n_x509_validator_validate_cert_stapled_ocsp_response(hs.v, Head(chains[hs.id].certs), chains[hs.id].ocsp_status),
                     "done")
    /\ UNCHANGED <<chains, store, live, added>>

\* At any time, also after a failure.
GetPeerCertChain ==
    /\ hs.at \in {"status", "done", "failed"} /\ hs.peer = <<>>
    /\ hs' = [hs EXCEPT !.peer = s2n_connection_get_peer_cert_chain(hs.v, <<>>).chain]
    /\ UNCHANGED <<chains, store, live, added>>

CertNext ==
    \/ \E id \in Chains : LoadChain(id) \/ AddPems(id) \/ AddToStore(id) \/ FreeChain(id)
    \/ \E ids \in SUBSET Chains : SetDefaults(ids)
    \/ SetTiebreak
    \/ \E id \in Chains, response \in Responses : SetOcspData(id, response)
    \/ FreeConfig
    \/ \E client \in Clients, version \in CertVersions, type \in CertTypes :
            ServerCert(client, version, type)
    \/ CertRecv
    \/ StatusRecv
    \/ GetPeerCertChain

-----------------------------------------------------------------------------
(* Properties. *)

\* A certificate for servers: its names are DNS names, or it has just the one common name.
Plain(pem) == IF pem.sans = <<>> THEN Len(pem.cns) = 1 /\ pem.cns[1].coding = "utf8"
              ELSE \A i \in DOMAIN pem.sans : pem.sans[i].kind = "dns"

Accepts(pem, host) == s2n_verify_host_information(pem, host) # 0

\* What a name is looked up by on the server (crypto/s2n_certificate.c, s2n_handshake.c) and
\* what a client compares it with (s2n_verify_host_information, s2n_default_verify_host) agree:
\* a chain picked because of the name is one a client that asked for it accepts, and when no
\* chain is found by the name, no chain in the store would have been accepted.  Then it is the
\* explicit default, or the first that was added.  Without a tiebreak callback the first of two
\* chains for a name keeps it.
ServedNameIsAccepted ==
    live /\ added # <<>> /\ hs = NoHandshake => \A host \in Hosts, type \in CertTypes :
        LET found == s2n_conn_find_name_matching_certs(store, host)
            id    == s2n_get_compatible_cert_chain_and_key(store, found, type)
            match == found.exact.exists \/ found.wildcard.exists
            OfType(i) == chains[added[i]].type = type
        IN  /\ match /\ id # NULL /\ Plain(Pems[id]) => Accepts(Pems[id], host)
            /\ ~match => \A other \in Range(added) : Plain(Pems[other]) => ~Accepts(Pems[other], host)
            /\ ~match /\ ~store.default_certs_are_explicit =>
                  IF \E i \in DOMAIN added : OfType(i)
                  THEN \E i \in DOMAIN added : id = added[i] /\ OfType(i) /\ \A j \in 1..(i - 1) : ~OfType(j)
                  ELSE id = NULL
            /\ found.exact.exists /\ id # NULL /\ store.cert_tiebreak_cb = NULL =>
                  \A other \in Range(added) :
                      (Lower(host) \in Range(chains[other].san_names) /\ chains[other].type = type)
                          => \E i, j \in DOMAIN added : i <= j /\ added[i] = id /\ added[j] = other

\* Chains are freed once, by the application that loaded them or by the config that did
\* (s2n_config_free_cert_chain_and_key), and never while a config in use refers to them.
ChainsFreedOnce ==
    /\ \A id \in Chains : chains[id].freed <= 1
    /\ live => \A id \in Range(added) : chains[id].alive
    /\ live => \A type \in CertTypes : store.default_certs_by_type[type] \in {NULL} \cup {id \in Chains : chains[id].alive}
    /\ ~live => \A id \in Chains : chains[id].owner = "config" => chains[id].freed = 1

\* What a verified peer is: reachable from an authority, all of it within its time and signed
\* in a way the policy allows, and made out to the name that was asked for.
Reached(wire, trust) ==
    LET Step(S) == S \cup {i \in DOMAIN wire : \E j \in S : wire[i].subject = wire[j].issuer /\ wire[i].from <= Now /\ Now <= wire[i].to}
        all == FoldLeft(LAMBDA S, i : Step(S), IF wire[1].from <= Now /\ Now <= wire[1].to THEN {1} ELSE {}, wire)
    IN  \E i \in all : wire[i].issuer \in trust.anchors \/ (trust.partial /\ wire[i].subject \in trust.anchors)

Timely(leaf, r) ==
    /\ r.successful /\ r.signed /\ r.about = leaf.subject /\ r.status = "good"
    /\ r.this <= Now /\ (r.next = 0 => Now <= r.this + 1) /\ (r.next # 0 => Now <= r.next)

\* A handshake gets past the server's certificate exactly when the client does not check
\* certificates or the chain is good for the name, and with it a stapled response that was
\* asked for and is checked (s2n_x509_validator.c); that does not depend on whether the response
\* comes with the certificate (TLS 1.3) or in a message of its own.  The application gets a
\* peer's chain only when it was verified (s2n_connection_get_peer_cert_chain).
PeerVerified ==
    hs.at \in {"done", "failed"} =>
        LET c == hs.client.config
            wire == chains[hs.id].certs
            Allowed(cert) == \/ hs.client.prefs.any \/ cert.subject = cert.issuer
                             \/ cert.sig \in hs.client.prefs.sigs /\ (hs.version = S2N_TLS13 => cert.sig # "sha1")
            good == /\ c.trust_store.made /\ Reached(wire, c.trust_store) /\ Accepts(Pems[hs.id], hs.client.host)
                    /\ \A i \in DOMAIN wire : Allowed(wire[i])
                    /\ c.max_verify_cert_chain_depth # 0 => Len(wire) <= c.max_verify_cert_chain_depth
            \* An authority that is the leaf itself cannot have its response verified.
            issued == ~(c.trust_store.partial /\ wire[1].subject \in c.trust_store.anchors)
            fresh == hs.status /\ c.check_ocsp => Timely(wire[1], chains[hs.id].ocsp_status) /\ issued
        IN  /\ (hs.at = "done") <=> (c.disable_x509_validation \/ (good /\ fresh))
            /\ hs.peer # <<>> => good /\ ~c.disable_x509_validation /\ Head(hs.peer) = wire[1].subject
=============================================================================
