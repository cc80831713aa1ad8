------------------------------ MODULE Secrets ------------------------------
(***************************************************************************)
(* Two connections that derive the secrets of a handshake of any version   *)
(* (Prf, KeyExchange, KeySchedule), update their traffic keys, give back   *)
(* the handshake's memory, resume the session in a second handshake, and   *)
(* are wiped (tls/s2n_connection.c).                                       *)
(*                                                                         *)
(* What is negotiated (Negotiate, Selection, Psk) is the setup of a        *)
(* behaviour; here every message carries what the derivations use.  One    *)
(* message may be corrupted on its way.                                    *)
(***************************************************************************)
EXTENDS KeySchedule, TLC

CONSTANTS
    Setups,          \* the negotiated parameters to check
    MaxUpdates       \* key updates each side may send in one connection

VARIABLES
    setup,           \* the parameters of this behaviour
    conn,            \* conn[m]: the connection of mode m
    wire,            \* wire[m]: the records m wrote and the other has not read
    spoken,          \* the handshake messages of this handshake, in order
    corrupted        \* a message was changed on the wire

vars == <<setup, conn, wire, spoken, corrupted>>

(***************************************************************************)
(* A connection as s2n_connection_wipe leaves it, with what the setup says *)
(* will be negotiated in the handshake to come.                            *)
(***************************************************************************)
HandshakeType(s, round) ==
    LET resumed == round = 2 \/ s.psks > 0
    IN  {"NEGOTIATED"}
        \cup (IF resumed THEN {} ELSE {"FULL_HANDSHAKE"} \cup IF s.auth THEN {"CLIENT_AUTH"} ELSE {})
        \cup (IF s.version < S2N_TLS13
              THEN IF ~resumed /\ s2n_kex_is_ephemeral(s.kex)
                   THEN {"TLS12_PERFECT_FORWARD_SECRECY"} ELSE {}
              ELSE (IF s.hrr THEN {"HELLO_RETRY_REQUEST"} ELSE {})
                   \cup IF s.early = "ACCEPTED" /\ resumed THEN {"WITH_EARLY_DATA"} ELSE {})

Fresh(m, s, round) ==
    [mode |-> m, round |-> round, version |-> s.version, type |-> HandshakeType(s, round),
     n |-> 0, msg |-> "CLIENT_HELLO", err |-> "", done |-> FALSE, wiped |-> FALSE,
     kex |-> s.kex, prf |-> s.prf, cipher |-> s.cipher, ems |-> s.ems, fips |-> s.fips,
     auth |-> IF s.auth THEN "OPTIONAL" ELSE "NONE", cache |-> s.cache, key_log |-> s.key_log,
     sig_hash |-> "sha512", hello_version |-> S2N_TLS12,
     resumed |-> round = 2 /\ s.version < S2N_TLS13,
     client_random |-> NULL, server_random |-> NULL,
     hashes |-> s2n_handshake_hashes_new, required |-> HashAlg, ws |-> <<"ready">>,
     client_finished |-> NULL, server_finished |-> NULL, master |-> NULL,
     keys |-> [d \in Direction |-> NoKeys], use |-> [d \in Direction |-> "initial"],
     out |-> NULL, saved |-> NULL, shared |-> NULL, premaster |-> NULL, rsa_failed |-> FALSE,
     pubkey |-> NULL, ecc |-> NoEcc, cecc |-> NoEcc, gecc |-> NoEcc, gcecc |-> NoEcc,
     gkem |-> NoKem, sgroup |-> "", dh |-> NULL, kem |-> NoKem,
     client_key_exchange_message |-> NULL, stored |-> NULL, log |-> {}, t13 |-> NoSecrets,
     psks |-> << >>, chosen |-> 0, early |-> "NOT_REQUESTED", updates |-> 0]

\* The handshake memory a connection can give back when it is done with it.
s2n_connection_free_handshake(c) == s2n_prf_free(s2n_handshake_hashes_free(c))

\* Memory given back is allocated again; the rest is wiped and zeroed, the
\* workspace of the PRF only reset.  The log belongs to the application.
s2n_connection_wipe(c, s, round) ==
    LET hs(d) == IF d.hashes = << >> THEN [d EXCEPT !.hashes = s2n_handshake_hashes_new]
                 ELSE s2n_handshake_hashes_wipe(d)
        ws(d) == IF d.ws = NULL THEN s2n_prf_new(d) ELSE s2n_prf_wipe(d)
        Zeroed(d) == [Fresh(d.mode, s, round) EXCEPT !.ws = d.ws, !.hashes = d.hashes,
                                                     !.log = d.log, !.wiped = TRUE]
    IN  Zeroed(ws(hs(c)))

Psk(secret, alg, type) == [secret |-> secret, early |-> NULL, alg |-> alg, type |-> type]

External(s) == [i \in 1..s.psks |-> Psk(<<"external", i>>, s.prf, "external")]

Init ==
    /\ setup \in Setups
    /\ conn = [m \in Mode |-> [Fresh(m, setup, 1) EXCEPT !.psks = External(setup)]]
    /\ wire = [m \in Mode |-> << >>]
    /\ spoken = << >>
    /\ corrupted = FALSE

(***************************************************************************)
(* The hellos.  A share is a public key or NULL; setup.group is the group  *)
(* the server selects, setup.pq says that the client offers a hybrid one.  *)
(***************************************************************************)
Shares(c) == <<IF c.cecc.key = NULL THEN NULL ELSE Public(c.cecc.key),
               IF c.gcecc.key = NULL THEN NULL ELSE Public(c.gcecc.key), c.gkem.pub>>

\* The first hello offers p256, the hello after a retry the selected group only.
OfferedCurve(c, s) ==
    IF s.hrr /\ c.n > 0 THEN IF s.group = "hybrid" THEN "" ELSE s.group ELSE "p256"

GenerateShares(c, s) ==
    LET Ecc(d) == IF OfferedCurve(c, s) = "" THEN [d EXCEPT !.cecc = NoEcc]
                  ELSE s2n_ecc_evp_generate_ephemeral_key(
                           [d EXCEPT !.cecc = [NoEcc EXCEPT !.curve = OfferedCurve(c, s)]],
                           "cecc", "share")
        Hybrid(d) == LET Kem(e) == s2n_kem_generate_keypair(e, "gkem")
                     IN  Then(s2n_ecc_evp_generate_ephemeral_key(
                                  [d EXCEPT !.gcecc = [NoEcc EXCEPT !.curve = "x25519"],
                                            !.gkem = [NoKem EXCEPT !.kem = "kyber"]],
                                  "gcecc", "hybrid share"), Kem)
        Pq(d) == IF s.pq /\ (~s.hrr \/ c.n = 0 \/ s.group = "hybrid") THEN Hybrid(d)
                 ELSE [d EXCEPT !.gcecc = NoEcc, !.gkem = NoKem]
    IN  Then(Ecc(c), Pq)

s2n_client_hello_send(c, s) ==
    LET Hello(d) == [WithBinder(d) EXCEPT
                       !.client_random = <<"client random", c.round>>,
                       !.early = IF @ = "NOT_REQUESTED" /\ s.early # "NONE" /\ Len(c.psks) > 0
                                 THEN "REQUESTED" ELSE @]
        Out(d) == [d EXCEPT !.out = <<"client hello", d.client_random, Shares(d),
                                      [i \in DOMAIN d.psks |-> s2n_derive_binder_key(d.psks[i])]>>]
        Share(d) == IF d.version = S2N_TLS13 THEN GenerateShares(d, s) ELSE d
    IN  Then(Share(Hello(c)), Out)

\* The server's choices are made here: the group, the PSK, early data, and
\* with them which hashes the handshake goes on with.
s2n_client_hello_recv(c, s, body) ==
    LET shares == body[3]
        binders == body[4]
        Classic(d) == [d EXCEPT !.ecc.curve = s.group,
                                !.cecc = IF shares[1] # NULL /\ shares[1][2] = s.group
                                         THEN [curve |-> s.group, key |-> shares[1]] ELSE NoEcc]
        Hybrid(d) == [d EXCEPT !.sgroup = "hybrid",
                               !.gecc = [NoEcc EXCEPT !.curve = "x25519"],
                               !.gcecc = [curve |-> "x25519", key |-> shares[2]],
                               !.gkem = [NoKem EXCEPT !.kem = "kyber", !.pub = shares[3]]]
        Group(d) == IF d.version < S2N_TLS13
                    THEN [d EXCEPT !.ecc.curve = IF d.kex \in {"ecdhe", "hybrid"} THEN s.group ELSE "",
                                   !.kem.kem = IF d.kex = "hybrid" THEN "kyber" ELSE ""]
                    ELSE IF s.group = "hybrid" THEN Hybrid(d) ELSE Classic(d)
        Pick(d) == IF binders = << >> THEN d
                   ELSE [WithBinder(d) EXCEPT !.chosen = IF c.round = 2 THEN 1 ELSE s.chosen,
                           !.early = IF s.early = "NONE" THEN @ ELSE s.early]
        Verify(d) == IF d.chosen # 0 /\ binders[d.chosen] # s2n_derive_binder_key(d.psks[d.chosen])
                     THEN Fail(d, "S2N_ERR_BAD_MESSAGE") ELSE d
    IN  Then(Then(Pick(Group([c EXCEPT !.client_random = body[2]])), Verify),
             s2n_conn_update_required_handshake_hashes)

\* s2n_server_key_share_send: the share of the selected group.
ServerShare(c) ==
    LET Ct(d) == s2n_kem_send_ciphertext([d EXCEPT !.saved = Public(d.gecc.key)], "gkem")
        Both(d) == [d EXCEPT !.out = <<d.saved, d.out>>, !.saved = NULL]
        One(d) == [d EXCEPT !.out = <<Public(d.ecc.key), NULL>>]
    IN  IF c.sgroup # ""
        THEN Then(Then(s2n_ecc_evp_generate_ephemeral_key(c, "gecc", "hybrid share"), Ct), Both)
        ELSE IF c.cecc.key = NULL THEN Fail(c, "S2N_ERR_BAD_KEY_SHARE")
        ELSE Then(s2n_ecc_evp_generate_ephemeral_key(c, "ecc", "share"), One)

s2n_server_hello_send(c) ==
    LET Random(d) == [d EXCEPT !.server_random = <<"server random", c.round>>]
        Out(d) == [d EXCEPT !.out = <<"server hello", d.server_random,
                                      IF d.version = S2N_TLS13 THEN d.out ELSE <<NULL, NULL>>,
                                      d.chosen>>]
        Share(d) == IF d.version = S2N_TLS13 THEN ServerShare(d) ELSE d
    IN  Then(Share(Random(c)), Out)

\* s2n_server_key_share_recv
TakeShare(c, share) ==
    LET Point(d) == s2n_ecc_evp_parse_params_point(d, "gecc", share[1])
        Ct(d) == s2n_kem_recv_ciphertext(d, "gkem", share[2])
    IN  IF share[2] # NULL
        THEN Then(Point([c EXCEPT !.sgroup = "hybrid", !.gecc.curve = "x25519"]), Ct)
        ELSE s2n_ecc_evp_parse_params_point([c EXCEPT !.ecc.curve = share[1][2]], "ecc", share[1])

\* s2n_early_data_accept_or_reject at the client: not possible after a retry
\* or with another PSK than the first.  Rejection starts the schedule again.
s2n_server_hello_parse(c) ==
    LET rejected == \/ c.early = "REJECTED"
                    \/ c.early = "REQUESTED" /\ (c.chosen # 1 \/ c.msg = "HELLO_RETRY_MSG")
    IN  IF rejected THEN s2n_tls13_key_schedule_reset([c EXCEPT !.early = "REJECTED"]) ELSE c

s2n_server_hello_recv(c, body) ==
    LET Share(d) == IF d.version = S2N_TLS13 THEN TakeShare(d, body[3]) ELSE d
        Keys(d) == IF d.resumed THEN s2n_prf_key_expansion(d) ELSE d
    IN  Then(Then(Share(s2n_server_hello_parse([c EXCEPT !.server_random = body[2],
                                                         !.chosen = body[4]])),
                  Keys), s2n_conn_update_required_handshake_hashes)

s2n_server_hello_retry_send(c) ==
    s2n_server_hello_retry_recreate_transcript([c EXCEPT !.out = <<"retry">>])

s2n_server_hello_retry_recv(c) ==
    Then(s2n_server_hello_parse(c), s2n_server_hello_retry_recreate_transcript)

\* The client learns here whether its early data was accepted.
s2n_encrypted_extensions_recv(c) ==
    [c EXCEPT !.early = IF @ = "REQUESTED" THEN IF WithEarlyData(c) THEN "ACCEPTED" ELSE "REJECTED"
                        ELSE @]

(***************************************************************************)
(* CertificateVerify and Finished of TLS 1.3.                              *)
(***************************************************************************)
s2n_tls13_generate_unsigned_cert_verify_content(c, m) ==
    <<"sig", m, s2n_handshake_copy_hash_state(c, c.prf)>>

s2n_tls13_cert_verify_send(c) ==
    IF c.hashes = << >> THEN Fail(c, "NULL hashes")
    ELSE [c EXCEPT !.out = s2n_tls13_generate_unsigned_cert_verify_content(c, c.mode)]

s2n_tls13_cert_verify_recv(c, body) ==
    IF c.hashes = << >> THEN Fail(c, "NULL hashes")
    ELSE IF body # s2n_tls13_generate_unsigned_cert_verify_content(c, S2N_PEER_MODE(c.mode))
    THEN Fail(c, "S2N_ERR_VERIFY_SIGNATURE") ELSE c

s2n_tls13_calculate_finished_mac(c, key) == <<"hmac", key, s2n_handshake_copy_hash_state(c, c.prf)>>

OwnFinishedKey(c, m) == IF m = "C" THEN c.client_finished ELSE c.server_finished

s2n_tls13_finished_send(c) ==
    IF c.hashes = << >> THEN Fail(c, "NULL hashes")
    ELSE [c EXCEPT !.out = s2n_tls13_calculate_finished_mac(c, OwnFinishedKey(c, c.mode))]

s2n_tls13_finished_recv(c, body) ==
    IF c.hashes = << >> THEN Fail(c, "NULL hashes")
    ELSE IF body # s2n_tls13_calculate_finished_mac(c, OwnFinishedKey(c, S2N_PEER_MODE(c.mode)))
    THEN Fail(c, "S2N_ERR_BAD_MESSAGE") ELSE c

(***************************************************************************)
(* One message: its handler, then the hash, the secrets, the keys.         *)
(***************************************************************************)
Handler(c, s) ==
    CASE c.msg = "CLIENT_HELLO"       -> s2n_client_hello_send(c, s)
      [] c.msg = "SERVER_HELLO"       -> s2n_server_hello_send(c)
      [] c.msg = "HELLO_RETRY_MSG"    -> s2n_server_hello_retry_send(c)
      [] c.msg = "SERVER_KEY"         -> s2n_server_key_send(c)
      [] c.msg = "CLIENT_KEY"         -> s2n_client_key_send(c)
      [] c.msg \in {"CLIENT_CERT_VERIFY", "SERVER_CERT_VERIFY"} /\ c.version = S2N_TLS13 ->
                                         s2n_tls13_cert_verify_send(c)
      [] c.msg = "CLIENT_CERT_VERIFY" -> s2n_client_cert_verify_send(c)
      [] c.msg \in {"CLIENT_FINISHED", "SERVER_FINISHED"} /\ c.version = S2N_TLS13 ->
                                         s2n_tls13_finished_send(c)
      [] c.msg = "CLIENT_FINISHED"    -> s2n_client_finished_send(c)
      [] c.msg = "SERVER_FINISHED"    -> s2n_server_finished_send(c)
      [] OTHER                        -> c

Reader(c, s, body) ==
    CASE c.msg = "CLIENT_HELLO"       -> s2n_client_hello_recv(c, s, body)
      [] c.msg = "SERVER_HELLO"       -> s2n_server_hello_recv(c, body)
      [] c.msg = "HELLO_RETRY_MSG"    -> s2n_server_hello_retry_recv(c)
      [] c.msg = "ENCRYPTED_EXTENSIONS" -> s2n_encrypted_extensions_recv(c)
      [] c.msg = "SERVER_CERT"        -> [c EXCEPT !.pubkey = <<"cert key">>]
      [] c.msg = "SERVER_KEY"         -> s2n_server_key_recv(c, body)
      [] c.msg = "CLIENT_KEY"         -> s2n_client_key_recv(c, body)
      [] c.msg \in {"CLIENT_CERT_VERIFY", "SERVER_CERT_VERIFY"} /\ c.version = S2N_TLS13 ->
                                         s2n_tls13_cert_verify_recv(c, body)
      [] c.msg = "CLIENT_CERT_VERIFY" -> s2n_client_cert_verify_recv(c, body)
      [] c.msg \in {"CLIENT_FINISHED", "SERVER_FINISHED"} /\ c.version = S2N_TLS13 ->
                                         s2n_tls13_finished_recv(c, body)
      [] c.msg = "CLIENT_FINISHED"    -> s2n_client_finished_recv(c, body)
      [] c.msg = "SERVER_FINISHED"    -> s2n_server_finished_recv(c, body)
      [] c.msg = "CLIENT_CHANGE_CIPHER_SPEC" -> s2n_client_ccs_recv(c)
      [] c.msg = "SERVER_CHANGE_CIPHER_SPEC" -> s2n_server_ccs_recv(c)
      [] OTHER                        -> c

Hash(c, m, body) == IF m \in CCS THEN c ELSE s2n_conn_update_handshake_hashes(c, <<m, body>>)

\* s2n_advance_message, and the clean-up that ends s2n_negotiate.
Advance(c) ==
    LET order == Order(c.version, c.type)
        next == [c EXCEPT !.n = @ + 1, !.msg = order[c.n + 2], !.out = NULL]
    IN  IF next.msg = "APPLICATION_DATA" THEN s2n_tls13_secrets_clean([next EXCEPT !.done = TRUE])
        ELSE next

Schedule(c) ==
    Then(Then(s2n_tls13_secrets_update(c), s2n_tls13_key_schedule_update), Advance)

Sends(m) == IF m = "C" THEN "client" ELSE "server"

\* The keys that protect the records of direction d now.
RecordKeys(c, d) ==
    IF c.use[d] = "initial" THEN NoKeys ELSE [c.keys[d] EXCEPT !.use = ""]

Usable(c, d) == c.use[d] = "initial" \/ c.keys[d].use = KeyUse(c, d)

(***************************************************************************)
(* The steps.                                                              *)
(***************************************************************************)
MyTurn(c) == c.err = "" /\ ~c.done /\ Writer(c.msg) = c.mode

Write(m) ==
    /\ MyTurn(conn[m])
    /\ \E c \in {Handler(conn[m], setup)} :
          LET Hashed(d) == Hash(d, conn[m].msg, c.out)
          IN  /\ conn' = [conn EXCEPT ![m] = Then(Then(c, Hashed), Schedule)]
              /\ wire' = [wire EXCEPT ![m] = IF c.err # "" THEN @ ELSE
                            Append(@, [msg |-> conn[m].msg, body |-> c.out,
                                       key |-> RecordKeys(c, Sends(m))])]
              /\ spoken' = IF c.err # "" \/ conn[m].msg \in CCS THEN spoken
                           ELSE Append(spoken, <<conn[m].msg, c.out>>)
    /\ UNCHANGED <<setup, corrupted>>

Read(m) ==
    LET p == S2N_PEER_MODE(m)
        c == conn[m]
        r == Head(wire[p])
        Handle(d) == Reader(d, setup, r.body)
        Hashed(d) == Hash(d, r.msg, r.body)
        Opened == IF RecordKeys(c, Sends(p)) # r.key \/ ~Usable(c, Sends(p))
                  THEN Fail(c, "S2N_ERR_DECRYPT") ELSE c
    IN  /\ wire[p] # << >>
        /\ c.err = "" /\ ~c.done /\ Writer(c.msg) = p
        /\ conn' = [conn EXCEPT ![m] = Then(Then(Then(Opened, Handle), Hashed), Schedule)]
        /\ wire' = [wire EXCEPT ![p] = Tail(@)]
        /\ UNCHANGED <<setup, spoken, corrupted>>

\* A KeyUpdate is sent under the old key, and the sender's next records use
\* the new one; it may be sent after the handshake's memory was given back.
SendKeyUpdate(m) ==
    /\ conn[m].done /\ conn[m].err = "" /\ ~conn[m].wiped
    /\ conn[m].version = S2N_TLS13 /\ conn[m].updates < MaxUpdates
    /\ wire' = [wire EXCEPT ![m] = Append(@, [msg |-> "KEY_UPDATE", body |-> NULL,
                                              key |-> RecordKeys(conn[m], Sends(m))])]
    /\ conn' = [conn EXCEPT ![m] = [s2n_update_application_traffic_keys(@, Sends(m))
                                      EXCEPT !.updates = @ + 1]]
    /\ UNCHANGED <<setup, spoken, corrupted>>

ReadKeyUpdate(m) ==
    LET p == S2N_PEER_MODE(m)
    IN  /\ conn[m].done /\ conn[m].err = "" /\ ~conn[m].wiped
        /\ wire[p] # << >> /\ Head(wire[p]).msg = "KEY_UPDATE"
        /\ conn' = [conn EXCEPT ![m] = IF RecordKeys(@, Sends(p)) # Head(wire[p]).key
                                       THEN Fail(@, "S2N_ERR_DECRYPT")
                                       ELSE s2n_update_application_traffic_keys(@, Sends(p))]
        /\ wire' = [wire EXCEPT ![p] = Tail(@)]
        /\ UNCHANGED <<setup, spoken, corrupted>>

FreeHandshake(m) ==
    /\ setup.free /\ conn[m].done /\ conn[m].err = "" /\ conn[m].hashes # << >>
    /\ conn' = [conn EXCEPT ![m] = s2n_connection_free_handshake(@)]
    /\ UNCHANGED <<setup, wire, spoken, corrupted>>

\* A connection is wiped when the application is through with it, or at an error.
Wipe(m) ==
    /\ ~conn[m].wiped \/ conn[m].round = 2
    /\ conn[m].done \/ conn[m].err # ""
    /\ ~(setup.resume /\ conn[m].round = 1 /\ conn[m].err = "")
    /\ conn' = [conn EXCEPT ![m] = [s2n_connection_wipe(@, setup, @.round)
                                      EXCEPT !.err = "wiped", !.done = conn[m].done]]
    /\ conn[m].err # "wiped"
    /\ UNCHANGED <<setup, wire, spoken, corrupted>>

\* The session each side keeps: the master secret (from the cache or the
\* ticket at the server), or the PSK of a ticket.
Session(c) ==
    IF c.version = S2N_TLS13 THEN s2n_tls13_derive_session_ticket_secret(c)
    ELSE IF c.mode = "S" /\ c.cache THEN c.stored ELSE c.master

Resumes(c, session) ==
    IF c.version = S2N_TLS13
    THEN [c EXCEPT !.psks = <<Psk(session, c.prf, "resumption")>>, !.wiped = FALSE]
    ELSE [c EXCEPT !.master = session, !.wiped = FALSE]

Resume ==
    /\ setup.resume /\ ~corrupted
    /\ \A m \in Mode : conn[m].done /\ conn[m].err = "" /\ conn[m].round = 1 /\ wire[m] = << >>
    /\ conn' = [m \in Mode |-> Resumes(s2n_connection_wipe(conn[m], setup, 2), Session(conn[m]))]
    /\ spoken' = << >>
    /\ UNCHANGED <<setup, wire, corrupted>>

(***************************************************************************)
(* One key exchange value arrives other than it was sent.                  *)
(***************************************************************************)
Garbled(pub) == <<"pub", pub[2], Tampered>>

GarbledBody(r) ==
    CASE r.msg = "CLIENT_KEY" /\ r.body[1] = "enc" -> <<"enc", <<"no key">>, r.body[3]>>
      [] r.msg = "CLIENT_KEY" /\ r.body[1] = "pub" -> Garbled(r.body)
      [] r.msg = "CLIENT_KEY"                      -> <<"hybrid", Garbled(r.body[2]), r.body[3]>>
      [] OTHER -> <<r.body[1], r.body[2], <<Garbled(r.body[3][1]), r.body[3][2]>>, r.body[4]>>

Corrupt(m) ==
    /\ setup.corrupt /\ ~corrupted /\ wire[m] # << >>
    /\ \/ Head(wire[m]).msg = "CLIENT_KEY"
       \/ Head(wire[m]).msg = "SERVER_HELLO" /\ setup.version = S2N_TLS13
    /\ wire' = [wire EXCEPT ![m] = <<[Head(@) EXCEPT !.body = GarbledBody(Head(wire[m]))]>> \o Tail(@)]
    /\ corrupted' = TRUE
    /\ UNCHANGED <<setup, conn, spoken>>

Next ==
    \/ \E m \in Mode : Write(m) \/ Read(m) \/ SendKeyUpdate(m) \/ ReadKeyUpdate(m)
                          \/ FreeHandshake(m) \/ Wipe(m) \/ Corrupt(m)
    \/ Resume

SecretsSpec == Init /\ [][Next]_vars

(***************************************************************************)
(* Properties.                                                             *)
(***************************************************************************)
Both == \A m \in Mode : conn[m].done /\ conn[m].err = ""

\* What the transcript hash must hold: all of it, the first hello replaced by
\* its digest after a retry.
Transcript(c) ==
    IF "HELLO_RETRY_REQUEST" \notin c.type THEN spoken
    ELSE <<<<"message_hash">>, <<"hash", c.prf, <<spoken[1]>>>>>> \o Tail(spoken)

\* After a retry TLS 1.3 recreates the hash of the PRF only.
UsedHashes(c) == IF c.version = S2N_TLS13 THEN {c.prf} ELSE c.required

SameSecrets ==
    /\ conn["C"].master = conn["S"].master
    /\ conn["C"].t13.res = conn["S"].t13.res
    /\ \A m \in Mode : wire[m] = << >> =>
          RecordKeys(conn["C"], Sends(m)) = RecordKeys(conn["S"], Sends(m))
    /\ \A m \in Mode : conn[m].keys.client.key # conn[m].keys.server.key
                       /\ conn[m].use = [d \in Direction |-> "secure"]

LogsAgree == \A x \in conn["C"].log, y \in conn["S"].log :
                 x[1] = y[1] /\ x[2] = y[2] => x[3] = y[3]

(***************************************************************************)
(* Both sides of a handshake derive the same secrets and keys, with        *)
(* distinct keys for the two directions, from the whole transcript; no     *)
(* handler fails on the way, the first handshake or the one that resumes   *)
(* it, before or after a key update.  When a key exchange value was        *)
(* corrupted the handshake ends on neither side with the other, and an RSA *)
(* server does not show before the Finished message that it could not      *)
(* decrypt.                                                                *)
(***************************************************************************)
SecretsAgree ==
    /\ ~corrupted => /\ \A m \in Mode : conn[m].err \in {"", "wiped"}
                     /\ Both => SameSecrets
                     /\ LogsAgree
                     /\ \A m \in Mode : (Both /\ conn[m].hashes # << >>) =>
                           \A a \in UsedHashes(conn[m]) : conn[m].hashes[a] = Transcript(conn[m])
    /\ corrupted => /\ ~Both
                    /\ (setup.kex = "rsa" /\ setup.version < S2N_TLS13
                        /\ conn["S"].err \notin {"", "wiped"}) => conn["S"].msg = "CLIENT_FINISHED"

KeySharesGone(c) ==
    /\ c.ecc.key = NULL /\ c.cecc.key = NULL /\ c.gecc.key = NULL /\ c.gcecc.key = NULL
    /\ c.gkem.priv = NULL /\ c.gkem.secret = NULL
    /\ \A i \in DOMAIN c.psks : c.psks[i].secret = NULL /\ c.psks[i].early = NULL

ExchangeGone(c) ==
    /\ c.ecc.key = NULL /\ c.dh = NULL /\ c.pubkey = NULL /\ c.shared = NULL
    /\ c.kem.priv = NULL /\ c.kem.secret = NULL /\ c.premaster \in {NULL, ZERO}

(***************************************************************************)
(* Secrets do not outlive their use: key shares and PSKs are gone once     *)
(* the handshake secret exists, the values of a key exchange once the      *)
(* master secret exists, the extracted, early and handshake secrets when   *)
(* the handshake is over, and a wiped connection holds no secret but one:  *)
(* outside FIPS mode the PRF workspace stays keyed with the last secret it *)
(* was used with (s2n_prf_wipe calls s2n_hmac_reset, which keeps the key), *)
(* though docs/USAGE-GUIDE.md:1751 says that s2n_connection_wipe "erases   *)
(* all data associated with a connection".                                 *)
(***************************************************************************)
SecretsErased ==
    \A m \in Mode :
        LET c == conn[m] IN
        /\ c.t13.type >= S2N_HANDSHAKE_SECRET \/ (c.done /\ c.version = S2N_TLS13) => KeySharesGone(c)
        /\ c.done /\ c.version < S2N_TLS13 => ExchangeGone(c)
        /\ c.done /\ c.version = S2N_TLS13 =>
              /\ c.t13.extract \in {ZERO, NULL}
              /\ \A i \in 1..2 : {c.t13.client[i], c.t13.server[i]} \subseteq {ZERO, NULL}
        /\ c.wiped => /\ c.master = NULL /\ c.t13 = NoSecrets /\ c.psks = << >>
                      /\ c.keys = [d \in Direction |-> NoKeys]
                      /\ ExchangeGone(c) /\ KeySharesGone(c)
                      /\ c.client_finished = NULL /\ c.server_finished = NULL
                      /\ \A a \in HashAlg : c.hashes[a] = << >>
                      /\ c.fips => c.ws = <<"ready">>

\* Secrets are shared with the peer and, the PRF workspace apart, with nobody
\* later: the two properties above (s2n_tls13_handle_secrets,
\* s2n_prf_key_expansion, s2n_connection_wipe).
SecretsRight == SecretsAgree /\ SecretsErased

=============================================================================
