----------------------------- MODULE Extensions -----------------------------
(***************************************************************************)
(* The hello extensions (tls/extensions): how an extension is sent,        *)
(* received and found missing, the lists of the messages, and the features *)
(* they negotiate between a client and a server that may resume a session  *)
(* or ask for a second ClientHello.  One of the two may be another         *)
(* implementation, whose extensions are any.                               *)
(*                                                                         *)
(* The extensions that choose versions, groups and signatures are those of *)
(* module Selection, those of pre-shared keys those of module Psk.         *)
(***************************************************************************)
EXTENDS Integers, Sequences, FiniteSets, SequencesExt

CONSTANTS Setups       \* the pairs of configurations examined, as [client, server, session,
                       \*   valid, retry, other]

TLS12 == 33
TLS13 == 34

VARIABLES conn,        \* the connections, by side
          message,     \* the extensions in flight, as a sequence of [id, data]
          at,          \* how far the handshake is
          setup        \* the setup of this behaviour

evars == <<conn, message, at, setup>>

None == ""

(***************************************************************************)
(* The extensions of each message.                                         *)
(***************************************************************************)
client_hello_extensions ==
    <<"client_server_name", "client_alpn", "client_status_request", "client_sct_list",
      "client_max_frag_len", "client_session_ticket", "client_ec_point_format",
      "client_renegotiation_info", "client_cookie", "quic_transport_parameters", "client_ems">>

tls12_server_hello_extensions ==
    <<"server_server_name", "server_ec_point_format", "server_renegotiation_info", "server_alpn",
      "server_status_request", "server_sct_list", "server_max_fragment_length",
      "server_session_ticket", "server_ems">>

hello_retry_request_extensions == <<"server_cookie">>
tls13_server_hello_extensions == <<>>

encrypted_extensions ==
    <<"server_server_name", "server_max_fragment_length", "server_alpn",
      "quic_transport_parameters">>

certificate_extensions == <<"tls13_server_status_request", "server_sct_list">>

(***************************************************************************)
(* The extension types.  What a structure of type s2n_extension_type holds *)
(* for a connection c: the number on the wire, whether it answers one of   *)
(* the peer's, whether to send it and with what, and what its absence      *)
(* does.  Receiving one is an operator of its own.                         *)
(***************************************************************************)
Fails(c) == [c EXCEPT !.ok = FALSE]

Request(iana, should_send, data, c) ==
    [iana_value |-> iana, is_response |-> FALSE, minimum_version |-> 0,
     should_send |-> should_send, send |-> data, if_missing |-> c]

Response(iana, should_send, data, c) ==
    [Request(iana, should_send, data, c) EXCEPT !.is_response = TRUE]

\* Server name.  The client's first one stays.
s2n_client_server_name_extension(c) == Request("server_name", c.server_name # None, c.server_name, c)

s2n_client_server_name_recv(c, d) == IF c.server_name # None THEN c ELSE [c EXCEPT !.server_name = d]

s2n_server_server_name_extension(c) ==
    Response("server_name", c.server_name_used /\ ~c.resumed, None, c)

s2n_server_name_recv(c) == [c EXCEPT !.server_name_used = TRUE]

\* Application protocol: the server's first that the client has.
s2n_client_alpn_extension(c) == Request("alpn", c.config.alpn # <<>>, c.config.alpn, c)

s2n_client_alpn_recv(c, d) ==
    LET match == SelectSeq(c.config.alpn, LAMBDA p : p \in Range(d))
    IN  IF match = <<>> THEN c ELSE [c EXCEPT !.application_protocol = match[1]]

s2n_server_alpn_extension(c) ==
    Response("alpn", c.application_protocol # None, <<c.application_protocol>>, c)

s2n_alpn_recv(c, d) == [c EXCEPT !.application_protocol = d[1]]

\* Certificate status and signed certificate timestamps.
s2n_server_can_send_ocsp(c) == c.mode = "server" /\ c.status_type = "ocsp" /\ c.config.ocsp
s2n_server_can_send_sct_list(c) == c.mode = "server" /\ c.ct_requested /\ c.config.sct

s2n_client_status_request_extension(c) == Request("status_request", c.config.ocsp, None, c)

s2n_client_status_request_recv(c) == [c EXCEPT !.status_type = "ocsp"]

s2n_server_status_request_extension(c) ==
    Response("status_request", s2n_server_can_send_ocsp(c), None, c)

s2n_server_status_request_recv(c) == [c EXCEPT !.status_type = "ocsp"]

s2n_tls13_server_status_request_extension(c) ==
    Response("status_request", s2n_server_can_send_ocsp(c), None, c)

\* Of a response that can be verified.
s2n_server_certificate_status_recv(c) == [c EXCEPT !.status_type = "ocsp"]

s2n_client_sct_list_extension(c) == Request("sct_list", c.config.sct, None, c)

s2n_client_sct_list_recv(c) == [c EXCEPT !.ct_requested = TRUE]

s2n_server_sct_list_extension(c) == Response("sct_list", s2n_server_can_send_sct_list(c), None, c)

s2n_server_sct_list_recv(c) == [c EXCEPT !.ct_response = TRUE]

\* Maximum fragment length.  A server ignores a code without a length; a
\* client accepts only its own.
mfl_code_to_length == <<512, 1024, 2048, 4096>>

s2n_connection_set_max_fragment_length(c, n) ==
    [c EXCEPT !.max_outgoing =
        IF c.mfl_code # 0 /\ mfl_code_to_length[c.mfl_code] < n THEN mfl_code_to_length[c.mfl_code]
        ELSE n]

s2n_client_max_frag_len_extension(c) == Request("max_frag_len", c.config.mfl # 0, c.config.mfl, c)

s2n_client_max_frag_len_recv(c, d) ==
    IF c.config.mfl = 0 \/ d \notin DOMAIN mfl_code_to_length THEN c
    ELSE s2n_connection_set_max_fragment_length([c EXCEPT !.mfl_code = d], mfl_code_to_length[d])

s2n_server_max_fragment_length_extension(c) == Response("max_frag_len", c.mfl_code # 0, c.mfl_code, c)

s2n_max_fragment_length_recv(c, d) ==
    IF d # c.config.mfl THEN Fails(c)
    ELSE s2n_connection_set_max_fragment_length([c EXCEPT !.mfl_code = d], c.max_outgoing)

\* Session tickets of TLS 1.2.  The server has a key and asks for no client
\* certificate.
s2n_server_sending_nst(c) == c.config.tickets /\ c.ticket_status = "new"

s2n_client_session_ticket_extension(c) ==
    Request("session_ticket", c.config.tickets /\ ~c.psk, c.client_ticket, c)

s2n_client_session_ticket_recv(c, d) ==
    IF ~c.config.tickets \/ c.version > TLS12 THEN c
    ELSE [c EXCEPT !.ticket_status = IF d # None THEN "decrypt" ELSE "new", !.client_ticket = d]

s2n_server_session_ticket_extension(c) ==
    Response("session_ticket", s2n_server_sending_nst(c) /\ c.version < TLS13, None, c)

s2n_session_ticket_recv(c) == [c EXCEPT !.ticket_status = "new"]

\* Point formats and renegotiation.
s2n_client_ec_point_format_extension(c) == Request("ec_point_formats", c.ecc, None, c)
s2n_server_ec_point_format_extension(c) == Response("ec_point_formats", c.ecc, None, c)

s2n_ec_point_format_recv(c) == [c EXCEPT !.ec_point_formats = TRUE]

s2n_client_renegotiation_info_extension(c) == Request("renegotiation_info", FALSE, None, c)

s2n_client_renegotiation_recv(c) == [c EXCEPT !.secure_renegotiation = TRUE]

s2n_server_renegotiation_info_extension(c) ==
    Request("renegotiation_info", c.secure_renegotiation /\ c.version < TLS13, None, c)

s2n_renegotiation_info_recv(c) == [c EXCEPT !.secure_renegotiation = TRUE]

\* The cookie.  A server handles cookies only in the unit tests.
s2n_client_cookie_extension(c) ==
    [Response("cookie", c.cookie # None, c.cookie, Fails(c)) EXCEPT !.minimum_version = TLS13]

s2n_client_cookie_recv(c) == Fails(c)

s2n_server_cookie_extension(c) ==
    [Request("cookie", FALSE, c.cookie, c) EXCEPT !.minimum_version = TLS13]

s2n_server_cookie_recv(c, d) == IF c.retry THEN [c EXCEPT !.cookie = d] ELSE Fails(c)

\* The parameters of QUIC, the same for both sides: both speak it or neither.
s2n_quic_transport_parameters_extension(c) ==
    [Request("quic_transport_parameters", c.config.quic, None, IF c.config.quic THEN Fails(c) ELSE c)
        EXCEPT !.minimum_version = TLS13]

s2n_quic_transport_params_recv(c) == IF c.config.quic THEN [c EXCEPT !.quic_peer = TRUE] ELSE Fails(c)

\* The extended master secret.  A client with a session that has none does
\* not ask for it.
s2n_client_ems_extension(c) == Request("ems", ~(c.set_session /\ ~c.ems_negotiated), None, c)

s2n_client_ems_recv(c) == [c EXCEPT !.ems_negotiated = TRUE]

s2n_server_ems_extension(c) ==
    Response("ems", c.version < TLS13, None, IF c.ems_negotiated THEN Fails(c) ELSE c)

s2n_server_ems_recv(c) == [c EXCEPT !.ems_negotiated = TRUE]

\* The type a name stands for.
Type(x, c) ==
    CASE x = "client_server_name" -> s2n_client_server_name_extension(c)
      [] x = "server_server_name" -> s2n_server_server_name_extension(c)
      [] x = "client_alpn" -> s2n_client_alpn_extension(c)
      [] x = "server_alpn" -> s2n_server_alpn_extension(c)
      [] x = "client_status_request" -> s2n_client_status_request_extension(c)
      [] x = "server_status_request" -> s2n_server_status_request_extension(c)
      [] x = "tls13_server_status_request" -> s2n_tls13_server_status_request_extension(c)
      [] x = "client_sct_list" -> s2n_client_sct_list_extension(c)
      [] x = "server_sct_list" -> s2n_server_sct_list_extension(c)
      [] x = "client_max_frag_len" -> s2n_client_max_frag_len_extension(c)
      [] x = "server_max_fragment_length" -> s2n_server_max_fragment_length_extension(c)
      [] x = "client_session_ticket" -> s2n_client_session_ticket_extension(c)
      [] x = "server_session_ticket" -> s2n_server_session_ticket_extension(c)
      [] x = "client_ec_point_format" -> s2n_client_ec_point_format_extension(c)
      [] x = "server_ec_point_format" -> s2n_server_ec_point_format_extension(c)
      [] x = "client_renegotiation_info" -> s2n_client_renegotiation_info_extension(c)
      [] x = "server_renegotiation_info" -> s2n_server_renegotiation_info_extension(c)
      [] x = "client_cookie" -> s2n_client_cookie_extension(c)
      [] x = "server_cookie" -> s2n_server_cookie_extension(c)
      [] x = "quic_transport_parameters" -> s2n_quic_transport_parameters_extension(c)
      [] x = "client_ems" -> s2n_client_ems_extension(c)
      [] x = "server_ems" -> s2n_server_ems_extension(c)

recv(x, c, d) ==
    CASE x = "client_server_name" -> s2n_client_server_name_recv(c, d)
      [] x = "server_server_name" -> s2n_server_name_recv(c)
      [] x = "client_alpn" -> s2n_client_alpn_recv(c, d)
      [] x = "server_alpn" -> s2n_alpn_recv(c, d)
      [] x = "client_status_request" -> s2n_client_status_request_recv(c)
      [] x = "server_status_request" -> s2n_server_status_request_recv(c)
      [] x = "tls13_server_status_request" -> s2n_server_certificate_status_recv(c)
      [] x = "client_sct_list" -> s2n_client_sct_list_recv(c)
      [] x = "server_sct_list" -> s2n_server_sct_list_recv(c)
      [] x = "client_max_frag_len" -> s2n_client_max_frag_len_recv(c, d)
      [] x = "server_max_fragment_length" -> s2n_max_fragment_length_recv(c, d)
      [] x = "client_session_ticket" -> s2n_client_session_ticket_recv(c, d)
      [] x = "server_session_ticket" -> s2n_session_ticket_recv(c)
      [] x = "client_ec_point_format" -> s2n_ec_point_format_recv(c)
      [] x = "client_renegotiation_info" -> s2n_client_renegotiation_recv(c)
      [] x = "server_renegotiation_info" -> s2n_renegotiation_info_recv(c)
      [] x = "client_cookie" -> s2n_client_cookie_recv(c)
      [] x = "server_cookie" -> s2n_server_cookie_recv(c, d)
      [] x = "quic_transport_parameters" -> s2n_quic_transport_params_recv(c)
      [] x = "client_ems" -> s2n_client_ems_recv(c)
      [] x = "server_ems" -> s2n_server_ems_recv(c)
      [] OTHER -> c

(***************************************************************************)
(* Sending, receiving and missing any extension.                           *)
(***************************************************************************)
\* Mutant: a response goes out whether or not it was asked for.
s2n_extension_send_Unasked(s, x) ==
    LET t == Type(x, s.conn)
    IN  IF t.minimum_version > s.conn.version \/ ~t.should_send THEN s
        ELSE [conn |-> [s.conn EXCEPT !.requests_sent =
                            IF t.is_response THEN @ ELSE @ \cup {t.iana_value}],
              out |-> Append(s.out, [id |-> t.iana_value, data |-> t.send])]

s2n_extension_send(s, x) ==
    LET t == Type(x, s.conn)
    IN  IF \/ t.is_response /\ t.iana_value \notin s.conn.requests_received
           \/ t.minimum_version > s.conn.version
           \/ ~t.should_send
        THEN s
        ELSE [conn |-> [s.conn EXCEPT !.requests_sent =
                            IF t.is_response THEN @ ELSE @ \cup {t.iana_value}],
              out |-> Append(s.out, [id |-> t.iana_value, data |-> t.send])]

s2n_extension_recv(x, c, d) ==
    LET t == Type(x, c)
    IN  IF t.is_response /\ t.iana_value \notin c.requests_sent THEN Fails(c)
        ELSE IF t.minimum_version > c.version THEN c
        ELSE LET r == recv(x, c, d)
             IN  [r EXCEPT !.requests_received =
                    IF r.ok /\ ~t.is_response THEN @ \cup {t.iana_value} ELSE @]

s2n_extension_is_missing(x, c) ==
    LET t == Type(x, c)
    IN  IF \/ t.is_response /\ t.iana_value \notin c.requests_sent
           \/ t.minimum_version > c.version
        THEN c
        ELSE t.if_missing

s2n_extension_list_send(list, c) ==
    FoldLeft(s2n_extension_send, [conn |-> c, out |-> <<>>], list)

\* An extension may be there once; those a list does not have are ignored.
s2n_extension_list_parse(msg) ==
    \A i, j \in DOMAIN msg : msg[i].id = msg[j].id => i = j

s2n_extension_process(c, x, msg) ==
    LET id == Type(x, c).iana_value
        found == SelectSeq(msg, LAMBDA e : e.id = id)
    IN  IF ~c.ok THEN c
        ELSE IF found = <<>> THEN s2n_extension_is_missing(x, c)
        ELSE s2n_extension_recv(x, c, found[1].data)

s2n_extension_list_recv(list, c, msg) ==
    IF ~s2n_extension_list_parse(msg) THEN Fails(c)
    ELSE FoldLeft(LAMBDA d, x : s2n_extension_process(d, x, msg), c, list)

(***************************************************************************)
(* The handlers of the messages.                                           *)
(***************************************************************************)
NewConnection(mode, config) ==
    [mode |-> mode, config |-> config, version |-> config.version, ok |-> TRUE,
     requests_sent |-> {}, requests_received |-> {},
     server_name |-> IF mode = "client" THEN config.name ELSE None, server_name_used |-> FALSE,
     application_protocol |-> None, status_type |-> "none",
     ct_requested |-> FALSE, ct_response |-> FALSE, mfl_code |-> 0, max_outgoing |-> 8087,
     ticket_status |-> "none", client_ticket |-> None, ec_point_formats |-> FALSE, ecc |-> TRUE,
     secure_renegotiation |-> FALSE, cookie |-> None, quic_peer |-> FALSE,
     ems_negotiated |-> FALSE, set_session |-> FALSE, resumed |-> FALSE, retry |-> FALSE,
     psk |-> FALSE]

\* The client's connection with a session of TLS 1.2 (a ticket, with or
\* without the extended master secret) or of TLS 1.3 (a pre-shared key).
s2n_connection_set_session(c, session) ==
    CASE session = "none" -> c
      [] session = "psk" -> [c EXCEPT !.set_session = TRUE, !.psk = TRUE]
      [] OTHER -> [c EXCEPT !.set_session = TRUE, !.client_ticket = session,
                            !.ems_negotiated = (session = "ems")]

Negotiated == Min({setup.client.version, setup.server.version})

ExtensionsInit ==
    /\ setup \in Setups
    /\ conn = [client |-> s2n_connection_set_session(NewConnection("client", setup.client),
                                                     setup.session),
               server |-> NewConnection("server", setup.server)]
    /\ message = <<>>
    /\ at = "hello"

Both(side) == setup.other # side

\* The step from one point of the handshake to the next, when the two
\* connections are then c (the sender's) and the message is out.
Sent(side, list, next) ==
    LET s == s2n_extension_list_send(list, conn[side])
    IN  /\ Both(side)
        /\ conn' = [conn EXCEPT ![side] = s.conn]
        /\ message' = s.out
        /\ at' = next
        /\ UNCHANGED setup

\* What another implementation may send: any two of these, the same twice too.
Offers ==
    <<[id |-> "alpn", data |-> <<"h2">>], [id |-> "max_frag_len", data |-> 1],
      [id |-> "max_frag_len", data |-> 2], [id |-> "max_frag_len", data |-> 9],
      [id |-> "session_ticket", data |-> None], [id |-> "session_ticket", data |-> "ems"],
      [id |-> "session_ticket", data |-> "plain"], [id |-> "cookie", data |-> "cookie"],
      [id |-> "server_name", data |-> "host"], [id |-> "status_request", data |-> None],
      [id |-> "sct_list", data |-> None], [id |-> "ec_point_formats", data |-> None],
      [id |-> "renegotiation_info", data |-> None], [id |-> "ems", data |-> None],
      [id |-> "quic_transport_parameters", data |-> None]>>

OtherSends(side, ids, next) ==
    LET may == {n \in DOMAIN Offers : Offers[n].id \in ids}
    IN  /\ setup.other = side
        /\ \E picks \in {<<>>} \cup {<<n>> : n \in may} \cup {p \in may \X may : p[1] <= p[2]} :
              message' = [k \in DOMAIN picks |-> Offers[picks[k]]]
        /\ at' = next
        /\ UNCHANGED <<conn, setup>>

AllIds == {Offers[n].id : n \in DOMAIN Offers}

ClientHello == /\ at = "hello"
               /\ \/ Sent("client", client_hello_extensions, "client_hello")
                  \/ OtherSends("client", AllIds, "client_hello")

Got(side, c, next) == /\ conn' = [conn EXCEPT ![side] = c]
                      /\ message' = <<>>
                      /\ at' = IF c.ok THEN next ELSE "failed"
                      /\ UNCHANGED setup

\* The master secret of a ticket is used only under the same extended master
\* secret; when the handshake becomes a full one, the one asked for counts.
s2n_validate_ems_status(c) ==
    LET asked == "ems" \in c.requests_received
    IN  IF c.ems_negotiated /\ ~asked THEN Fails(c) ELSE [c EXCEPT !.ems_negotiated = asked]

s2n_conn_set_handshake_type(c) ==
    IF c.version >= TLS13 \/ c.ticket_status # "decrypt" THEN c
    ELSE IF setup.valid /\ (c.client_ticket = "ems") = c.ems_negotiated
         THEN [c EXCEPT !.resumed = TRUE]
    ELSE LET d == s2n_validate_ems_status([c EXCEPT !.ems_negotiated =
                        IF setup.valid THEN c.client_ticket = "ems" ELSE @])
         IN  [d EXCEPT !.ticket_status = "new"]

\* QUIC needs TLS 1.3.
EnsureQuicVersion(c) == IF c.ok /\ c.config.quic /\ Negotiated < TLS13 THEN Fails(c) ELSE c

\* An s2n client with QUIC offers no suite of an older version
\* (s2n_cipher_suite_validate_available), and so not the empty one that
\* stands for the renegotiation extension either.
OldSuitesOffered == setup.other # "client" => ~setup.client.quic

s2n_set_cipher_as_tls_server(c) ==
    IF c.ok /\ Negotiated < TLS13 /\ ~OldSuitesOffered THEN Fails(c) ELSE c

\* The server reads a ClientHello: the extensions with the version already
\* chosen, that version, the certificate, the suite, the kind of handshake.
s2n_client_hello_recv ==
    LET c == [conn["server"] EXCEPT !.version = Negotiated,
                !.secure_renegotiation = @ \/ (setup.other # "client" /\ OldSuitesOffered)]
        d == s2n_set_cipher_as_tls_server(
                EnsureQuicVersion(s2n_extension_list_recv(client_hello_extensions, c, message)))
        e == [d EXCEPT !.server_name_used = @ \/ (d.server_name # None /\ d.server_name = d.config.name)]
        again == Negotiated >= TLS13 /\ setup.retry /\ ~e.retry
    IN  /\ at = "client_hello"
        /\ Both("server")
        /\ Got("server", IF ~e.ok THEN e ELSE IF again THEN [e EXCEPT !.retry = TRUE]
                         ELSE s2n_conn_set_handshake_type(e),
               IF again THEN "retry" ELSE "answer")

\* Another server reads it and may resume.
OtherReads == /\ at = "client_hello"
              /\ setup.other = "server"
              /\ conn' = [conn EXCEPT !["server"].version = Negotiated,
                                      !["server"].resumed = setup.valid /\ setup.session \in {"ems", "plain"}]
              /\ at' = IF Negotiated >= TLS13 /\ setup.retry /\ ~conn["client"].retry
                       THEN "retry" ELSE "answer"
              /\ UNCHANGED <<message, setup>>

HelloRetryRequest ==
    /\ at = "retry"
    /\ \/ Sent("server", hello_retry_request_extensions, "hello_retry")
       \/ OtherSends("server", {"cookie", "ems"}, "hello_retry")

s2n_server_hello_retry_recv ==
    /\ at = "hello_retry"
    /\ Both("client")
    /\ Got("client", s2n_extension_list_recv(hello_retry_request_extensions,
                                             [conn["client"] EXCEPT !.retry = TRUE], message), "hello")

\* Another client just tries again.
OtherRetries == /\ at = "hello_retry"
                /\ setup.other = "client"
                /\ at' = "hello"
                /\ UNCHANGED <<conn, message, setup>>

ServerHello ==
    LET list == IF Negotiated >= TLS13 THEN tls13_server_hello_extensions
                ELSE tls12_server_hello_extensions
    IN  /\ at = "answer"
        /\ \/ Sent("server", list, "server_hello")
           \/ OtherSends("server", AllIds, "server_hello")

\* The client reads the ServerHello.  The session's extended master secret
\* is forgotten unless the server repeats the session id: when it resumes,
\* and always in TLS 1.3.
s2n_server_hello_recv ==
    LET c == [conn["client"] EXCEPT
                !.ems_negotiated = @ /\ (conn["server"].resumed \/ Negotiated >= TLS13)]
        list == IF Negotiated >= TLS13 THEN tls13_server_hello_extensions
                ELSE tls12_server_hello_extensions
        d == EnsureQuicVersion(s2n_extension_list_recv(list, c, message))
    IN  /\ at = "server_hello"
        /\ Both("client")
        /\ Got("client", [d EXCEPT !.version = Negotiated, !.resumed = conn["server"].resumed],
               IF Negotiated >= TLS13 THEN "encrypted" ELSE "done")

OtherClientReads == /\ at \in {"server_hello", "encrypted_extensions", "certificate"}
                    /\ setup.other = "client"
                    /\ at' = "done"
                    /\ UNCHANGED <<conn, message, setup>>

EncryptedExtensions ==
    /\ at = "encrypted"
    /\ \/ Sent("server", encrypted_extensions, "encrypted_extensions")
       \/ OtherSends("server", AllIds, "encrypted_extensions")

s2n_encrypted_extensions_recv ==
    /\ at = "encrypted_extensions"
    /\ Both("client")
    /\ Got("client", s2n_extension_list_recv(encrypted_extensions, conn["client"], message),
           IF setup.session = "psk" THEN "done" ELSE "certify")

Certificate ==
    /\ at = "certify"
    /\ \/ Sent("server", certificate_extensions, "certificate")
       \/ OtherSends("server", {"status_request", "sct_list", "alpn"}, "certificate")

s2n_server_cert_recv ==
    /\ at = "certificate"
    /\ Both("client")
    /\ Got("client", s2n_extension_list_recv(certificate_extensions, conn["client"], message), "done")

ExtensionsNext ==
    \/ ClientHello \/ s2n_client_hello_recv \/ OtherReads
    \/ HelloRetryRequest \/ s2n_server_hello_retry_recv \/ OtherRetries
    \/ ServerHello \/ s2n_server_hello_recv \/ OtherClientReads
    \/ EncryptedExtensions \/ s2n_encrypted_extensions_recv
    \/ Certificate \/ s2n_server_cert_recv

-----------------------------------------------------------------------------
client == conn["client"]
server == conn["server"]

\* QUIC on one side only, or in a version that does not have it.
QuicImpossible ==
    \/ setup.client.quic # setup.server.quic
    \/ setup.client.quic /\ Negotiated < TLS13

\* Two s2n endpoints end with the same features, the protocol is the server's
\* first that the client has, and they fail exactly when one speaks QUIC and
\* the other does not, or QUIC meets an older version than TLS 1.3.  In TLS
\* 1.2 a different ems_negotiated would give them different master secrets
\* (s2n_extension_send, s2n_extension_recv, the lists' order,
\* s2n_validate_ems_status, the version checks of s2n_process_client_hello
\* and s2n_server_hello_parse).
FeaturesAgree ==
    setup.other = "none" =>
        /\ at = "failed" => QuicImpossible
        /\ at = "done" => ~QuicImpossible
        /\ at = "done" =>
              /\ client.application_protocol = server.application_protocol
              /\ LET common == SelectSeq(setup.server.alpn, LAMBDA p : p \in Range(setup.client.alpn))
                 IN  server.application_protocol = IF common = <<>> THEN None ELSE common[1]
              /\ client.mfl_code = server.mfl_code
              /\ client.mfl_code # 0 => /\ client.max_outgoing <= mfl_code_to_length[client.mfl_code]
                                        /\ server.max_outgoing <= mfl_code_to_length[client.mfl_code]
              /\ client.quic_peer = server.quic_peer
              /\ client.server_name_used => server.server_name_used
              /\ (client.status_type = "ocsp") = (s2n_server_can_send_ocsp(server) /\ ~client.psk)
              /\ client.ct_response = (s2n_server_can_send_sct_list(server) /\ ~client.psk)
              /\ Negotiated < TLS13 =>
                    /\ client.ems_negotiated = server.ems_negotiated
                    /\ client.secure_renegotiation = server.secure_renegotiation
                    /\ (client.ticket_status = "new") = s2n_server_sending_nst(server)
                    /\ server.resumed => server.ems_negotiated = (setup.session = "ems")

\* Whatever the server sends, a client that goes on has only features it
\* asked for, and a resumed session keeps its extended master secret
\* (is_response in s2n_extension_recv, s2n_server_ems_if_missing); and whoever
\* the other is, an endpoint with QUIC does not end below TLS 1.3.
OnlySolicited ==
    /\ at = "done" /\ Negotiated < TLS13 => \A side \in DOMAIN conn : setup[side].quic => setup.other = side
    /\ setup.other = "server" /\ at # "failed" =>
        /\ client.application_protocol # None => setup.client.alpn # <<>>
        /\ client.mfl_code \in {0, setup.client.mfl}
        /\ client.status_type = "ocsp" => setup.client.ocsp
        /\ client.ct_response => setup.client.sct
        /\ client.ticket_status = "new" => setup.client.tickets
        /\ client.quic_peer => setup.client.quic
        /\ at = "done" /\ Negotiated < TLS13 /\ server.resumed =>
              client.ems_negotiated = (setup.session = "ems")

=============================================================================
