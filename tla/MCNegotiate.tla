---------------------------- MODULE MCNegotiate ----------------------------
(***************************************************************************)
(* Model checking Negotiate: the sets of configurations of the runs.       *)
(***************************************************************************)
EXTENDS Negotiate

\* A plain configuration; the sets below vary the fields that matter together.
Plain(version) ==
    [maxVersion |-> version, auth |-> "NONE", cert |-> TRUE, use_tickets |-> FALSE,
     session |-> "NONE", renew |-> FALSE, ocsp |-> FALSE, pfs |-> TRUE, quic |-> FALSE,
     group |-> TRUE, early_data_expected |-> FALSE, async |-> FALSE, earlyCb |-> "NONE"]

Pair(c, s) == [e \in Mode |-> IF e = "C" THEN c ELSE s]

\* TLS 1.2: client authentication, stapling, both key exchanges, tickets and
\* cache on either side, asynchronous operations.
Tls12Auth ==
    {Pair([Plain(S2N_TLS12) EXCEPT !.auth = ca, !.cert = cert, !.ocsp = ocsp, !.async = async],
          [Plain(S2N_TLS12) EXCEPT !.auth = sa, !.ocsp = ocsp, !.pfs = pfs, !.async = async]) :
        ca \in Auth, sa \in Auth, cert \in BOOLEAN, ocsp \in BOOLEAN, pfs \in BOOLEAN,
        async \in BOOLEAN}

Tls12Sessions ==
    {Pair([Plain(S2N_TLS12) EXCEPT !.session = cs, !.use_tickets = ct, !.ocsp = ocsp],
          [Plain(sv) EXCEPT !.session = ss, !.use_tickets = st, !.renew = renew,
                            !.ocsp = ocsp, !.async = async]) :
        cs \in {"NONE", "TICKET", "CACHE"}, ss \in {"NONE", "TICKET", "CACHE"},
        ct \in BOOLEAN, st \in BOOLEAN, renew \in BOOLEAN, ocsp \in BOOLEAN,
        async \in BOOLEAN, sv \in Version}

\* A session comes with the ticket support that made it.
Tls12Configs ==
    Tls12Auth \cup {p \in Tls12Sessions : \A e \in Mode :
                       p[e].session = "TICKET" => p[e].use_tickets}

\* TLS 1.3: client authentication, retry, middlebox compatibility (not in QUIC).
\* A client without a certificate only matters to a server that asks for one.
Tls13AuthAll ==
    {Pair([Plain(S2N_TLS13) EXCEPT !.auth = ca, !.cert = cert, !.group = group, !.quic = quic],
          [Plain(S2N_TLS13) EXCEPT !.auth = sa, !.async = async, !.quic = quic]) :
        ca \in Auth, sa \in Auth, cert \in BOOLEAN, group \in BOOLEAN, quic \in BOOLEAN,
        async \in BOOLEAN}

Tls13Auth ==
    {p \in Tls13AuthAll :
        /\ ~(p["S"].quic /\ p["S"].async)
        /\ ~p["C"].cert => p["S"].auth # "NONE" /\ ~p["S"].async}

\* External PSKs and early data: offered or not, known to the server or not,
\* refused by the server, by its callback or because of a retry.  The callback
\* is only asked about a PSK both sides know; QUIC, client authentication and
\* asynchronous operations are varied one at a time; an older server knows
\* nothing of all this.
Tls13PskAll ==
    {Pair([Plain(S2N_TLS13) EXCEPT !.session = cs, !.early_data_expected = ce, !.group = group,
                                   !.quic = quic, !.auth = ca],
          [Plain(sv) EXCEPT !.session = ss, !.early_data_expected = se, !.earlyCb = cb,
                            !.async = async, !.quic = quic, !.auth = ca]) :
        cs \in {"NONE", "PSK"}, ss \in {"NONE", "PSK"}, ce \in BOOLEAN, se \in BOOLEAN,
        group \in BOOLEAN, quic \in BOOLEAN, ca \in {"NONE", "REQUIRED"}, sv \in Version,
        cb \in {"NONE", "ACCEPTED", "REJECTED"}, async \in BOOLEAN}

Tls13Psk ==
    {p \in Tls13PskAll :
        /\ p["S"].earlyCb # "NONE" => \A e \in Mode : p[e].session = "PSK"
        /\ p["S"].quic => p["S"].auth = "NONE" /\ ~p["S"].async
        /\ p["S"].async => p["S"].auth = "NONE"
        /\ p["C"].session = "NONE" => p["S"].auth = "NONE" /\ p["S"].session = "NONE"
                                    /\ ~p["S"].async
        /\ p["S"].maxVersion = S2N_TLS12 => p["S"].session = "NONE"
                                            /\ ~p["S"].early_data_expected}

\* A TLS 1.3 server and an older client.
Tls13Mixed ==
    {Pair([Plain(S2N_TLS12) EXCEPT !.auth = auth, !.quic = quic],
          [Plain(S2N_TLS13) EXCEPT !.auth = auth, !.quic = quic]) :
        auth \in Auth, quic \in BOOLEAN}

Tls13Configs == Tls13Auth \cup Tls13Psk \cup Tls13Mixed

=============================================================================
