--------------------------- MODULE EndpointProofs ---------------------------
(***************************************************************************)
(* What ConnectionLife promises, for any configs, sockets, delays and      *)
(* bounds, and what becomes of the chains of Certificates.                 *)
(*                                                                         *)
(* A call works on a record of many members, so that most of the work is   *)
(* to say what it leaves alone.  ConnBut(d, c, S) says that d differs from *)
(* c in the members S only.  New, SetConfig, Wipe, Destroy and Error have  *)
(* an effect of their own; the fifteen other calls are Tame: they change   *)
(* members that are Loose, the connection owns the contexts there are, and *)
(* the authentication and the host callback are touched in one way only.   *)
(*                                                                         *)
(* Base = Shape, Holdings and Settled is kept by every step: the contexts  *)
(* are those that the connection manages, one for each direction, its      *)
(* memory has a name, and its config is one that it accepts, which is what *)
(* makes the config set again in a wipe succeed although nobody looks.  On *)
(* top of it stand Timers (the delay of a killed connection runs from the  *)
(* moment it was killed), PeerInv (the validator follows the config),      *)
(* WipeInv (a wiped connection is Blank) and SocketInv (the sockets can be *)
(* given back the way the application had left them).  ChainInv, of the    *)
(* certificates, says who owns a chain and what a config refers to.        *)
(***************************************************************************)
EXTENDS MCEndpoint, FiniteSetTheorems, TLAPS

\* The members of struct s2n_connection in the model.
Members == DOMAIN Zeroed("SERVER")

\* What a call works on.
WorldFields == {"conn", "contexts", "sockets", "ok"}

IsWorld(w) == DOMAIN w = WorldFields /\ DOMAIN w.conn = Members

\* A call that changes no members but S.
SameBut(v, w, S) == IsWorld(v) /\ \A m \in Members \ S : v.conn[m] = w.conn[m]

\* The members for reading, for writing and those a config gives.
RecvMembers == {"recv", "recv_io_context", "managed_recv_io"}
SendMembers == {"send", "send_io_context", "managed_send_io", "write_fd_broken"}
ConfigMembers == {"x509_validator", "mem", "verify_host_fn", "psk_type", "tickets_to_send", "config",
                  "quic_enabled"}

\* The members of a connection, by name.
LEMMA MembersAre ==
    Members = {"alive", "mode", "config", "x509_validator", "client_cert_auth_type",
               "client_cert_auth_type_overridden", "verify_host_fn", "verify_host_fn_overridden",
               "psk_type", "psk_mode_overridden", "psks", "quic_enabled", "tickets_to_send", "recv",
               "recv_io_context", "managed_recv_io", "send", "send_io_context", "managed_send_io",
               "corked_io", "write_fd_broken", "handshake", "closed", "delay", "write_timer",
               "blinding", "server_name", "context", "unread", "mem"}
BY DEF Members, Zeroed

\* A connection that differs from c in the members S only.
ConnBut(d, c, S) == DOMAIN d = Members /\ \A m \in Members \ S : d[m] = c[m]

\* Wiping and setting up the validator changes nothing else.
LEMMA ValidatorFrame ==
    ASSUME NEW c, DOMAIN c = Members, NEW id
    PROVE  /\ ConnBut(s2n_x509_validator_wipe(c), c, {"x509_validator", "mem"})
           /\ ConnBut(TakeValidator(c, id), c, {"x509_validator", "mem", "verify_host_fn"})
<1>1. ConnBut(s2n_x509_validator_wipe(c), c, {"x509_validator", "mem"})
  BY MembersAre DEF ConnBut, s2n_x509_validator_wipe
<1>2. ConnBut(s2n_x509_validator_init_no_x509_validation(c), c, {"x509_validator", "mem"})
  BY MembersAre DEF ConnBut, s2n_x509_validator_init_no_x509_validation
<1>3. ConnBut(s2n_x509_validator_init(c, id), c, {"x509_validator", "mem", "verify_host_fn"})
  BY MembersAre DEF ConnBut, s2n_x509_validator_init
<1> QED BY <1>1, <1>2, <1>3 DEF ConnBut, TakeValidator

\* Nor do the settings taken over from the config.
LEMMA SettingsFrame ==
    ASSUME NEW c, DOMAIN c = Members, NEW id
    PROVE  ConnBut(TakeSettings(c, id), c, {"psk_type", "tickets_to_send"})
BY MembersAre DEF ConnBut, TakeSettings, s2n_connection_set_psk_type

\* The connection after its config has been taken over, accepted or not.
Taken(c, id) == TakeSettings(TakeValidator(s2n_x509_validator_wipe(c), id), id)

\* A config that is taken over changes the members named for it.
LEMMA TakenFrame ==
    ASSUME NEW c, DOMAIN c = Members, NEW id
    PROVE  ConnBut(Taken(c, id), c, ConfigMembers)
<1> DEFINE a == s2n_x509_validator_wipe(c)
           b == TakeValidator(a, id)
<1>1. ConnBut(a, c, {"x509_validator", "mem"}) BY ValidatorFrame
<1>2. ConnBut(b, a, {"x509_validator", "mem", "verify_host_fn"}) BY <1>1, ValidatorFrame DEF ConnBut
<1>3. ConnBut(TakeSettings(b, id), b, {"psk_type", "tickets_to_send"}) BY <1>2, SettingsFrame DEF ConnBut
<1> HIDE DEF a, b
<1>4. ConnBut(TakeSettings(b, id), c, ConfigMembers)
  BY <1>1, <1>2, <1>3 DEF ConnBut, ConfigMembers
<1> QED BY <1>4 DEF Taken, a, b

\* The connection after its config has been accepted.
Accepted(c, id) ==
    [Taken(c, id) EXCEPT !.config = id, !.quic_enabled = @ \/ configs[id].quic_enabled]

\* The same for one that is accepted.
LEMMA AcceptedFrame ==
    ASSUME NEW c, DOMAIN c = Members, NEW id
    PROVE  /\ ConnBut(Accepted(c, id), c, ConfigMembers)
           /\ ConnBut(Accepted(c, id), Taken(c, id), {"config", "quic_enabled"})
           /\ Accepted(c, id).config = id
<1> DEFINE d == Taken(c, id)
<1>1. ConnBut(d, c, ConfigMembers) BY TakenFrame
<1> HIDE DEF d
<1>2. DOMAIN d = Members BY <1>1 DEF ConnBut
<1> DEFINE a == [d EXCEPT !.config = id, !.quic_enabled = @ \/ configs[id].quic_enabled]
<1>3. ConnBut(a, d, {"config", "quic_enabled"}) /\ a.config = id BY <1>2, MembersAre DEF ConnBut
<1>4. a = Accepted(c, id) BY DEF d, Accepted
<1> HIDE DEF a
<1>5. ConnBut(a, c, ConfigMembers) BY <1>1, <1>3 DEF ConnBut, ConfigMembers
<1> QED BY <1>3, <1>4, <1>5 DEF d

\* The two reasons for which s2n_connection_set_config fails.
Refused(c, id) == s2n_config_get_num_default_certs(configs[id]) > 1 /\ c.mode = "CLIENT"
NoKey(id) == configs[id].no_signing_key /\ ~configs[id].async_pkey_cb
Fits(c, id) == c.config = id \/ ~(Refused(c, id) \/ NoKey(id))

\* The connection that s2n_connection_set_config leaves.
ConfigConn(c, id) ==
    IF c.config = id \/ Refused(c, id) THEN c
    ELSE IF NoKey(id) THEN Taken(c, id) ELSE Accepted(c, id)

\* What s2n_connection_set_config does, and when it succeeds.
LEMMA SetConfigIs ==
    ASSUME NEW w, IsWorld(w), w.ok, NEW id
    PROVE  LET v == s2n_connection_set_config(w, id)
           IN  /\ IsWorld(v) /\ v.contexts = w.contexts /\ v.sockets = w.sockets
               /\ v.conn = ConfigConn(w.conn, id)
               /\ Fits(w.conn, id) => v.ok
               /\ ~Fits(w.conn, id) => ~v.ok
<1> DEFINE u == [w EXCEPT !.conn = Taken(w.conn, id)]
<1>1. u.ok /\ u.conn = Taken(w.conn, id) /\ IsWorld(u) /\ u.contexts = w.contexts /\ u.sockets = w.sockets
  BY TakenFrame DEF IsWorld, WorldFields, ConnBut
<1> DEFINE y == [u EXCEPT !.conn.config = id, !.conn.quic_enabled = @ \/ configs[id].quic_enabled]
<1>2. s2n_connection_set_config(w, id) =
        IF w.conn.config = id THEN w ELSE IF Refused(w.conn, id) THEN Fail(w)
        ELSE IF NoKey(id) THEN Fail(u) ELSE y
  BY <1>1, Zenon DEF s2n_connection_set_config, Then, Taken, Refused, NoKey
<1> HIDE DEF u
<1>3. \A x : IsWorld(x) => /\ IsWorld(Fail(x)) /\ ~Fail(x).ok /\ Fail(x).conn = x.conn
                           /\ Fail(x).contexts = x.contexts /\ Fail(x).sockets = x.sockets
  BY DEF Fail, IsWorld, WorldFields
<1>4. /\ IsWorld(y) /\ y.contexts = u.contexts /\ y.sockets = u.sockets /\ y.ok = u.ok
      /\ y.conn = [u.conn EXCEPT !.config = id, !.quic_enabled = @ \/ configs[id].quic_enabled]
  BY <1>1 DEF IsWorld, WorldFields
<1> HIDE DEF y
<1>5. y.conn = Accepted(w.conn, id) BY <1>1, <1>4 DEF Accepted
<1> DEFINE v == s2n_connection_set_config(w, id)
<1>6. v = IF w.conn.config = id THEN w ELSE IF Refused(w.conn, id) THEN Fail(w)
          ELSE IF NoKey(id) THEN Fail(u) ELSE y
  BY <1>2
<1> HIDE DEF v
<1>7. /\ IsWorld(v) /\ v.contexts = w.contexts /\ v.sockets = w.sockets
      /\ v.conn = ConfigConn(w.conn, id)
      /\ Fits(w.conn, id) => v.ok
      /\ ~Fits(w.conn, id) => ~v.ok
  <2>1. CASE w.conn.config = id BY <1>6, <2>1 DEF ConfigConn, Fits
  <2>2. CASE w.conn.config # id /\ Refused(w.conn, id) BY <1>3, <1>6, <2>2 DEF ConfigConn, Fits
  <2>3. CASE w.conn.config # id /\ ~Refused(w.conn, id) /\ NoKey(id)
    BY <1>1, <1>3, <1>6, <2>3 DEF ConfigConn, Fits
  <2>4. CASE w.conn.config # id /\ ~Refused(w.conn, id) /\ ~NoKey(id)
    BY <1>1, <1>4, <1>5, <1>6, <2>4 DEF ConfigConn, Fits
  <2> QED BY <2>1, <2>2, <2>3, <2>4
<1> QED BY <1>7 DEF v

\* s2n_connection_set_config changes no other member, whatever its outcome.
LEMMA ConfigConnFrame ==
    ASSUME NEW c, DOMAIN c = Members, NEW id
    PROVE  ConnBut(ConfigConn(c, id), c, ConfigMembers)
BY TakenFrame, AcceptedFrame DEF ConnBut, ConfigConn

-----------------------------------------------------------------------------
(* Who owns the I/O contexts.                                              *)

Owned(c) ==
    (IF c.managed_recv_io THEN {c.recv_io_context} ELSE {})
        \cup (IF c.managed_send_io THEN {c.send_io_context} ELSE {})

\* The connection c manages the contexts D, each for one direction.
Owns(c, D) ==
    /\ c.managed_recv_io \in BOOLEAN /\ c.managed_send_io \in BOOLEAN
    /\ c.managed_recv_io => c.recv_io_context \in 1 .. 4
    /\ c.managed_send_io => c.send_io_context \in 1 .. 4
    /\ c.managed_recv_io /\ c.managed_send_io => c.recv_io_context # c.send_io_context
    /\ D = Owned(c)

\* The sockets are as they were, and so are the contexts that are still there.
Carried(v, w) ==
    /\ v.sockets = w.sockets
    /\ \A i \in DOMAIN v.contexts \cap DOMAIN w.contexts : v.contexts[i] = w.contexts[i]

\* What s2n_connection_free_managed_recv_io changes.
LEMMA FreeRecvIs ==
    ASSUME NEW w, IsWorld(w)
    PROVE  LET v == s2n_connection_free_managed_recv_io(w)
           IN  /\ SameBut(v, w, RecvMembers) /\ v.ok = w.ok /\ v.sockets = w.sockets
               /\ ~v.conn.managed_recv_io /\ Carried(v, w)
               /\ v.conn.recv_io_context = IF w.conn.managed_recv_io THEN NoContext ELSE w.conn.recv_io_context
               /\ DOMAIN v.contexts = DOMAIN w.contexts
                                      \ (IF w.conn.managed_recv_io THEN {w.conn.recv_io_context} ELSE {})
<1> DEFINE v == s2n_connection_free_managed_recv_io(w)
<1>1. CASE ~w.conn.managed_recv_io
  <2>1. v = w BY <1>1 DEF s2n_connection_free_managed_recv_io
  <2> QED BY <1>1, <2>1 DEF SameBut, Carried
<1>2. CASE w.conn.managed_recv_io
  <2>1. v = [w EXCEPT !.contexts = [i \in DOMAIN @ \ {w.conn.recv_io_context} |-> @[i]],
                      !.conn = [w.conn EXCEPT !.recv_io_context = NoContext,
                                              !.managed_recv_io = FALSE, !.recv = NULL]]
    BY <1>2 DEF s2n_connection_free_managed_recv_io, Release, IsWorld, WorldFields
  <2> HIDE DEF v
  <2>2. /\ IsWorld(v) /\ v.ok = w.ok /\ v.sockets = w.sockets
        /\ DOMAIN v.contexts = DOMAIN w.contexts \ {w.conn.recv_io_context} /\ Carried(v, w)
        /\ v.conn = [w.conn EXCEPT !.recv_io_context = NoContext, !.managed_recv_io = FALSE, !.recv = NULL]
    BY <2>1 DEF IsWorld, WorldFields, Carried
  <2>3. SameBut(v, w, RecvMembers) /\ v.conn.managed_recv_io = FALSE /\ v.conn.recv_io_context = NoContext
    BY <2>2, MembersAre DEF SameBut, IsWorld, RecvMembers
  <2> QED BY <1>2, <2>2, <2>3 DEF v
<1> QED BY <1>1, <1>2

\* Freeing the context for reading leaves the one for writing.
LEMMA FreeRecvOwns ==
    ASSUME NEW w, IsWorld(w), Owns(w.conn, DOMAIN w.contexts)
    PROVE  LET v == s2n_connection_free_managed_recv_io(w)
           IN  /\ SameBut(v, w, RecvMembers) /\ v.ok = w.ok /\ v.sockets = w.sockets
               /\ ~v.conn.managed_recv_io /\ Carried(v, w)
               /\ v.conn.recv_io_context = IF w.conn.managed_recv_io THEN NoContext ELSE w.conn.recv_io_context
               /\ Owns(v.conn, DOMAIN v.contexts)
<1> DEFINE v == s2n_connection_free_managed_recv_io(w)
<1>1. /\ SameBut(v, w, RecvMembers) /\ v.ok = w.ok /\ v.sockets = w.sockets
      /\ ~v.conn.managed_recv_io /\ Carried(v, w)
      /\ v.conn.recv_io_context = IF w.conn.managed_recv_io THEN NoContext ELSE w.conn.recv_io_context
      /\ DOMAIN v.contexts = DOMAIN w.contexts
                             \ (IF w.conn.managed_recv_io THEN {w.conn.recv_io_context} ELSE {})
  BY FreeRecvIs
<1>2. v = w \/ v.conn.managed_recv_io = FALSE
  BY MembersAre DEF s2n_connection_free_managed_recv_io, Release, IsWorld, WorldFields
<1> HIDE DEF v
<1>3. v.conn.managed_send_io = w.conn.managed_send_io /\ v.conn.send_io_context = w.conn.send_io_context
  BY <1>1, MembersAre DEF SameBut, RecvMembers
<1>4. Owns(v.conn, DOMAIN v.contexts)
  BY <1>1, <1>2, <1>3 DEF Owns, Owned
<1> QED BY <1>1, <1>4 DEF v

\* What s2n_connection_free_managed_send_io changes.
LEMMA FreeSendIs ==
    ASSUME NEW w, IsWorld(w)
    PROVE  LET v == s2n_connection_free_managed_send_io(w)
           IN  /\ SameBut(v, w, SendMembers) /\ v.ok = w.ok /\ v.sockets = w.sockets
               /\ ~v.conn.managed_send_io /\ Carried(v, w)
               /\ v.conn.send_io_context = IF w.conn.managed_send_io THEN NoContext ELSE w.conn.send_io_context
               /\ DOMAIN v.contexts = DOMAIN w.contexts
                                      \ (IF w.conn.managed_send_io THEN {w.conn.send_io_context} ELSE {})
<1> DEFINE v == s2n_connection_free_managed_send_io(w)
<1>1. CASE ~w.conn.managed_send_io
  <2>1. v = w BY <1>1 DEF s2n_connection_free_managed_send_io
  <2> QED BY <1>1, <2>1 DEF SameBut, Carried
<1>2. CASE w.conn.managed_send_io
  <2>1. v = [w EXCEPT !.contexts = [i \in DOMAIN @ \ {w.conn.send_io_context} |-> @[i]],
                      !.conn = [w.conn EXCEPT !.send_io_context = NoContext,
                                              !.managed_send_io = FALSE, !.send = NULL]]
    BY <1>2 DEF s2n_connection_free_managed_send_io, Release, IsWorld, WorldFields
  <2> HIDE DEF v
  <2>2. /\ IsWorld(v) /\ v.ok = w.ok /\ v.sockets = w.sockets
        /\ DOMAIN v.contexts = DOMAIN w.contexts \ {w.conn.send_io_context} /\ Carried(v, w)
        /\ v.conn = [w.conn EXCEPT !.send_io_context = NoContext, !.managed_send_io = FALSE, !.send = NULL]
    BY <2>1 DEF IsWorld, WorldFields, Carried
  <2>3. SameBut(v, w, SendMembers) /\ v.conn.managed_send_io = FALSE /\ v.conn.send_io_context = NoContext
    BY <2>2, MembersAre DEF SameBut, IsWorld, SendMembers
  <2> QED BY <1>2, <2>2, <2>3 DEF v
<1> QED BY <1>1, <1>2

\* Freeing the context for writing leaves the one for reading.
LEMMA FreeSendOwns ==
    ASSUME NEW w, IsWorld(w), Owns(w.conn, DOMAIN w.contexts)
    PROVE  LET v == s2n_connection_free_managed_send_io(w)
           IN  /\ SameBut(v, w, SendMembers) /\ v.ok = w.ok /\ v.sockets = w.sockets
               /\ ~v.conn.managed_send_io /\ Carried(v, w)
               /\ v.conn.send_io_context = IF w.conn.managed_send_io THEN NoContext ELSE w.conn.send_io_context
               /\ Owns(v.conn, DOMAIN v.contexts)
<1> DEFINE v == s2n_connection_free_managed_send_io(w)
<1>1. /\ SameBut(v, w, SendMembers) /\ v.ok = w.ok /\ v.sockets = w.sockets
      /\ ~v.conn.managed_send_io /\ Carried(v, w)
      /\ v.conn.send_io_context = IF w.conn.managed_send_io THEN NoContext ELSE w.conn.send_io_context
      /\ DOMAIN v.contexts = DOMAIN w.contexts
                             \ (IF w.conn.managed_send_io THEN {w.conn.send_io_context} ELSE {})
  BY FreeSendIs
<1>2. v = w \/ v.conn.managed_send_io = FALSE
  BY MembersAre DEF s2n_connection_free_managed_send_io, Release, IsWorld, WorldFields
<1> HIDE DEF v
<1>3. v.conn.managed_recv_io = w.conn.managed_recv_io /\ v.conn.recv_io_context = w.conn.recv_io_context
  BY <1>1, MembersAre DEF SameBut, SendMembers
<1>4. Owns(v.conn, DOMAIN v.contexts)
  BY <1>1, <1>2, <1>3 DEF Owns, Owned
<1> QED BY <1>1, <1>4 DEF v

\* After s2n_connection_free_managed_io there is no context.
LEMMA FreeIoOwns ==
    ASSUME NEW w, IsWorld(w), Owns(w.conn, DOMAIN w.contexts), w.ok
    PROVE  LET v == s2n_connection_free_managed_io(w)
           IN  /\ SameBut(v, w, RecvMembers \cup SendMembers) /\ v.ok /\ v.sockets = w.sockets
               /\ ~v.conn.managed_recv_io /\ ~v.conn.managed_send_io
               /\ v.conn.recv_io_context = IF w.conn.managed_recv_io THEN NoContext ELSE w.conn.recv_io_context
               /\ DOMAIN v.contexts = {}
               /\ Owns(v.conn, DOMAIN v.contexts)
<1> DEFINE u == s2n_connection_free_managed_recv_io(w)
           v == s2n_connection_free_managed_io(w)
<1>1. /\ SameBut(u, w, RecvMembers) /\ u.ok = w.ok /\ u.sockets = w.sockets
      /\ ~u.conn.managed_recv_io
      /\ u.conn.recv_io_context = IF w.conn.managed_recv_io THEN NoContext ELSE w.conn.recv_io_context
      /\ Owns(u.conn, DOMAIN u.contexts)
  BY FreeRecvOwns
<1>2. v = s2n_connection_free_managed_send_io(u)
  BY <1>1, Zenon DEF s2n_connection_free_managed_io, Then
<1> HIDE DEF u
<1>3. IsWorld(u) BY <1>1 DEF SameBut
<1>4. /\ SameBut(v, u, SendMembers) /\ v.ok = u.ok /\ v.sockets = u.sockets
      /\ ~v.conn.managed_send_io
      /\ Owns(v.conn, DOMAIN v.contexts)
  BY <1>1, <1>2, <1>3, FreeSendOwns
<1> HIDE DEF v
<1>5. SameBut(v, w, RecvMembers \cup SendMembers) BY <1>1, <1>4 DEF SameBut
<1>6. v.conn.managed_recv_io = u.conn.managed_recv_io /\ v.conn.recv_io_context = u.conn.recv_io_context
  BY <1>4, MembersAre DEF SameBut, SendMembers
<1>7. DOMAIN v.contexts = {} BY <1>1, <1>4, <1>6 DEF Owns, Owned
<1> QED BY <1>1, <1>4, <1>5, <1>6, <1>7 DEF v

\* The callback or the context of the application replaces a managed one.
LEMMA SetCallbacksOwns ==
    ASSUME NEW w, IsWorld(w), Owns(w.conn, DOMAIN w.contexts), NEW x
    PROVE  /\ LET v == s2n_connection_set_recv_ctx(w, x)
              IN  /\ SameBut(v, w, RecvMembers) /\ v.ok = w.ok /\ Owns(v.conn, DOMAIN v.contexts)
                  /\ Carried(v, w) /\ v.conn.recv_io_context = x
           /\ LET v == s2n_connection_set_recv_cb(w, x)
              IN  /\ SameBut(v, w, RecvMembers) /\ v.ok = w.ok /\ Owns(v.conn, DOMAIN v.contexts)
                  /\ ~v.conn.managed_recv_io /\ Carried(v, w)
                  /\ v.conn.recv_io_context = IF w.conn.managed_recv_io THEN NoContext ELSE w.conn.recv_io_context
           /\ LET v == s2n_connection_set_send_ctx(w, x)
              IN  /\ SameBut(v, w, SendMembers) /\ v.ok = w.ok /\ Owns(v.conn, DOMAIN v.contexts)
                  /\ ~v.conn.managed_send_io /\ Carried(v, w)
           /\ LET v == s2n_connection_set_send_cb(w, x)
              IN  /\ SameBut(v, w, SendMembers) /\ v.ok = w.ok /\ Owns(v.conn, DOMAIN v.contexts)
                  /\ ~v.conn.managed_send_io /\ Carried(v, w)
<1> DEFINE r == s2n_connection_free_managed_recv_io(w)
           s == s2n_connection_free_managed_send_io(w)
<1>1. /\ SameBut(r, w, RecvMembers) /\ r.ok = w.ok /\ ~r.conn.managed_recv_io
      /\ Owns(r.conn, DOMAIN r.contexts) /\ Carried(r, w)
      /\ r.conn.recv_io_context = IF w.conn.managed_recv_io THEN NoContext ELSE w.conn.recv_io_context
  BY FreeRecvOwns
<1>2. /\ SameBut(s, w, SendMembers) /\ s.ok = w.ok /\ ~s.conn.managed_send_io
      /\ Owns(s.conn, DOMAIN s.contexts) /\ Carried(s, w)
  BY FreeSendOwns
<1> HIDE DEF r, s
<1>3. ASSUME NEW m \in {"recv", "recv_io_context"}
      PROVE  LET v == [r EXCEPT !.conn[m] = x]
             IN  /\ SameBut(v, w, RecvMembers) /\ v.ok = w.ok /\ Owns(v.conn, DOMAIN v.contexts)
                 /\ ~v.conn.managed_recv_io /\ Carried(v, w)
                 /\ v.conn.recv_io_context = IF m = "recv_io_context" THEN x ELSE r.conn.recv_io_context
  <2> DEFINE v == [r EXCEPT !.conn[m] = x]
  <2>1. IsWorld(v) /\ v.ok = r.ok /\ v.contexts = r.contexts /\ v.sockets = r.sockets /\ v.conn = [r.conn EXCEPT ![m] = x]
    BY <1>1 DEF SameBut, IsWorld, WorldFields
  <2> HIDE DEF v
  <2>2. \A n \in Members \ RecvMembers : v.conn[n] = r.conn[n]
    BY <1>1, <2>1 DEF SameBut, IsWorld, RecvMembers
  <2>3. /\ v.conn.managed_recv_io = r.conn.managed_recv_io
        /\ v.conn.managed_send_io = r.conn.managed_send_io
        /\ v.conn.recv_io_context = IF m = "recv_io_context" THEN x ELSE r.conn.recv_io_context
        /\ v.conn.send_io_context = r.conn.send_io_context
    BY <1>1, <2>1, MembersAre DEF SameBut, IsWorld
  <2> QED BY <1>1, <2>1, <2>2, <2>3 DEF v, SameBut, Owns, Owned, Carried
<1>4. ASSUME NEW m \in {"send", "send_io_context"}
      PROVE  LET v == [s EXCEPT !.conn[m] = x]
             IN  /\ SameBut(v, w, SendMembers) /\ v.ok = w.ok /\ Owns(v.conn, DOMAIN v.contexts)
                 /\ ~v.conn.managed_send_io /\ Carried(v, w)
  <2> DEFINE v == [s EXCEPT !.conn[m] = x]
  <2>1. IsWorld(v) /\ v.ok = s.ok /\ v.contexts = s.contexts /\ v.sockets = s.sockets /\ v.conn = [s.conn EXCEPT ![m] = x]
    BY <1>2 DEF SameBut, IsWorld, WorldFields
  <2> HIDE DEF v
  <2>2. \A n \in Members \ SendMembers : v.conn[n] = s.conn[n]
    BY <1>2, <2>1 DEF SameBut, IsWorld, SendMembers
  <2>3. /\ v.conn.managed_send_io = s.conn.managed_send_io
        /\ v.conn.managed_recv_io = s.conn.managed_recv_io
        /\ v.conn.recv_io_context = s.conn.recv_io_context
    BY <1>2, <2>1, MembersAre DEF SameBut, IsWorld
  <2> QED BY <1>2, <2>1, <2>2, <2>3 DEF v, SameBut, Owns, Owned, Carried
<1> QED BY <1>1, <1>3, <1>4 DEF r, s, s2n_connection_set_recv_ctx, s2n_connection_set_recv_cb,
             s2n_connection_set_send_ctx, s2n_connection_set_send_cb

\* There is always a context left: two are the most a connection manages.
LEMMA NextContextFree ==
    ASSUME NEW w, Owns(w.conn, DOMAIN w.contexts)
    PROVE  NextContext(w) \in 1 .. 4 /\ NextContext(w) \notin DOMAIN w.contexts
<1> DEFINE D == DOMAIN w.contexts
           P(i) == i \notin D /\ \A j \in 1 .. (i - 1) : j \in D
<1>1. \E i \in 1 .. 4 : P(i)
  <2>1. ~({1, 2, 3} \subseteq D) BY DEF Owns, Owned
  <2>2. CASE 1 \notin D BY <2>2
  <2>3. CASE 1 \in D /\ 2 \notin D
    <3>1. P(2) BY <2>3
    <3> QED BY <3>1
  <2>4. CASE 1 \in D /\ 2 \in D /\ 3 \notin D
    <3>1. P(3) BY <2>4
    <3> QED BY <3>1
  <2> QED BY <2>1, <2>2, <2>3, <2>4
<1>2. NextContext(w) = CHOOSE i \in 1 .. 4 : P(i) BY Zenon DEF NextContext
<1> QED BY <1>1, <1>2, Zenon

\* A descriptor for reading gets a context of its own, the last one is freed.
LEMMA SetReadFdOwns ==
    ASSUME NEW w, IsWorld(w), Owns(w.conn, DOMAIN w.contexts), NEW fd
    PROVE  LET v == s2n_connection_set_read_fd(w, fd)
           IN  /\ SameBut(v, w, RecvMembers) /\ v.ok = w.ok /\ Owns(v.conn, DOMAIN v.contexts)
               /\ v.conn.managed_recv_io /\ Carried(v, w)
<1> DEFINE id == NextContext(w)
           ctx == [fd |-> fd, original |-> FALSE, is_set |-> TRUE]
           a == Allocate(w, id, ctx)
           b == s2n_connection_free_managed_recv_io(a)
           c == [b EXCEPT !.conn.recv = "s2n_socket_read"]
           d == s2n_connection_free_managed_recv_io(c)
           e == [d EXCEPT !.conn.recv_io_context = id]
           v == s2n_connection_set_read_fd(w, fd)
<1>1. v = [e EXCEPT !.conn.managed_recv_io = TRUE]
  BY Zenon DEF s2n_connection_set_read_fd, s2n_connection_set_recv_cb, s2n_connection_set_recv_ctx
<1>2. id \in 1 .. 4 /\ id \notin DOMAIN w.contexts BY NextContextFree
<1>3. /\ IsWorld(a) /\ a.ok = w.ok /\ a.conn = w.conn /\ DOMAIN a.contexts = DOMAIN w.contexts \cup {id}
      /\ a.sockets = w.sockets /\ \A i \in DOMAIN w.contexts : a.contexts[i] = w.contexts[i]
  BY <1>2 DEF Allocate, IsWorld, WorldFields
<1> HIDE DEF id, ctx, a, v
<1>4. /\ SameBut(b, a, RecvMembers) /\ b.ok = a.ok /\ ~b.conn.managed_recv_io /\ Carried(b, a)
      /\ DOMAIN b.contexts = DOMAIN a.contexts \ (IF a.conn.managed_recv_io THEN {a.conn.recv_io_context} ELSE {})
  BY <1>3, FreeRecvIs
<1> HIDE DEF b
<1>5. /\ SameBut(c, w, RecvMembers) /\ c.ok = w.ok /\ ~c.conn.managed_recv_io /\ c.contexts = b.contexts
      /\ c.sockets = b.sockets
  BY <1>3, <1>4, MembersAre DEF SameBut, IsWorld, WorldFields, RecvMembers
<1>6. d = c BY <1>5, Zenon DEF s2n_connection_free_managed_recv_io
<1> HIDE DEF c, d
<1>7. /\ SameBut(e, w, RecvMembers) /\ e.ok = w.ok /\ e.conn.recv_io_context = id /\ e.contexts = b.contexts
      /\ e.sockets = b.sockets
  BY <1>5, <1>6, MembersAre DEF SameBut, IsWorld, WorldFields, RecvMembers
<1> HIDE DEF e
<1>8. /\ SameBut(v, w, RecvMembers) /\ v.ok = w.ok /\ v.conn.recv_io_context = id
      /\ v.conn.managed_recv_io = TRUE /\ v.contexts = b.contexts /\ v.sockets = b.sockets
  BY <1>1, <1>7, MembersAre DEF SameBut, IsWorld, WorldFields, RecvMembers
<1>9. v.conn.managed_send_io = w.conn.managed_send_io /\ v.conn.send_io_context = w.conn.send_io_context
  BY <1>8, MembersAre DEF SameBut, RecvMembers
<1>10. DOMAIN v.contexts = Owned(v.conn)
  BY <1>2, <1>3, <1>4, <1>8, <1>9 DEF Owns, Owned
<1>11. Owns(v.conn, DOMAIN v.contexts)
  BY <1>2, <1>8, <1>9, <1>10 DEF Owns, Owned
<1>12. Carried(v, w) BY <1>3, <1>4, <1>8 DEF Carried
<1> QED BY <1>8, <1>11, <1>12 DEF v

\* The same for writing.
LEMMA SetWriteFdOwns ==
    ASSUME NEW w, IsWorld(w), Owns(w.conn, DOMAIN w.contexts), NEW fd
    PROVE  LET v == s2n_connection_set_write_fd(w, fd)
           IN  /\ SameBut(v, w, SendMembers) /\ v.ok = w.ok /\ Owns(v.conn, DOMAIN v.contexts)
               /\ v.conn.managed_send_io /\ v.conn.send # NULL /\ Carried(v, w)
               /\ v.contexts[v.conn.send_io_context] = [fd |-> fd, original |-> w.sockets[fd], is_set |-> TRUE]
<1> DEFINE id == NextContext(w)
           ctx == [fd |-> fd, original |-> w.sockets[fd], is_set |-> TRUE]
           a == Allocate(w, id, ctx)
           b == s2n_connection_free_managed_send_io(a)
           c == [b EXCEPT !.conn.send = "s2n_socket_write"]
           d == s2n_connection_free_managed_send_io(c)
           e == [d EXCEPT !.conn.send_io_context = id]
           v == s2n_connection_set_write_fd(w, fd)
<1>1. v = [e EXCEPT !.conn.managed_send_io = TRUE, !.conn.write_fd_broken = FALSE]
  BY Zenon DEF s2n_connection_set_write_fd, s2n_connection_set_send_cb, s2n_connection_set_send_ctx
<1>2. id \in 1 .. 4 /\ id \notin DOMAIN w.contexts BY NextContextFree
<1>3. /\ IsWorld(a) /\ a.ok = w.ok /\ a.conn = w.conn /\ DOMAIN a.contexts = DOMAIN w.contexts \cup {id}
      /\ a.sockets = w.sockets /\ a.contexts[id] = ctx /\ \A i \in DOMAIN w.contexts : a.contexts[i] = w.contexts[i]
  BY <1>2 DEF Allocate, IsWorld, WorldFields
<1> HIDE DEF id, ctx, a, v
<1>4. /\ SameBut(b, a, SendMembers) /\ b.ok = a.ok /\ ~b.conn.managed_send_io /\ Carried(b, a)
      /\ DOMAIN b.contexts = DOMAIN a.contexts \ (IF a.conn.managed_send_io THEN {a.conn.send_io_context} ELSE {})
  BY <1>3, FreeSendIs
<1> HIDE DEF b
<1>5. /\ SameBut(c, w, SendMembers) /\ c.ok = w.ok /\ ~c.conn.managed_send_io /\ c.contexts = b.contexts
      /\ c.sockets = b.sockets /\ c.conn.send = "s2n_socket_write"
  BY <1>3, <1>4, MembersAre DEF SameBut, IsWorld, WorldFields, SendMembers
<1>6. d = c BY <1>5, Zenon DEF s2n_connection_free_managed_send_io
<1> HIDE DEF c, d
<1>7. /\ SameBut(e, w, SendMembers) /\ e.ok = w.ok /\ e.conn.send_io_context = id /\ e.contexts = b.contexts
      /\ e.sockets = b.sockets /\ e.conn.send = "s2n_socket_write"
  BY <1>5, <1>6, MembersAre DEF SameBut, IsWorld, WorldFields, SendMembers
<1> HIDE DEF e
<1>8. /\ SameBut(v, w, SendMembers) /\ v.ok = w.ok /\ v.conn.send_io_context = id
      /\ v.conn.managed_send_io = TRUE /\ v.contexts = b.contexts /\ v.sockets = b.sockets
      /\ v.conn.send = "s2n_socket_write"
  BY <1>1, <1>7, MembersAre DEF SameBut, IsWorld, WorldFields, SendMembers
<1>9. v.conn.managed_recv_io = w.conn.managed_recv_io /\ v.conn.recv_io_context = w.conn.recv_io_context
  BY <1>8, MembersAre DEF SameBut, SendMembers
<1>10. DOMAIN v.contexts = Owned(v.conn)
  BY <1>2, <1>3, <1>4, <1>8, <1>9 DEF Owns, Owned
<1>11. Owns(v.conn, DOMAIN v.contexts)
  BY <1>2, <1>8, <1>9, <1>10 DEF Owns, Owned
<1>12. Carried(v, w) BY <1>3, <1>4, <1>8 DEF Carried
<1>13. id \in DOMAIN v.contexts BY <1>8, <1>10 DEF Owned
<1>14. v.contexts[id] = ctx BY <1>3, <1>4, <1>8, <1>13 DEF Carried
<1> QED BY <1>8, <1>11, <1>12, <1>14 DEF v, ctx, NULL

-----------------------------------------------------------------------------
(* What becomes of the application's sockets.                              *)

\* The cork of the socket belongs to the library.
Busy(c) == c.managed_send_io /\ c.corked_io /\ c.handshake \in {"WRITING", "READING"}

\* The context x of a socket that the application had left as o says.
Snapshot(x, o) == x.fd \in Fds /\ x.original = o[x.fd] /\ x.is_set = TRUE

\* A connection c with the contexts x can give the sockets s back as they were, o:
\* they differ in the socket that is written to at most, and it is remembered.
Restorable(c, x, s, o) ==
    /\ s \in [Fds -> BOOLEAN] /\ o \in [Fds -> BOOLEAN]
    /\ ~c.managed_recv_io => c.recv_io_context \in {NoContext, AppContext}
    /\ c.managed_send_io => c.send # NULL /\ Snapshot(x[c.send_io_context], o)
    /\ \A fd \in Fds : s[fd] # o[fd] => Busy(c) /\ fd = x[c.send_io_context].fd /\ ~o[fd]

\* The members it depends on.
SocketMembers == {"recv_io_context", "managed_recv_io", "send", "send_io_context", "managed_send_io",
                  "corked_io", "handshake"}

\* A change of other members makes no difference to it.
LEMMA RestorableKept ==
    ASSUME NEW c, NEW d, NEW x, NEW s, NEW o, Restorable(c, x, s, o), \A m \in SocketMembers : d[m] = c[m]
    PROVE  Restorable(d, x, s, o)
<1>1. /\ d.recv_io_context = c.recv_io_context /\ d.managed_recv_io = c.managed_recv_io
      /\ d.send = c.send /\ d.send_io_context = c.send_io_context /\ d.managed_send_io = c.managed_send_io
      /\ d.corked_io = c.corked_io /\ d.handshake = c.handshake
  BY DEF SocketMembers
<1> QED BY <1>1 DEF Restorable, Busy

\* While the cork is not the library's, the sockets are as they were.
LEMMA IdleSockets ==
    ASSUME NEW c, NEW x, NEW s, NEW o, Restorable(c, x, s, o), ~Busy(c)
    PROVE  s = o
BY DEF Restorable

\* Another context or callback for reading makes no difference to it either.
LEMMA RecvRestorable ==
    ASSUME NEW v, NEW w, NEW o, Restorable(w.conn, w.contexts, w.sockets, o),
           SameBut(v, w, RecvMembers), Carried(v, w),
           Owns(w.conn, DOMAIN w.contexts), Owns(v.conn, DOMAIN v.contexts),
           ~v.conn.managed_recv_io => v.conn.recv_io_context \in {NoContext, AppContext}
    PROVE  Restorable(v.conn, v.contexts, v.sockets, o)
<1>1. /\ v.conn.send = w.conn.send /\ v.conn.send_io_context = w.conn.send_io_context
      /\ v.conn.managed_send_io = w.conn.managed_send_io
      /\ v.conn.corked_io = w.conn.corked_io /\ v.conn.handshake = w.conn.handshake
  BY MembersAre DEF SameBut, RecvMembers
<1>2. w.conn.managed_send_io => v.contexts[v.conn.send_io_context] = w.contexts[w.conn.send_io_context]
  BY <1>1 DEF Owns, Owned, Carried
<1>3. v.sockets = w.sockets BY DEF Carried
<1> QED BY <1>1, <1>2, <1>3 DEF Restorable, Busy

\* Nor does the application's callback for writing, unless a message is under way.
LEMMA SendRestorable ==
    ASSUME NEW v, NEW w, NEW o, Restorable(w.conn, w.contexts, w.sockets, o), w.sockets = o,
           SameBut(v, w, SendMembers), Carried(v, w), ~v.conn.managed_send_io
    PROVE  Restorable(v.conn, v.contexts, v.sockets, o)
<1>1. v.conn.recv_io_context = w.conn.recv_io_context /\ v.conn.managed_recv_io = w.conn.managed_recv_io
  BY MembersAre DEF SameBut, SendMembers
<1>2. v.sockets = w.sockets BY DEF Carried
<1> QED BY <1>1, <1>2 DEF Restorable

\* A descriptor for writing is remembered as it is.
LEMMA WriteFdRestorable ==
    ASSUME NEW w, IsWorld(w), Owns(w.conn, DOMAIN w.contexts), NEW fd \in Fds, NEW o,
           Restorable(w.conn, w.contexts, w.sockets, o), w.sockets = o
    PROVE  LET v == s2n_connection_set_write_fd(w, fd)
           IN  Restorable(v.conn, v.contexts, v.sockets, o)
<1> DEFINE v == s2n_connection_set_write_fd(w, fd)
           x == [fd |-> fd, original |-> w.sockets[fd], is_set |-> TRUE]
<1>1. /\ SameBut(v, w, SendMembers) /\ Carried(v, w) /\ v.conn.managed_send_io /\ v.conn.send # NULL
      /\ v.contexts[v.conn.send_io_context] = x
  BY SetWriteFdOwns
<1> HIDE DEF v
<1>2. v.conn.recv_io_context = w.conn.recv_io_context /\ v.conn.managed_recv_io = w.conn.managed_recv_io
  BY <1>1, MembersAre DEF SameBut, SendMembers
<1>3. v.sockets = w.sockets BY <1>1 DEF Carried
<1>4. Snapshot(x, o) BY DEF Snapshot
<1> HIDE DEF x
<1>5. Restorable(v.conn, v.contexts, v.sockets, o) BY <1>1, <1>2, <1>3, <1>4 DEF Restorable
<1> QED BY <1>5 DEF v

\* The socket is corked while the connection writes, and as before when the
\* handshake is over.
LEMMA AdvanceRestorable ==
    ASSUME NEW w, IsWorld(w), NEW o, Restorable(w.conn, w.contexts, w.sockets, o),
           NEW to \in {"WRITING", "READING", "DONE"}, NEW d, d.handshake = to,
           \A m \in SocketMembers \ {"handshake"} : d[m] = w.conn[m]
    PROVE  LET a == s2n_advance_message(w, to = "WRITING")
           IN  a.contexts = w.contexts /\ Restorable(d, a.contexts, a.sockets, o)
<1> DEFINE on == to = "WRITING"
           a == s2n_advance_message(w, on)
           c == w.conn
           x == w.contexts[c.send_io_context]
<1>1. /\ d.recv_io_context = c.recv_io_context /\ d.managed_recv_io = c.managed_recv_io
      /\ d.send = c.send /\ d.send_io_context = c.send_io_context /\ d.managed_send_io = c.managed_send_io
      /\ d.corked_io = c.corked_io
  BY DEF SocketMembers
<1>2. CASE ~(c.managed_send_io /\ c.corked_io) \/ x.original
  <2>1. a = w
    BY <1>2 DEF s2n_advance_message, s2n_socket_was_corked, s2n_connection_is_managed_corked
  <2>2. w.sockets = o
    <3>1. CASE ~(c.managed_send_io /\ c.corked_io) BY <3>1 DEF Restorable, Busy
    <3>2. CASE c.managed_send_io /\ c.corked_io /\ x.original
      <4>1. x.original = o[x.fd] BY <3>2 DEF Restorable, Snapshot
      <4>2. \A fd \in Fds : w.sockets[fd] = o[fd] BY <3>2, <4>1 DEF Restorable
      <4> QED BY <4>2 DEF Restorable
    <3> QED BY <1>2, <3>1, <3>2
  <2>3. Restorable(d, w.contexts, w.sockets, o) BY <1>1, <2>2 DEF Restorable
  <2> QED BY <2>1, <2>3
<1>3. CASE c.managed_send_io /\ c.corked_io /\ ~x.original
  <2>1. a = WriteCork(w, on)
    BY <1>3 DEF s2n_advance_message, s2n_socket_was_corked, s2n_connection_is_managed_corked
  <2>2. a.contexts = w.contexts /\ a.sockets = [w.sockets EXCEPT ![x.fd] = on]
    BY <2>1 DEF WriteCork, IsWorld, WorldFields
  <2>3. x.fd \in Fds /\ o[x.fd] = FALSE BY <1>3 DEF Restorable, Snapshot
  <2>4. on \in BOOLEAN OBVIOUS
  <2>5. to # "WRITING" => on = FALSE OBVIOUS
  <2> HIDE DEF a, on, x
  <2>6. a.sockets \in [Fds -> BOOLEAN] BY <2>2, <2>3, <2>4 DEF Restorable
  <2>7. ASSUME NEW fd \in Fds, a.sockets[fd] # o[fd]
        PROVE  Busy(d) /\ fd = x.fd /\ ~o[fd]
    <3>1. fd = x.fd BY <2>2, <2>7 DEF Restorable, x
    <3>2. a.sockets[fd] = on BY <2>2, <2>3, <3>1 DEF Restorable
    <3>3. to = "WRITING" BY <2>3, <2>5, <2>7, <3>1, <3>2
    <3> QED BY <1>1, <1>3, <2>3, <3>1, <3>3 DEF Busy
  <2>8. Restorable(d, a.contexts, a.sockets, o)
    BY <1>1, <2>2, <2>6, <2>7 DEF Restorable, x
  <2> QED BY <2>2, <2>8 DEF a, on
<1> QED BY <1>2, <1>3 DEF Restorable, Snapshot

\* What leaves the connection and the contexts it owns alone.
SameConn(v, w) ==
    /\ IsWorld(v) /\ v.conn = w.conn
    /\ DOMAIN v.contexts = DOMAIN w.contexts

\* Giving the sockets back as they were changes no connection and frees nothing.
LEMMA RestoreFrame ==
    ASSUME NEW w, IsWorld(w)
    PROVE  /\ SameConn(s2n_socket_read_restore(w), w)
           /\ SameConn(s2n_socket_write_restore(w), w)
           /\ s2n_socket_write_restore(w).ok = w.ok
           /\ \A on : SameConn(s2n_advance_message(w, on), w) /\ s2n_advance_message(w, on).ok = w.ok
<1>1. SameConn(s2n_socket_read_restore(w), w)
  <2>1. SameConn(w, w) BY DEF SameConn
  <2>2. SameConn(Fail(w), w) BY DEF Fail, SameConn, IsWorld, WorldFields
  <2>3. SameConn([w EXCEPT !.contexts[w.conn.recv_io_context].is_set = FALSE], w)
    BY DEF SameConn, IsWorld, WorldFields
  <2> QED BY <2>1, <2>2, <2>3, Zenon DEF s2n_socket_read_restore
<1>2. \A on : SameConn(WriteCork(w, on), w) /\ WriteCork(w, on).ok = w.ok /\ WriteCork(w, on).contexts = w.contexts
  BY DEF WriteCork, SameConn, IsWorld, WorldFields
<1>3. SameConn(s2n_socket_write_restore(w), w) /\ s2n_socket_write_restore(w).ok = w.ok
  <2> DEFINE u == WriteCork(w, w.contexts[w.conn.send_io_context].original)
             v == [u EXCEPT !.contexts[w.conn.send_io_context].is_set = FALSE]
  <2>1. SameConn(u, w) /\ u.ok = w.ok BY <1>2
  <2> HIDE DEF u
  <2>2. SameConn(v, w) /\ v.ok = w.ok BY <2>1 DEF SameConn, IsWorld, WorldFields
  <2>3. SameConn(w, w) BY DEF SameConn
  <2>4. s2n_socket_write_restore(w) \in {w, v} BY DEF s2n_socket_write_restore, u
  <2> HIDE DEF v
  <2> QED BY <2>2, <2>3, <2>4
<1>4. ASSUME NEW on
      PROVE  SameConn(s2n_advance_message(w, on), w) /\ s2n_advance_message(w, on).ok = w.ok
  <2>1. s2n_advance_message(w, on) \in {w, WriteCork(w, on)} BY DEF s2n_advance_message
  <2>2. SameConn(w, w) BY DEF SameConn
  <2> QED BY <1>2, <2>1, <2>2
<1> QED BY <1>1, <1>3, <1>4

\* s2n_connection_wipe_io frees all contexts, or fails before it frees one.
LEMMA WipeIoOwns ==
    ASSUME NEW w, IsWorld(w), Owns(w.conn, DOMAIN w.contexts), w.ok
    PROVE  LET v == s2n_connection_wipe_io(w)
           IN  /\ SameBut(v, w, RecvMembers \cup SendMembers)
               /\ Owns(v.conn, DOMAIN v.contexts)
               /\ v.ok => DOMAIN v.contexts = {}
               /\ ~w.conn.managed_send_io => v.ok
<1> DEFINE v == s2n_connection_wipe_io(w)
           a == IF w.conn.recv # NULL THEN s2n_socket_read_restore(w) ELSE w
           b == IF a.conn.send # NULL THEN s2n_socket_write_restore(a) ELSE a
           c == IF a.ok THEN b ELSE a
           d == IF c.ok THEN s2n_connection_free_managed_io(c) ELSE c
<1>1. SameConn(a, w) BY RestoreFrame DEF SameConn
<1>2. v = (IF ~s2n_connection_is_managed_corked(w.conn) THEN s2n_connection_free_managed_io(w) ELSE d)
  BY Zenon DEF s2n_connection_wipe_io, Then
<1> HIDE DEF a
<1>3. SameConn(b, w) BY <1>1, RestoreFrame DEF SameConn
<1> HIDE DEF b
<1>4. SameConn(c, w) BY <1>1, <1>3
<1> HIDE DEF c
<1>5. ASSUME NEW x, SameConn(x, w)
      PROVE  /\ SameBut(x, w, RecvMembers \cup SendMembers) /\ Owns(x.conn, DOMAIN x.contexts)
             /\ x.ok => LET y == s2n_connection_free_managed_io(x)
                        IN  /\ SameBut(y, w, RecvMembers \cup SendMembers)
                            /\ Owns(y.conn, DOMAIN y.contexts) /\ DOMAIN y.contexts = {}
  <2>1. IsWorld(x) /\ Owns(x.conn, DOMAIN x.contexts) /\ SameBut(x, w, RecvMembers \cup SendMembers)
    BY <1>5 DEF SameConn, SameBut
  <2> DEFINE y == s2n_connection_free_managed_io(x)
  <2>2. x.ok => SameBut(y, x, RecvMembers \cup SendMembers) /\ Owns(y.conn, DOMAIN y.contexts) /\ DOMAIN y.contexts = {}
    BY <2>1, FreeIoOwns
  <2> HIDE DEF y
  <2>3. x.ok => SameBut(y, w, RecvMembers \cup SendMembers) BY <2>1, <2>2 DEF SameBut
  <2> QED BY <2>1, <2>2, <2>3 DEF y
<1>6. SameConn(w, w) BY DEF SameConn
<1>7. /\ SameBut(d, w, RecvMembers \cup SendMembers)
      /\ Owns(d.conn, DOMAIN d.contexts)
      /\ d.ok => DOMAIN d.contexts = {}
  <2>1. CASE c.ok BY <1>4, <1>5, <2>1
  <2>2. CASE ~c.ok BY <1>4, <1>5, <2>2
  <2> QED BY <2>1, <2>2
<1>8. ~w.conn.managed_send_io => v.ok
  BY <1>2, FreeIoOwns DEF s2n_connection_is_managed_corked
<1> QED BY <1>2, <1>5, <1>6, <1>7, <1>8

\* s2n_connection_wipe_io gives the socket back before it forgets it; when it fails
\* it has not begun.
LEMMA WipeIoRestorable ==
    ASSUME NEW w, IsWorld(w), Owns(w.conn, DOMAIN w.contexts), w.ok, NEW o,
           Restorable(w.conn, w.contexts, w.sockets, o)
    PROVE  LET v == s2n_connection_wipe_io(w)
           IN  /\ Restorable(v.conn, v.contexts, v.sockets, o)
               /\ v.ok => v.sockets = o /\ ~v.conn.managed_send_io
<1> DEFINE c == w.conn
           k == c.send_io_context
           x == w.contexts[k]
           Done(v) == v.sockets = o /\ ~v.conn.managed_send_io /\ Restorable(v.conn, v.contexts, v.sockets, o)
<1>1. ASSUME NEW u, IsWorld(u), u.ok, u.conn = c, DOMAIN u.contexts = DOMAIN w.contexts, u.sockets = o
      PROVE  Done(s2n_connection_free_managed_io(u))
  <2> DEFINE v == s2n_connection_free_managed_io(u)
  <2>1. Owns(u.conn, DOMAIN u.contexts) BY <1>1
  <2>2. /\ v.sockets = u.sockets /\ ~v.conn.managed_send_io /\ ~v.conn.managed_recv_io
        /\ v.conn.recv_io_context = IF u.conn.managed_recv_io THEN NoContext ELSE u.conn.recv_io_context
    BY <1>1, <2>1, FreeIoOwns
  <2> HIDE DEF v
  <2>3. v.conn.recv_io_context \in {NoContext, AppContext} BY <1>1, <2>2 DEF Restorable
  <2>4. Restorable(v.conn, v.contexts, v.sockets, o) BY <1>1, <2>2, <2>3 DEF Restorable
  <2> QED BY <1>1, <2>2, <2>4 DEF v
<1>2. CASE ~s2n_connection_is_managed_corked(c)
  <2>1. s2n_connection_wipe_io(w) = s2n_connection_free_managed_io(w) BY <1>2 DEF s2n_connection_wipe_io
  <2>2. w.sockets = o BY <1>2, IdleSockets DEF Busy, s2n_connection_is_managed_corked
  <2>3. Done(s2n_connection_free_managed_io(w)) BY <1>1, <2>2
  <2> QED BY <2>1, <2>3
<1>3. CASE s2n_connection_is_managed_corked(c)
  <2> DEFINE a == IF w.conn.recv # NULL THEN s2n_socket_read_restore(w) ELSE w
             b == s2n_socket_write_restore(a)
             v == s2n_connection_wipe_io(w)
  <2>1. /\ c.managed_send_io /\ c.send # NULL /\ Snapshot(x, o) /\ k \in DOMAIN w.contexts /\ k \in 1 .. 4
        /\ c.recv_io_context # k
    BY <1>3 DEF Restorable, s2n_connection_is_managed_corked, Owns, Owned, NoContext, AppContext
  <2>2. SameConn(a, w) BY RestoreFrame DEF SameConn
  <2>3. \/ ~a.ok /\ a.contexts = w.contexts /\ a.sockets = w.sockets
        \/ a.ok /\ a.contexts[k] = x /\ a.sockets = w.sockets
    <3>1. a \in {w, Fail(w), [w EXCEPT !.contexts[w.conn.recv_io_context].is_set = FALSE]}
      BY DEF s2n_socket_read_restore
    <3>2. CASE a = w BY <3>2
    <3>3. CASE a = Fail(w) BY <3>3 DEF Fail, IsWorld, WorldFields
    <3>4. CASE a = [w EXCEPT !.contexts[w.conn.recv_io_context].is_set = FALSE]
      <4> HIDE DEF a
      <4>1. a.ok /\ a.sockets = w.sockets BY <3>4 DEF IsWorld, WorldFields
      <4>2. a.contexts[k] = w.contexts[k] BY <2>1, <3>4 DEF IsWorld, WorldFields
      <4> QED BY <4>1, <4>2
    <3> QED BY <3>1, <3>2, <3>3, <3>4
  <2>4. v = LET d == IF a.ok THEN (IF a.conn.send # NULL THEN s2n_socket_write_restore(a) ELSE a) ELSE a
            IN  IF d.ok THEN s2n_connection_free_managed_io(d) ELSE d
    BY <1>3, Zenon DEF s2n_connection_wipe_io, Then
  <2> HIDE DEF a, v
  <2>5. CASE ~a.ok
    <3>1. v = a BY <2>4, <2>5
    <3>2. Restorable(a.conn, a.contexts, a.sockets, o) BY <2>2, <2>3, <2>5 DEF SameConn
    <3> QED BY <2>5, <3>1, <3>2 DEF v
  <2>6. CASE a.ok
    <3>1. a.contexts[k] = x /\ a.sockets = w.sockets /\ a.conn = c /\ IsWorld(a) BY <2>2, <2>3, <2>6 DEF SameConn
    <3>2. SameConn(b, w) /\ b.ok BY <2>2, <2>6, <3>1, RestoreFrame DEF SameConn
    <3>3. b = [WriteCork(a, x.original) EXCEPT !.contexts[k].is_set = FALSE]
      BY <2>1, <3>1 DEF s2n_socket_write_restore, Snapshot
    <3>4. b.sockets = [w.sockets EXCEPT ![x.fd] = x.original]
      BY <3>1, <3>3 DEF WriteCork, IsWorld, WorldFields
    <3> HIDE DEF b
    <3>5. b.sockets = o
      <4>1. \A fd \in Fds : b.sockets[fd] = o[fd] BY <2>1, <3>4 DEF Restorable, Snapshot
      <4> QED BY <3>4, <4>1 DEF Restorable
    <3>6. v = s2n_connection_free_managed_io(b) BY <2>1, <2>4, <2>6, <3>1, <3>2 DEF b
    <3>7. Done(v) BY <1>1, <3>2, <3>5, <3>6 DEF SameConn
    <3> QED BY <3>7 DEF v
  <2> QED BY <2>5, <2>6
<1> QED BY <1>2, <1>3

\* The steps of a wipe that allocate and free memory leave the contexts alone.
LEMMA MemoryFrame ==
    ASSUME NEW w, IsWorld(w), NEW name, NEW fault, NEW names
    PROVE  /\ LET v == Ensure(w, name, fault)
              IN  /\ SameBut(v, w, {"mem"}) /\ v.contexts = w.contexts /\ v.sockets = w.sockets
                  /\ \/ v.ok = w.ok /\ v.conn.mem = w.conn.mem \cup {name}
                     \/ ~v.ok /\ v.conn.mem = w.conn.mem /\ fault = name
           /\ LET v == Free(w, names)
              IN  /\ SameBut(v, w, {"mem"}) /\ v.contexts = w.contexts /\ v.sockets = w.sockets /\ v.ok = w.ok
                  /\ v.conn.mem = w.conn.mem \ names
           /\ LET v == s2n_connection_wipe_keys(w)
              IN  /\ SameBut(v, w, {"mem", "x509_validator"}) /\ v.contexts = w.contexts /\ v.sockets = w.sockets /\ v.ok = w.ok
                  /\ v.conn.mem = (w.conn.mem \ WipedKeys) \ {"x509_validator"}
<1>1. ASSUME NEW x, NEW v, v = [w EXCEPT !.conn = [w.conn EXCEPT !.mem = x]]
      PROVE  SameBut(v, w, {"mem"}) /\ v.contexts = w.contexts /\ v.sockets = w.sockets /\ v.ok = w.ok /\ v.conn.mem = x
  BY <1>1, MembersAre DEF SameBut, IsWorld, WorldFields
<1> DEFINE e == Ensure(w, name, fault)
           f(n) == Free(w, n)
           k == s2n_connection_wipe_keys(w)
<1>2. /\ SameBut(e, w, {"mem"}) /\ e.contexts = w.contexts /\ e.sockets = w.sockets
      /\ \/ e.ok = w.ok /\ e.conn.mem = w.conn.mem \cup {name}
         \/ ~e.ok /\ e.conn.mem = w.conn.mem /\ fault = name
  <2>1. CASE name \in w.conn.mem
    <3>1. e = w BY <2>1 DEF Ensure
    <3> QED BY <2>1, <3>1 DEF SameBut
  <2>2. CASE name \notin w.conn.mem /\ fault = name
    <3>1. e = [w EXCEPT !.ok = FALSE] BY <2>2 DEF Ensure, Fail
    <3> QED BY <2>2, <3>1 DEF SameBut, IsWorld, WorldFields
  <2>3. CASE name \notin w.conn.mem /\ fault # name
    <3>1. e = [w EXCEPT !.conn = [w.conn EXCEPT !.mem = w.conn.mem \cup {name}]]
      BY <2>3, MembersAre DEF Ensure, IsWorld, WorldFields
    <3> HIDE DEF e
    <3> QED BY <1>1, <3>1
  <2> QED BY <2>1, <2>2, <2>3
<1>3. ASSUME NEW n
      PROVE  /\ SameBut(f(n), w, {"mem"}) /\ f(n).contexts = w.contexts /\ f(n).sockets = w.sockets /\ f(n).ok = w.ok
             /\ f(n).conn.mem = w.conn.mem \ n
  <2>1. f(n) = [w EXCEPT !.conn = [w.conn EXCEPT !.mem = w.conn.mem \ n]]
    BY MembersAre DEF Free, IsWorld, WorldFields
  <2> QED BY <1>1, <2>1
<1>4. /\ SameBut(k, w, {"mem", "x509_validator"}) /\ k.contexts = w.contexts /\ k.sockets = w.sockets /\ k.ok = w.ok
      /\ k.conn.mem = (w.conn.mem \ WipedKeys) \ {"x509_validator"}
  <2> DEFINE g == f(WipedKeys)
  <2>1. /\ SameBut(g, w, {"mem"}) /\ g.contexts = w.contexts /\ g.sockets = w.sockets /\ g.ok = w.ok
        /\ g.conn.mem = w.conn.mem \ WipedKeys
    BY <1>3
  <2>2. k = [g EXCEPT !.conn = s2n_x509_validator_wipe(g.conn)]
    BY DEF s2n_connection_wipe_keys
  <2> HIDE DEF g, k
  <2>3. ConnBut(s2n_x509_validator_wipe(g.conn), g.conn, {"x509_validator", "mem"})
    BY <2>1, ValidatorFrame DEF SameBut, IsWorld
  <2>4. s2n_x509_validator_wipe(g.conn).mem = g.conn.mem \ {"x509_validator"}
    BY <2>1, MembersAre DEF s2n_x509_validator_wipe, SameBut, IsWorld
  <2>5. /\ IsWorld(k) /\ k.conn = s2n_x509_validator_wipe(g.conn) /\ k.ok = g.ok
        /\ k.contexts = g.contexts /\ k.sockets = g.sockets
    BY <2>1, <2>2, <2>3 DEF SameBut, IsWorld, WorldFields, ConnBut
  <2> QED BY <2>1, <2>3, <2>4, <2>5 DEF SameBut, ConnBut
<1> QED BY <1>2, <1>3, <1>4

-----------------------------------------------------------------------------
(* What s2n_connection_wipe leaves.                                        *)

\* The members that may own memory, and what a living connection owns of it.
Memory == Kept \cup FreedMembers \cup WipedKeys

MemoryRight(c) == c.mem \subseteq Memory /\ {"keys", "hmacs"} \subseteq c.mem

Zero(mode, mem) == [Zeroed(mode) EXCEPT !.mem = mem]

\* A connection that has been wiped: its mode, its config and nothing else.
Blank(mode, id) ==
    [ConfigConn(Zero(mode, Kept), id) EXCEPT !.psk_type = "RESUMPTION", !.blinding = "BUILT_IN"]

\* A zeroed connection, but for the memory it keeps.
LEMMA ZeroIs ==
    ASSUME NEW mode, NEW mem
    PROVE  /\ DOMAIN Zero(mode, mem) = Members
           /\ Zero(mode, mem).mem = mem
           /\ ConnBut(Zero(mode, mem), Zeroed(mode), {"mem"})
BY MembersAre DEF Zero, Zeroed, ConnBut

\* The end of a wipe leaves a blank connection.
LEMMA FinishWipeIs ==
    ASSUME NEW w, IsWorld(w), w.ok, NEW old
    PROVE  LET v == FinishWipe(w, old)
           IN  /\ IsWorld(v) /\ v.ok /\ v.contexts = w.contexts /\ v.sockets = w.sockets
               /\ w.conn.mem = Kept => v.conn = Blank(old.mode, old.config)
<1> DEFINE u == [w EXCEPT !.conn = Zero(old.mode, w.conn.mem)]
           s == s2n_connection_set_config(u, old.config)
           z == s2n_connection_zero(w, old.mode, old.config)
           v == FinishWipe(w, old)
<1>1. IsWorld(u) /\ u.ok /\ u.contexts = w.contexts /\ u.sockets = w.sockets /\ u.conn = Zero(old.mode, w.conn.mem)
  BY ZeroIs DEF IsWorld, WorldFields
<1>2. z = [s EXCEPT !.ok = TRUE] BY Zenon DEF s2n_connection_zero, Zero
<1> HIDE DEF u
<1>3. IsWorld(s) /\ s.contexts = u.contexts /\ s.sockets = u.sockets /\ s.conn = ConfigConn(u.conn, old.config)
  BY <1>1, SetConfigIs
<1>4. v = [z EXCEPT !.conn.psk_type = "RESUMPTION", !.conn.blinding = "BUILT_IN"]
  BY DEF FinishWipe
<1> HIDE DEF s, z, v
<1>5. IsWorld(z) /\ z.contexts = w.contexts /\ z.sockets = w.sockets /\ z.ok = TRUE /\ z.conn = ConfigConn(Zero(old.mode, w.conn.mem), old.config)
  BY <1>1, <1>2, <1>3 DEF IsWorld, WorldFields
<1>6. /\ IsWorld(v) /\ v.ok = TRUE /\ v.contexts = w.contexts /\ v.sockets = w.sockets
      /\ v.conn = [z.conn EXCEPT !.psk_type = "RESUMPTION", !.blinding = "BUILT_IN"]
  BY <1>4, <1>5 DEF IsWorld, WorldFields
<1>7. w.conn.mem = Kept => v.conn = Blank(old.mode, old.config) BY <1>5, <1>6 DEF Blank
<1> QED BY <1>6, <1>7 DEF v

\* A blank connection is a zeroed one with a config and built-in blinding.
LEMMA BlankFrame ==
    ASSUME NEW mode, NEW id
    PROVE  /\ DOMAIN Blank(mode, id) = Members
           /\ ConnBut(Blank(mode, id), ConfigConn(Zero(mode, Kept), id), {"psk_type", "blinding"})
           /\ ConnBut(Blank(mode, id), Zeroed(mode), ConfigMembers \cup {"blinding"})
           /\ Blank(mode, id).psk_type = "RESUMPTION" /\ Blank(mode, id).blinding = "BUILT_IN"
<1> DEFINE c == ConfigConn(Zero(mode, Kept), id)
           b == [c EXCEPT !.psk_type = "RESUMPTION", !.blinding = "BUILT_IN"]
<1>1. ConnBut(c, Zero(mode, Kept), ConfigMembers) BY ZeroIs, ConfigConnFrame
<1>2. ConnBut(Zero(mode, Kept), Zeroed(mode), {"mem"}) BY ZeroIs
<1>3. b = Blank(mode, id) BY DEF Blank
<1> HIDE DEF c
<1>4. ConnBut(b, c, {"psk_type", "blinding"}) /\ b.psk_type = "RESUMPTION" /\ b.blinding = "BUILT_IN"
  BY <1>1, MembersAre DEF ConnBut
<1> HIDE DEF b
<1>5. ConnBut(b, Zeroed(mode), ConfigMembers \cup {"blinding"})
  BY <1>1, <1>2, <1>4 DEF ConnBut, ConfigMembers
<1> QED BY <1>3, <1>4, <1>5 DEF ConnBut, c

\* What a wipe may have changed when it fails.
WipeMembers == {"mem", "x509_validator", "psks", "unread"} \cup RecvMembers \cup SendMembers

\* A wipe that fails leaves the connection its mode, its config and its timers;
\* one that succeeds leaves a blank connection that owns no context.
LEMMA WipeIs ==
    ASSUME NEW w, IsWorld(w), w.ok, Owns(w.conn, DOMAIN w.contexts), MemoryRight(w.conn), NEW fault
    PROVE  LET r == s2n_connection_wipe(w, fault)
           IN  /\ IsWorld(r)
               /\ \/ /\ r.ok /\ DOMAIN r.contexts = {}
                     /\ r.conn = Blank(w.conn.mode, w.conn.config)
                  \/ /\ ~r.ok /\ Owns(r.conn, DOMAIN r.contexts)
                     /\ SameBut(r, w, WipeMembers) /\ MemoryRight(r.conn)
               /\ fault = NULL /\ ~w.conn.managed_send_io => r.ok
<1> DEFINE IO == RecvMembers \cup SendMembers
           Was(v) == SameBut(v, w, WipeMembers) /\ Owns(v.conn, DOMAIN v.contexts) /\ MemoryRight(v.conn)
           Early(v) == SameBut(v, w, {"mem"}) /\ v.contexts = w.contexts /\ MemoryRight(v.conn)
           Fine == fault = NULL /\ ~w.conn.managed_send_io
           a == Ensure(w, "hashes", fault)
           b == IF a.ok THEN Ensure(a, "prf_space", fault) ELSE a
           f == Free(s2n_connection_wipe_keys(b), {"psk_params"})
           g == [f EXCEPT !.conn.psks = 0, !.conn.unread = FALSE]
           h == IF b.ok THEN s2n_connection_wipe_io(g) ELSE b
           i == IF h.ok THEN Ensure(Free(h, WipeFrees \ {"in", "out", "client_hello"}), "handshake_io", fault) ELSE h
           j == IF i.ok THEN Free(i, WipeFrees) ELSE i
           r == s2n_connection_wipe(w, fault)
<1>1. r = IF j.ok THEN FinishWipe(j, w.conn) ELSE j
  BY Zenon DEF s2n_connection_wipe, Then
<1>2. Early(a) /\ (a.ok => "hashes" \in a.conn.mem) /\ (Fine => a.ok)
  BY MemoryFrame DEF MemoryRight, Memory, Kept, NULL, IsWorld
<1> HIDE DEF r
<1>3. Early(b) /\ (b.ok => {"hashes", "prf_space"} \subseteq b.conn.mem) /\ (Fine => b.ok)
  <2> HIDE DEF a
  <2>1. IsWorld(a) BY <1>2 DEF SameBut
  <2> DEFINE e == Ensure(a, "prf_space", fault)
  <2>2. /\ SameBut(e, a, {"mem"}) /\ e.contexts = a.contexts
        /\ \/ e.ok = a.ok /\ e.conn.mem = a.conn.mem \cup {"prf_space"}
           \/ ~e.ok /\ e.conn.mem = a.conn.mem /\ fault = "prf_space"
    BY <2>1, MemoryFrame
  <2> HIDE DEF e
  <2>3. Early(e) BY <1>2, <2>2 DEF SameBut, MemoryRight, Memory, Kept
  <2>4. CASE a.ok
    <3>1. b = e BY <2>4 DEF e
    <3> QED BY <1>2, <2>2, <2>3, <2>4, <3>1 DEF NULL
  <2>5. CASE ~a.ok
    <3>1. b = a BY <2>5
    <3> QED BY <1>2, <2>5, <3>1
  <2> QED BY <2>4, <2>5
<1> HIDE DEF a, b
<1>4. b.ok => /\ SameBut(g, w, {"mem", "x509_validator", "psks", "unread"}) /\ g.contexts = w.contexts
              /\ g.ok /\ g.conn.mem = ((b.conn.mem \ WipedKeys) \ {"x509_validator"}) \ {"psk_params"}
  <2> DEFINE k == s2n_connection_wipe_keys(b)
  <2>1. IsWorld(b) BY <1>3 DEF SameBut
  <2>2. /\ SameBut(k, b, {"mem", "x509_validator"}) /\ k.contexts = b.contexts /\ k.ok = b.ok
        /\ k.conn.mem = (b.conn.mem \ WipedKeys) \ {"x509_validator"}
    BY <2>1, MemoryFrame
  <2> HIDE DEF k
  <2>3. IsWorld(k) BY <2>2 DEF SameBut
  <2>4. /\ SameBut(f, k, {"mem"}) /\ f.contexts = k.contexts /\ f.ok = k.ok
        /\ f.conn.mem = k.conn.mem \ {"psk_params"}
    BY <2>3, MemoryFrame DEF k
  <2> HIDE DEF f
  <2>5. /\ IsWorld(g) /\ g.contexts = f.contexts /\ g.ok = f.ok
        /\ g.conn = [f.conn EXCEPT !.psks = 0, !.unread = FALSE]
    BY <2>4 DEF SameBut, IsWorld, WorldFields
  <2> HIDE DEF g
  <2>6. SameBut(g, f, {"psks", "unread"}) /\ g.conn.mem = f.conn.mem
    BY <2>4, <2>5, MembersAre DEF SameBut, IsWorld
  <2>7. SameBut(g, w, {"mem", "x509_validator", "psks", "unread"})
    BY <1>3, <2>2, <2>4, <2>6 DEF SameBut
  <2> QED BY <1>3, <2>2, <2>4, <2>5, <2>6, <2>7
<1> HIDE DEF f, g
<1>5. ASSUME NEW v, SameBut(v, w, {"mem", "x509_validator", "psks", "unread"}), v.contexts = w.contexts
      PROVE  Owns(v.conn, DOMAIN v.contexts) /\ v.conn.managed_send_io = w.conn.managed_send_io
  <2>1. /\ v.conn.managed_recv_io = w.conn.managed_recv_io /\ v.conn.recv_io_context = w.conn.recv_io_context
        /\ v.conn.managed_send_io = w.conn.managed_send_io /\ v.conn.send_io_context = w.conn.send_io_context
    BY <1>5, MembersAre DEF SameBut
  <2> QED BY <1>5, <2>1 DEF Owns, Owned
<1>6. SameBut(b, w, {"mem", "x509_validator", "psks", "unread"}) BY <1>3 DEF SameBut
<1>7. Was(b) BY <1>3, <1>5, <1>6 DEF SameBut, WipeMembers
\* The memory of a connection being wiped, from here on.
<1> DEFINE Stripped(m) == m \subseteq Memory \ (WipedKeys \cup {"x509_validator", "psk_params"})
                          /\ {"keys", "hmacs", "hashes", "prf_space"} \subseteq m
<1>8. Was(h) /\ (h.ok => DOMAIN h.contexts = {} /\ Stripped(h.conn.mem)) /\ (Fine => h.ok)
  <2>1. CASE ~b.ok
    <3>1. h = b BY <2>1
    <3> QED BY <1>3, <1>7, <2>1, <3>1
  <2>2. CASE b.ok
    <3> DEFINE y == s2n_connection_wipe_io(g)
    <3>1. h = y BY <2>2
    <3>2. Owns(g.conn, DOMAIN g.contexts) /\ IsWorld(g) /\ g.conn.managed_send_io = w.conn.managed_send_io
      BY <1>4, <1>5, <2>2 DEF SameBut
    <3>3. /\ SameBut(y, g, IO) /\ Owns(y.conn, DOMAIN y.contexts)
          /\ y.ok => DOMAIN y.contexts = {}
          /\ ~g.conn.managed_send_io => y.ok
      BY <1>4, <2>2, <3>2, WipeIoOwns
    <3> HIDE DEF y, h
    <3>4. SameBut(y, w, WipeMembers) /\ y.conn.mem = g.conn.mem
      BY <1>4, <2>2, <3>3, MembersAre DEF SameBut, WipeMembers, RecvMembers, SendMembers
    <3>5. Stripped(g.conn.mem) /\ MemoryRight(y.conn)
      BY <1>3, <1>4, <2>2, <3>4 DEF MemoryRight, WipedKeys
    <3> QED BY <3>1, <3>2, <3>3, <3>4, <3>5
  <2> QED BY <2>1, <2>2
<1> HIDE DEF h
<1>9. Was(i) /\ (i.ok => /\ DOMAIN i.contexts = {} /\ Stripped(i.conn.mem)
                         /\ "handshake_io" \in i.conn.mem) /\ (Fine => i.ok)
  <2>1. CASE ~h.ok
    <3>1. i = h BY <2>1
    <3> QED BY <1>8, <2>1, <3>1
  <2>2. CASE h.ok
    <3> DEFINE x == Free(h, WipeFrees \ {"in", "out", "client_hello"})
    <3>1. IsWorld(h) BY <1>8 DEF SameBut
    <3>2. /\ SameBut(x, h, {"mem"}) /\ x.contexts = h.contexts /\ x.ok = h.ok
          /\ x.conn.mem = h.conn.mem \ (WipeFrees \ {"in", "out", "client_hello"})
      BY <3>1, MemoryFrame
    <3> HIDE DEF x
    <3>3. IsWorld(x) BY <3>2 DEF SameBut
    <3> DEFINE y == Ensure(x, "handshake_io", fault)
    <3>4. /\ SameBut(y, x, {"mem"}) /\ y.contexts = x.contexts
          /\ \/ y.ok = x.ok /\ y.conn.mem = x.conn.mem \cup {"handshake_io"}
             \/ ~y.ok /\ y.conn.mem = x.conn.mem /\ fault = "handshake_io"
      BY <3>3, MemoryFrame
    <3>5. i = y BY <2>2 DEF x
    <3> HIDE DEF y, i
    <3>6. Stripped(x.conn.mem) /\ Stripped(y.conn.mem) /\ MemoryRight(y.conn)
      BY <1>8, <2>2, <3>2, <3>4 DEF WipeFrees, MemoryRight, Memory, Kept, WipedKeys
    <3>7. SameBut(y, w, WipeMembers) BY <1>8, <3>2, <3>4 DEF SameBut, WipeMembers
    <3>8. /\ y.conn.managed_recv_io = h.conn.managed_recv_io /\ y.conn.recv_io_context = h.conn.recv_io_context
          /\ y.conn.managed_send_io = h.conn.managed_send_io /\ y.conn.send_io_context = h.conn.send_io_context
      BY <3>2, <3>4, MembersAre DEF SameBut
    <3>9. Owns(y.conn, DOMAIN y.contexts) BY <1>8, <3>2, <3>4, <3>8 DEF Owns, Owned
    <3> QED BY <1>8, <2>2, <3>2, <3>4, <3>5, <3>6, <3>7, <3>9 DEF NULL
  <2> QED BY <2>1, <2>2
<1> HIDE DEF i
<1>10. CASE ~i.ok
  <2>1. j = i BY <1>10
  <2>2. r = i BY <1>1, <1>10, <2>1
  <2>3. IsWorld(i) BY <1>9 DEF SameBut
  <2> QED BY <1>9, <1>10, <2>2, <2>3 DEF r
<1>11. CASE i.ok
  <2>1. IsWorld(i) BY <1>9 DEF SameBut
  <2>2. j = Free(i, WipeFrees) BY <1>11
  <2>3. /\ SameBut(j, i, {"mem"}) /\ j.contexts = i.contexts /\ j.ok = i.ok
        /\ j.conn.mem = i.conn.mem \ WipeFrees
    BY <2>1, <2>2, MemoryFrame
  <2> HIDE DEF j
  <2>4. j.conn.mem = Kept
    <3>1. i.conn.mem \ WipeFrees \subseteq Kept
      BY <1>9, <1>11 DEF Memory, Kept, FreedMembers, WipedKeys, WipeFrees
    <3>2. Kept \subseteq i.conn.mem \ WipeFrees
      BY <1>9, <1>11 DEF Kept, WipeFrees
    <3> QED BY <2>3, <3>1, <3>2
  <2>5. IsWorld(j) BY <2>3 DEF SameBut
  <2>6. r = FinishWipe(j, w.conn) BY <1>1, <1>11, <2>3
  <2> DEFINE z == FinishWipe(j, w.conn)
  <2>7. IsWorld(z) /\ z.ok /\ z.contexts = j.contexts /\ z.conn = Blank(w.conn.mode, w.conn.config)
    BY <1>11, <2>3, <2>4, <2>5, FinishWipeIs
  <2> HIDE DEF z
  <2> QED BY <1>9, <1>11, <2>3, <2>6, <2>7 DEF r, z
<1> QED BY <1>10, <1>11

\* The same members but those for memory: what can be given back still can.
PlainMembers == {"mem", "x509_validator", "psks", "unread"}
LeavesIo(v, w) == SameBut(v, w, PlainMembers) /\ v.contexts = w.contexts /\ v.sockets = w.sockets

\* Such a change disturbs neither the contexts nor the sockets.
LEMMA PlainKeeps ==
    ASSUME NEW v, NEW w, LeavesIo(v, w), Owns(w.conn, DOMAIN w.contexts), NEW o,
           Restorable(w.conn, w.contexts, w.sockets, o)
    PROVE  /\ Owns(v.conn, DOMAIN v.contexts) /\ Restorable(v.conn, v.contexts, v.sockets, o)
           /\ v.conn.managed_send_io = w.conn.managed_send_io
<1>1. \A m \in SocketMembers : v.conn[m] = w.conn[m]
  BY MembersAre DEF LeavesIo, PlainMembers, SameBut, SocketMembers
<1>2. /\ v.conn.managed_recv_io = w.conn.managed_recv_io /\ v.conn.recv_io_context = w.conn.recv_io_context
      /\ v.conn.managed_send_io = w.conn.managed_send_io /\ v.conn.send_io_context = w.conn.send_io_context
  BY <1>1 DEF SocketMembers
<1>3. Owns(v.conn, DOMAIN v.contexts) BY <1>2 DEF LeavesIo, Owns, Owned
<1>4. Restorable(v.conn, w.contexts, w.sockets, o) BY <1>1, RestorableKept
<1> QED BY <1>2, <1>3, <1>4 DEF LeavesIo

\* A wipe that succeeds has given the sockets back, one that fails still can.
LEMMA WipeRestorable ==
    ASSUME NEW w, IsWorld(w), w.ok, Owns(w.conn, DOMAIN w.contexts), MemoryRight(w.conn), NEW fault,
           NEW o, Restorable(w.conn, w.contexts, w.sockets, o)
    PROVE  LET r == s2n_connection_wipe(w, fault)
           IN  IF r.ok THEN r.sockets = o ELSE Restorable(r.conn, r.contexts, r.sockets, o)
<1> DEFINE Good(v) == IsWorld(v) /\ Owns(v.conn, DOMAIN v.contexts) /\ Restorable(v.conn, v.contexts, v.sockets, o)
           Free1(v) == s2n_connection_wipe_keys(v)
           Free2(v) == Free(Free1(v), {"psk_params"})
           Strip(v) == [Free2(v) EXCEPT !.conn.psks = 0, !.conn.unread = FALSE]
           Late(v) == Free(v, WipeFrees \ {"in", "out", "client_hello"})
           a == Ensure(w, "hashes", fault)
           b == IF a.ok THEN Ensure(a, "prf_space", fault) ELSE a
           h == IF b.ok THEN s2n_connection_wipe_io(Strip(b)) ELSE b
           i == IF h.ok THEN Ensure(Late(h), "handshake_io", fault) ELSE h
           j == IF i.ok THEN Free(i, WipeFrees) ELSE i
           r == s2n_connection_wipe(w, fault)
<1>1. r = IF j.ok THEN FinishWipe(j, w.conn) ELSE j
  BY Zenon DEF s2n_connection_wipe, Then
<1>2. ASSUME NEW u, NEW v, Good(u), LeavesIo(v, u)
      PROVE  Good(v) /\ v.conn.managed_send_io = u.conn.managed_send_io /\ v.sockets = u.sockets
  BY <1>2, PlainKeeps DEF LeavesIo, SameBut
<1>3. ASSUME NEW u, IsWorld(u), NEW name PROVE LeavesIo(Ensure(u, name, fault), u)
  <2> DEFINE v == Ensure(u, name, fault)
  <2>1. SameBut(v, u, {"mem"}) /\ v.contexts = u.contexts /\ v.sockets = u.sockets BY <1>3, MemoryFrame
  <2> HIDE DEF v
  <2>2. LeavesIo(v, u) BY <2>1 DEF LeavesIo, PlainMembers, SameBut
  <2> QED BY <2>2 DEF v
<1>4. ASSUME NEW u, IsWorld(u), NEW names
      PROVE  LeavesIo(Free(u, names), u) /\ Free(u, names).ok = u.ok
  <2> DEFINE v == Free(u, names)
  <2>1. SameBut(v, u, {"mem"}) /\ v.contexts = u.contexts /\ v.sockets = u.sockets /\ v.ok = u.ok
    BY <1>4, MemoryFrame
  <2> HIDE DEF v
  <2>2. LeavesIo(v, u) BY <2>1 DEF LeavesIo, PlainMembers, SameBut
  <2> QED BY <2>1, <2>2 DEF v
<1>5. ASSUME NEW u, IsWorld(u) PROVE LeavesIo(Strip(u), u) /\ Strip(u).ok = u.ok
  <2> DEFINE x == Free1(u)
             y == Free2(u)
             z == [y EXCEPT !.conn.psks = 0, !.conn.unread = FALSE]
  <2>1. /\ SameBut(x, u, {"mem", "x509_validator"}) /\ x.contexts = u.contexts /\ x.sockets = u.sockets
        /\ x.ok = u.ok
    BY <1>5, MemoryFrame
  <2>2. LeavesIo(y, x) /\ y.ok = x.ok
    <3> HIDE DEF x
    <3>1. IsWorld(x) BY <2>1 DEF SameBut
    <3>2. y = Free(x, {"psk_params"}) BY DEF x
    <3> HIDE DEF y
    <3> QED BY <1>4, <3>1, <3>2
  <2> HIDE DEF x, y
  <2>3. /\ IsWorld(z) /\ z.contexts = y.contexts /\ z.sockets = y.sockets /\ z.ok = y.ok
        /\ z.conn = [y.conn EXCEPT !.psks = 0, !.unread = FALSE]
    BY <2>2 DEF LeavesIo, SameBut, IsWorld, WorldFields
  <2> HIDE DEF z
  <2>4. SameBut(z, y, PlainMembers)
    BY <2>2, <2>3, MembersAre DEF LeavesIo, PlainMembers, SameBut, IsWorld
  <2>5. LeavesIo(z, u) BY <2>1, <2>2, <2>3, <2>4 DEF LeavesIo, PlainMembers, SameBut
  <2> QED BY <2>1, <2>2, <2>3, <2>5 DEF x, y, z
<1>6. ASSUME NEW u, Good(u), u.ok
      PROVE  LET v == s2n_connection_wipe_io(u)
             IN  Good(v) /\ (v.ok => v.sockets = o)
  <2> DEFINE v == s2n_connection_wipe_io(u)
  <2>1. SameBut(v, u, RecvMembers \cup SendMembers) /\ Owns(v.conn, DOMAIN v.contexts)
    BY <1>6, WipeIoOwns
  <2>2. Restorable(v.conn, v.contexts, v.sockets, o) /\ (v.ok => v.sockets = o)
    BY <1>6, WipeIoRestorable
  <2> HIDE DEF v
  <2> QED BY <2>1, <2>2 DEF SameBut, v
<1>7. Good(w) OBVIOUS
<1> HIDE DEF Good, Strip, Late, r
<1>8. Good(a) BY <1>2, <1>3, <1>7 DEF Good
<1> HIDE DEF a
<1>9. Good(b)
  <2>1. CASE a.ok BY <1>2, <1>3, <1>8, <2>1 DEF Good
  <2>2. CASE ~a.ok BY <1>8, <2>2
  <2> QED BY <2>1, <2>2
<1> HIDE DEF b
<1>10. Good(h) /\ (h.ok => h.sockets = o)
  <2>1. CASE b.ok
    <3>1. Good(Strip(b)) /\ Strip(b).ok BY <1>2, <1>5, <1>9, <2>1 DEF Good
    <3> QED BY <1>6, <2>1, <3>1
  <2>2. CASE ~b.ok BY <1>9, <2>2
  <2> QED BY <2>1, <2>2
<1> HIDE DEF h
<1>11. Good(i) /\ (i.ok => i.sockets = o)
  <2>1. CASE h.ok
    <3> DEFINE x == Late(h)
    <3>1. LeavesIo(x, h) BY <1>4, <1>10 DEF Good, Late
    <3> HIDE DEF x
    <3>2. Good(x) /\ x.sockets = o BY <1>2, <1>10, <2>1, <3>1
    <3>3. LeavesIo(Ensure(x, "handshake_io", fault), x) BY <1>3, <3>2 DEF Good
    <3>4. i = Ensure(x, "handshake_io", fault) BY <2>1 DEF x
    <3> HIDE DEF i
    <3> QED BY <1>2, <3>2, <3>3, <3>4
  <2>2. CASE ~h.ok BY <1>10, <2>2
  <2> QED BY <2>1, <2>2
<1> HIDE DEF i
<1>12. CASE ~i.ok
  <2>1. r = i BY <1>1, <1>12
  <2> QED BY <1>11, <1>12, <2>1 DEF Good, r
<1>13. CASE i.ok
  <2>1. j = Free(i, WipeFrees) BY <1>13
  <2>2. LeavesIo(j, i) /\ j.ok = i.ok BY <1>4, <1>11, <2>1 DEF Good
  <2> HIDE DEF j
  <2>3. r = FinishWipe(j, w.conn) /\ j.sockets = o BY <1>1, <1>11, <1>13, <2>2 DEF LeavesIo
  <2>4. r.ok /\ r.sockets = j.sockets BY <1>13, <2>2, <2>3, FinishWipeIs DEF LeavesIo, SameBut
  <2> QED BY <2>3, <2>4 DEF r
<1> QED BY <1>12, <1>13

-----------------------------------------------------------------------------
(* New and freed connections.                                              *)

\* The default config is never refused.
LEMMA DefaultFits ==
    ASSUME configs["default"] = s2n_config_init, NEW c
    PROVE  ~Refused(c, "default") /\ ~NoKey("default")
<1>1. {t \in CertTypes : s2n_config_init.default_certs_by_type[t] # NULL} = {}
  BY DEF s2n_config_init, NoCerts
<1>2. s2n_config_get_num_default_certs(s2n_config_init) = 0
  BY <1>1, FS_EmptySet DEF s2n_config_get_num_default_certs
<1>3. ~NoKey("default") BY DEF NoKey, s2n_config_init
<1> QED BY <1>2, <1>3 DEF Refused

\* Some members of a zeroed connection.
LEMMA ZeroedIs ==
    ASSUME NEW mode
    PROVE  /\ Zeroed(mode).alive = TRUE /\ Zeroed(mode).mode = mode /\ Zeroed(mode).config = NULL
           /\ Zeroed(mode).managed_recv_io = FALSE /\ Zeroed(mode).managed_send_io = FALSE
           /\ Zeroed(mode).client_cert_auth_type_overridden = FALSE
           /\ Zeroed(mode).verify_host_fn_overridden = FALSE /\ Zeroed(mode).verify_host_fn = NULL
           /\ Zeroed(mode).psk_mode_overridden = FALSE /\ Zeroed(mode).psks = 0
           /\ Zeroed(mode).quic_enabled = FALSE
BY DEF Zeroed

\* It reads with no context, and no handshake has begun.
LEMMA ZeroedIdle ==
    ASSUME NEW mode
    PROVE  Zeroed(mode).recv_io_context = NoContext /\ Zeroed(mode).handshake = "IDLE"
BY DEF Zeroed

\* The memory of a connection that has been given a config.
LEMMA ConfigMemory ==
    ASSUME NEW c, DOMAIN c = Members, NEW id
    PROVE  /\ Taken(c, id).mem = c.mem \cup {"x509_validator"}
           /\ Accepted(c, id).mem = c.mem \cup {"x509_validator"}
           /\ ConfigConn(c, id).mem \in {c.mem, c.mem \cup {"x509_validator"}}
<1> DEFINE a == s2n_x509_validator_wipe(c)
           b == TakeValidator(a, id)
           d == TakeSettings(b, id)
<1>1. ConnBut(a, c, {"x509_validator", "mem"}) /\ a.mem = c.mem \ {"x509_validator"}
  BY ValidatorFrame, MembersAre DEF s2n_x509_validator_wipe
<1> HIDE DEF a
<1>2. ConnBut(b, a, {"x509_validator", "mem", "verify_host_fn"}) BY <1>1, ValidatorFrame DEF ConnBut
<1>3. b.mem = a.mem \cup {"x509_validator"}
  BY <1>1, MembersAre DEF ConnBut, TakeValidator, s2n_x509_validator_init,
                          s2n_x509_validator_init_no_x509_validation
<1> HIDE DEF b
<1>4. d.mem = b.mem BY <1>2, SettingsFrame, MembersAre DEF ConnBut
<1>5. Taken(c, id).mem = c.mem \cup {"x509_validator"}
  BY <1>1, <1>3, <1>4 DEF Taken, a, b
<1>6. Accepted(c, id).mem = Taken(c, id).mem
  BY AcceptedFrame, MembersAre DEF ConnBut
<1> QED BY <1>5, <1>6 DEF ConfigConn

\* A connection of this mode accepts the config.
Suits(mode, id) == id # NULL /\ ~(Refused(Zeroed(mode), id) \/ NoKey(id))

\* What is known of a connection that has been wiped.
IsBlank(b, mode, id) ==
    /\ DOMAIN b = Members
    /\ b.alive = TRUE /\ b.mode = mode /\ b.config = id
    /\ b.managed_recv_io = FALSE /\ b.managed_send_io = FALSE
    /\ b.recv_io_context = NoContext /\ b.handshake = "IDLE"
    /\ b.mem = Kept \cup {"x509_validator"} /\ MemoryRight(b)
    /\ b.verify_host_fn_overridden = FALSE

\* A blank connection has the mode and the config it was given.
LEMMA BlankIs ==
    ASSUME NEW mode, NEW id, Suits(mode, id)
    PROVE  IsBlank(Blank(mode, id), mode, id)
<1> DEFINE b == Blank(mode, id)
           z == Zero(mode, Kept)
           c == ConfigConn(z, id)
<1>1. /\ DOMAIN b = Members
      /\ ConnBut(b, c, {"psk_type", "blinding"})
      /\ ConnBut(b, Zeroed(mode), ConfigMembers \cup {"blinding"})
  BY BlankFrame
<1>2. ConnBut(z, Zeroed(mode), {"mem"}) /\ z.mem = Kept BY ZeroIs
<1>3. z.config = NULL /\ z.mode = mode BY <1>2, ZeroedIs, MembersAre DEF ConnBut
<1>4. c = Accepted(z, id) BY <1>3, ZeroedIs DEF ConfigConn, Refused, Suits
<1> HIDE DEF b, c, z
<1>5. c.config = id /\ c.mem = Kept \cup {"x509_validator"}
  BY <1>2, <1>4, AcceptedFrame, ConfigMemory DEF ConnBut
<1>6. b.config = id /\ b.mem = Kept \cup {"x509_validator"}
  BY <1>1, <1>5, MembersAre DEF ConnBut
<1>7. /\ b.alive = TRUE /\ b.mode = mode
      /\ b.managed_recv_io = FALSE /\ b.managed_send_io = FALSE
      /\ b.verify_host_fn_overridden = FALSE
  BY <1>1, ZeroedIs, MembersAre DEF ConnBut, ConfigMembers
<1>8. b.recv_io_context = NoContext /\ b.handshake = "IDLE"
  BY <1>1, ZeroedIdle, MembersAre DEF ConnBut, ConfigMembers
<1>9. MemoryRight(b) BY <1>6 DEF MemoryRight, Memory, FreedMembers, Kept
<1> QED BY <1>1, <1>6, <1>7, <1>8, <1>9 DEF b, IsBlank

\* s2n_connection_new makes a blank connection with the default config.
LEMMA NewIs ==
    ASSUME configs["default"] = s2n_config_init,
           NEW w, IsWorld(w), w.ok, DOMAIN w.contexts = {}, NEW mode
    PROVE  LET v == s2n_connection_new(w, mode)
           IN  /\ IsWorld(v) /\ v.ok /\ DOMAIN v.contexts = {} /\ v.conn = Blank(mode, "default")
               /\ w.sockets \in [Fds -> BOOLEAN] => v.sockets = w.sockets
<1> DEFINE m == {"keys", "hmacs", "prf_space", "hashes"}
           a == [w EXCEPT !.conn = Zero("SERVER", m)]
           b == s2n_connection_set_config(a, "default")
           c == [b EXCEPT !.conn.mode = mode]
           v == s2n_connection_new(w, mode)
<1>1. IsWorld(a) /\ a.ok /\ a.contexts = w.contexts /\ a.sockets = w.sockets /\ a.conn = Zero("SERVER", m)
  BY ZeroIs DEF IsWorld, WorldFields
<1>2. v = IF b.ok THEN s2n_connection_wipe(c, NULL) ELSE b
  BY Zenon DEF s2n_connection_new, Then, Zero
<1> HIDE DEF a, v
<1>3. /\ IsWorld(b) /\ b.contexts = a.contexts /\ b.sockets = a.sockets /\ b.conn = ConfigConn(a.conn, "default")
      /\ Fits(a.conn, "default") => b.ok
  BY <1>1, SetConfigIs
<1>4. b.ok BY <1>3, DefaultFits DEF Fits
<1> HIDE DEF b
<1>5. ConnBut(a.conn, Zeroed("SERVER"), {"mem"}) /\ a.conn.mem = m BY <1>1, ZeroIs
<1>6. b.conn = Accepted(a.conn, "default")
  <2>1. a.conn.config = NULL BY <1>5, ZeroedIs, MembersAre DEF ConnBut
  <2> QED BY <1>3, <2>1, DefaultFits DEF ConfigConn, NULL
<1>7. /\ ConnBut(b.conn, a.conn, ConfigMembers) /\ b.conn.config = "default"
      /\ b.conn.mem = m \cup {"x509_validator"}
  BY <1>5, <1>6, AcceptedFrame, ConfigMemory DEF ConnBut
<1>8. b.conn.managed_recv_io = FALSE /\ b.conn.managed_send_io = FALSE /\ b.conn.recv_io_context = NoContext
  <2>1. b.conn.managed_recv_io = FALSE /\ b.conn.managed_send_io = FALSE
    BY <1>5, <1>7, ZeroedIs, MembersAre DEF ConnBut, ConfigMembers
  <2>2. b.conn.recv_io_context = NoContext
    BY <1>5, <1>7, ZeroedIdle, MembersAre DEF ConnBut, ConfigMembers
  <2> QED BY <2>1, <2>2
<1>9. /\ IsWorld(c) /\ c.ok = b.ok /\ c.contexts = b.contexts /\ c.sockets = b.sockets
      /\ c.conn = [b.conn EXCEPT !.mode = mode]
  BY <1>3 DEF IsWorld, WorldFields
<1> HIDE DEF c
<1>10. /\ c.conn.mode = mode /\ c.conn.config = "default" /\ c.conn.mem = m \cup {"x509_validator"}
       /\ c.conn.managed_recv_io = FALSE /\ c.conn.managed_send_io = FALSE
       /\ c.conn.recv_io_context = NoContext
  BY <1>3, <1>7, <1>8, <1>9, MembersAre DEF IsWorld
<1>11. MemoryRight(c.conn) BY <1>10 DEF MemoryRight, Memory, Kept, FreedMembers
<1>12. Owns(c.conn, DOMAIN c.contexts) BY <1>1, <1>3, <1>9, <1>10 DEF Owns, Owned
<1> DEFINE r == s2n_connection_wipe(c, NULL)
<1>13. /\ IsWorld(r)
       /\ (r.ok /\ DOMAIN r.contexts = {} /\ r.conn = Blank(c.conn.mode, c.conn.config)) \/ ~r.ok
       /\ NULL = NULL /\ ~c.conn.managed_send_io => r.ok
  BY <1>4, <1>9, <1>11, <1>12, WipeIs
<1>14. w.sockets \in [Fds -> BOOLEAN] => IF r.ok THEN r.sockets = w.sockets ELSE TRUE
  <2> SUFFICES ASSUME w.sockets \in [Fds -> BOOLEAN] PROVE r.ok => r.sockets = w.sockets OBVIOUS
  <2>1. Restorable(c.conn, c.contexts, c.sockets, w.sockets) BY <1>1, <1>3, <1>9, <1>10 DEF Restorable
  <2> QED BY <1>4, <1>9, <1>11, <1>12, <2>1, WipeRestorable
<1> HIDE DEF r
<1> QED BY <1>2, <1>4, <1>10, <1>13, <1>14 DEF r, v

\* s2n_connection_free leaves neither a context nor memory.
LEMMA FreeIs ==
    ASSUME NEW w, IsWorld(w), w.ok, Owns(w.conn, DOMAIN w.contexts), w.conn.mem \subseteq Memory
    PROVE  LET v == s2n_connection_free(w)
           IN  /\ IsWorld(v) /\ DOMAIN v.contexts = {} /\ v.conn = [Freed EXCEPT !.mem = {}]
               /\ v.sockets = w.sockets
<1> DEFINE a == s2n_connection_wipe_keys(w)
           b == Free(a, FreedMembers)
           c == s2n_connection_free_managed_io(b)
           v == s2n_connection_free(w)
<1>1. /\ SameBut(a, w, {"mem", "x509_validator"}) /\ a.contexts = w.contexts /\ a.sockets = w.sockets /\ a.ok = w.ok
      /\ a.conn.mem = (w.conn.mem \ WipedKeys) \ {"x509_validator"}
  BY MemoryFrame
<1>2. v = IF c.ok THEN [c EXCEPT !.conn = [Freed EXCEPT !.mem = c.conn.mem]] ELSE c
  BY Zenon DEF s2n_connection_free, Then
<1> HIDE DEF a, v
<1>3. IsWorld(a) BY <1>1 DEF SameBut
<1>4. /\ SameBut(b, a, {"mem"}) /\ b.contexts = a.contexts /\ b.sockets = a.sockets /\ b.ok = a.ok
      /\ b.conn.mem = a.conn.mem \ FreedMembers
  BY <1>3, MemoryFrame
<1> HIDE DEF b
<1>5. b.conn.mem = {} BY <1>1, <1>4 DEF Memory, Kept, FreedMembers, WipedKeys
<1>6. IsWorld(b) /\ Owns(b.conn, DOMAIN b.contexts)
  <2>1. /\ b.conn.managed_recv_io = w.conn.managed_recv_io /\ b.conn.recv_io_context = w.conn.recv_io_context
        /\ b.conn.managed_send_io = w.conn.managed_send_io /\ b.conn.send_io_context = w.conn.send_io_context
    BY <1>1, <1>4, MembersAre DEF SameBut
  <2> QED BY <1>1, <1>4, <2>1 DEF SameBut, Owns, Owned
<1>7. SameBut(c, b, RecvMembers \cup SendMembers) /\ c.ok /\ c.sockets = b.sockets /\ DOMAIN c.contexts = {}
  BY <1>1, <1>4, <1>6, FreeIoOwns
<1> HIDE DEF c
<1>8. c.conn.mem = {} BY <1>5, <1>7, MembersAre DEF SameBut, RecvMembers, SendMembers
<1>9. DOMAIN [Freed EXCEPT !.mem = {}] = Members BY DEF Freed, Members, Zeroed
<1>10. v = [c EXCEPT !.conn = [Freed EXCEPT !.mem = {}]] BY <1>2, <1>7, <1>8
<1>11. /\ IsWorld(v) /\ DOMAIN v.contexts = {} /\ v.conn = [Freed EXCEPT !.mem = {}]
       /\ v.sockets = w.sockets
  BY <1>1, <1>4, <1>7, <1>9, <1>10 DEF SameBut, IsWorld, WorldFields
<1> QED BY <1>11 DEF v

-----------------------------------------------------------------------------
(* The calls that neither give the connection a config nor end or blind it. *)

\* The shape of the connection, and who owns what.
Shape == DOMAIN conn = Members /\ conn.alive \in BOOLEAN

Holdings ==
    /\ Owns(conn, DOMAIN contexts)
    /\ conn.alive => MemoryRight(conn)
    /\ ~conn.alive => conn.mem = {} /\ DOMAIN contexts = {}

\* What these calls may change.
Loose == {"client_cert_auth_type", "client_cert_auth_type_overridden",
          "verify_host_fn", "verify_host_fn_overridden",
          "psk_type", "psk_mode_overridden", "psks", "recv", "recv_io_context", "managed_recv_io",
          "send", "send_io_context", "managed_send_io", "corked_io", "write_fd_broken",
          "handshake", "blinding", "server_name", "context", "unread", "mem"}

AuthMembers == {"client_cert_auth_type", "client_cert_auth_type_overridden"}
HostMembers == {"verify_host_fn", "verify_host_fn_overridden"}

\* The connection c, owning the contexts D, may be what such a call leaves.
Tame(c, D) ==
    /\ ConnBut(c, conn, Loose)
    /\ Owns(c, D)
    /\ MemoryRight(c)
    /\ (\A m \in AuthMembers : c[m] = conn[m]) \/ LateAuth \/ conn.config = "default"
    /\ (\A m \in HostMembers : c[m] = conn[m]) \/ (c.verify_host_fn = "app" /\ c.verify_host_fn_overridden)

\* What the steps of Ordinary have in common.
Stepped ==
    /\ Usable
    /\ Tame(conn', DOMAIN contexts')
    /\ UNCHANGED <<configs, now, killed>>
    /\ last'.op \notin {"set_config", "wipe"} /\ last'.ok \in BOOLEAN
    /\ last' = [op |-> "shutdown", ok |-> TRUE] => Shutdown

\* A call starts from the connection and the contexts as they are.
LEMMA WorldIs ==
    ASSUME Shape
    PROVE  /\ IsWorld(World) /\ World.ok /\ World.conn = conn /\ World.contexts = contexts
           /\ World.sockets = sockets /\ Fail(World).sockets = sockets
           /\ \A c : DOMAIN c = Members => IsWorld(Set(c)) /\ Set(c).ok /\ Set(c).conn = c /\ Set(c).contexts = contexts
           /\ \A c : Set(c).sockets = sockets /\ Fail(Set(c)).conn = c /\ Fail(Set(c)).contexts = contexts
                    /\ Fail(Set(c)).sockets = sockets
           /\ Fail(World).conn = conn /\ Fail(World).contexts = contexts
BY DEF Shape, World, IsWorld, WorldFields, Set, Fail

\* Most calls change members that own nothing.
LEMMA PlainIsTame ==
    ASSUME Shape, Holdings, conn.alive, NEW S \in SUBSET Loose, NEW c, ConnBut(c, conn, S),
           S \cap (RecvMembers \cup SendMembers \cup AuthMembers \cup HostMembers) \subseteq {"write_fd_broken"},
           MemoryRight(c)
    PROVE  Tame(c, DOMAIN contexts)
<1>1. \A m \in AuthMembers \cup HostMembers : c[m] = conn[m]
  BY MembersAre DEF ConnBut, AuthMembers, HostMembers
<1>2. /\ c.managed_recv_io = conn.managed_recv_io /\ c.recv_io_context = conn.recv_io_context
      /\ c.managed_send_io = conn.managed_send_io /\ c.send_io_context = conn.send_io_context
  BY MembersAre DEF ConnBut, RecvMembers, SendMembers
<1>3. Owns(c, DOMAIN contexts) BY <1>2 DEF Holdings, Owns, Owned
<1>4. ConnBut(c, conn, Loose) BY DEF ConnBut
<1> QED BY <1>1, <1>3, <1>4 DEF Tame

\* A call that changes nothing is tame.
LEMMA ConnIsTame ==
    ASSUME Shape, Holdings, conn.alive
    PROVE  Tame(conn, DOMAIN contexts)
BY PlainIsTame DEF ConnBut, Shape, Holdings

\* A call with a tame result is an ordinary step,
LEMMA CallSteps ==
    ASSUME Shape, Holdings, NEW op, op \notin Watched, NEW w, Call(op, w), Tame(w.conn, DOMAIN w.contexts)
    PROVE  Stepped
BY DEF Call, Did, Timeless, Other, Stepped

\* and so is one whose allocation may fail.
LEMMA AllocatingSteps ==
    ASSUME Shape, Holdings, NEW op, op \notin Watched, NEW w, Allocating(op, w),
           Tame(w.conn, DOMAIN w.contexts)
    PROVE  Stepped
<1>1. CASE Call(op, w) BY <1>1, CallSteps
<1>2. CASE ~Call(op, w)
  <2>1. Usable /\ conn.alive BY <1>2 DEF Allocating, Usable
  <2>2. Tame(conn, DOMAIN contexts) BY <2>1, ConnIsTame
  <2>3. /\ last' = Other /\ conn' = conn /\ contexts' = contexts
        /\ UNCHANGED <<configs, now, killed>>
    BY <1>2 DEF Allocating, Timeless
  <2>4. Tame(conn', DOMAIN contexts') BY <2>2, <2>3
  <2> QED BY <2>1, <2>3, <2>4 DEF Stepped, Other
<1> QED BY <1>1, <1>2

\* The calls that set a member.
LEMMA SettersStep ==
    ASSUME Shape, Holdings
    PROVE  /\ SetClientAuthType => Stepped
           /\ SetVerifyHost => Stepped
           /\ SetPskMode => Stepped
           /\ AppendPsk => Stepped
           /\ SetServerName => Stepped
           /\ SetOther => Stepped
<1>1. ASSUME NEW op, NEW w, Call(op, w) \/ Allocating(op, w) PROVE conn.alive /\ MemoryRight(conn)
  BY <1>1 DEF Call, Allocating, Usable, Holdings
<1>2. ASSUME SetClientAuthType PROVE Stepped
  <2>1. PICK type : /\ LateAuth \/ conn.config = "default"
                    /\ Call("set_client_auth_type",
                            Set([conn EXCEPT !.client_cert_auth_type = type,
                                             !.client_cert_auth_type_overridden = TRUE]))
    BY <1>2, Zenon DEF SetClientAuthType
  <2> DEFINE c == [conn EXCEPT !.client_cert_auth_type = type, !.client_cert_auth_type_overridden = TRUE]
  <2>2. /\ ConnBut(c, conn, AuthMembers) /\ c.mem = conn.mem
        /\ c.managed_recv_io = conn.managed_recv_io /\ c.recv_io_context = conn.recv_io_context
        /\ c.managed_send_io = conn.managed_send_io /\ c.send_io_context = conn.send_io_context
    BY MembersAre DEF Shape, ConnBut, AuthMembers
  <2>3. Set(c).conn = c /\ Set(c).contexts = contexts BY <2>2, WorldIs DEF ConnBut
  <2>4. conn.alive /\ MemoryRight(conn) BY <1>1, <2>1
  <2> HIDE DEF c
  <2>5. Owns(c, DOMAIN contexts) /\ MemoryRight(c) BY <2>2, <2>4 DEF Holdings, Owns, Owned, MemoryRight
  <2>6. ConnBut(c, conn, Loose) /\ \A m \in HostMembers : c[m] = conn[m]
    BY <2>2, MembersAre DEF ConnBut, Loose, AuthMembers, HostMembers
  <2>7. Tame(c, DOMAIN contexts) BY <2>1, <2>5, <2>6 DEF Tame
  <2> QED BY <2>1, <2>3, <2>7, CallSteps DEF Watched, c
<1>3. ASSUME SetVerifyHost PROVE Stepped
  <2> DEFINE c == [conn EXCEPT !.verify_host_fn = "app", !.verify_host_fn_overridden = TRUE]
  <2>1. Call("set_verify_host", Set(c)) BY <1>3 DEF SetVerifyHost
  <2>2. /\ ConnBut(c, conn, HostMembers) /\ c.mem = conn.mem
        /\ c.managed_recv_io = conn.managed_recv_io /\ c.recv_io_context = conn.recv_io_context
        /\ c.managed_send_io = conn.managed_send_io /\ c.send_io_context = conn.send_io_context
        /\ c.verify_host_fn = "app" /\ c.verify_host_fn_overridden = TRUE
    BY MembersAre DEF Shape, ConnBut, HostMembers
  <2>3. Set(c).conn = c /\ Set(c).contexts = contexts BY <2>2, WorldIs DEF ConnBut
  <2>4. conn.alive /\ MemoryRight(conn) BY <1>1, <2>1
  <2> HIDE DEF c
  <2>5. Owns(c, DOMAIN contexts) /\ MemoryRight(c) BY <2>2, <2>4 DEF Holdings, Owns, Owned, MemoryRight
  <2>6. ConnBut(c, conn, Loose) /\ \A m \in AuthMembers : c[m] = conn[m]
    BY <2>2, MembersAre DEF ConnBut, Loose, AuthMembers, HostMembers
  <2>7. Tame(c, DOMAIN contexts) BY <2>2, <2>5, <2>6 DEF Tame
  <2> QED BY <2>1, <2>3, <2>7, CallSteps DEF Watched
<1>4. ASSUME NEW S \in SUBSET Loose, NEW c, ConnBut(c, conn, S), NEW op, op \notin Watched,
             S \cap (RecvMembers \cup SendMembers \cup AuthMembers \cup HostMembers) \subseteq {"write_fd_broken"},
             c.mem \in {conn.mem, conn.mem \cup {"psk_params"}, conn.mem \cup {"our_quic"},
                        conn.mem \cup {"application_protocols_overridden"}},
             Call(op, Set(c)) \/ Allocating(op, Set(c))
      PROVE  Stepped
  <2>1. conn.alive /\ MemoryRight(conn) BY <1>1, <1>4
  <2>2. MemoryRight(c) BY <1>4, <2>1 DEF MemoryRight, Memory, FreedMembers
  <2>3. Tame(c, DOMAIN contexts) BY <1>4, <2>1, <2>2, PlainIsTame
  <2>4. Set(c).conn = c /\ Set(c).contexts = contexts BY <1>4, WorldIs DEF ConnBut
  <2> QED BY <1>4, <2>3, <2>4, CallSteps, AllocatingSteps
<1>5. ASSUME NEW op, op \notin Watched, Call(op, Fail(World)) \/ Allocating(op, Fail(World)) PROVE Stepped
  <2>1. Tame(conn, DOMAIN contexts) BY <1>1, <1>5, ConnIsTame
  <2> QED BY <1>5, <2>1, WorldIs, CallSteps, AllocatingSteps
<1>6. ASSUME SetPskMode PROVE Stepped
  <2>1. PICK mode : Call("set_psk_mode",
                         IF conn.psks # 0 /\ conn.psk_type # mode THEN Fail(World)
                         ELSE Set([s2n_connection_set_psk_type(conn, mode) EXCEPT !.psk_mode_overridden = TRUE]))
    BY <1>6, Zenon DEF SetPskMode
  <2> DEFINE c == [s2n_connection_set_psk_type(conn, mode) EXCEPT !.psk_mode_overridden = TRUE]
  <2>2. Call("set_psk_mode", Fail(World)) \/ Call("set_psk_mode", Set(c)) BY <2>1
  <2>3. ConnBut(c, conn, {"psk_type", "psk_mode_overridden"}) /\ c.mem = conn.mem
    BY MembersAre DEF Shape, ConnBut, s2n_connection_set_psk_type
  <2> HIDE DEF c
  <2> QED BY <1>4, <1>5, <2>2, <2>3 DEF Loose, Watched, RecvMembers, SendMembers, AuthMembers, HostMembers
<1>7. ASSUME AppendPsk PROVE Stepped
  <2> DEFINE c == [conn EXCEPT !.psk_type = "EXTERNAL", !.psks = 1, !.mem = @ \cup {"psk_params"}]
  <2>2. Allocating("append_psk", Fail(World)) \/ Allocating("append_psk", Set(c)) BY <1>7 DEF AppendPsk
  <2>3. ConnBut(c, conn, {"psk_type", "psks", "mem"}) /\ c.mem = conn.mem \cup {"psk_params"}
    BY MembersAre DEF Shape, ConnBut
  <2> HIDE DEF c
  <2> QED BY <1>4, <1>5, <2>2, <2>3 DEF Loose, Watched, RecvMembers, SendMembers, AuthMembers, HostMembers
<1>8. ASSUME SetServerName PROVE Stepped
  <2>1. PICK name : Call("set_server_name",
                         IF conn.mode # "CLIENT" THEN Fail(World)
                         ELSE Set([conn EXCEPT !.server_name = name \o SubSeq(@, Len(name) + 1, Len(@))]))
    BY <1>8, Zenon DEF SetServerName
  <2> DEFINE x == name \o SubSeq(conn.server_name, Len(name) + 1, Len(conn.server_name))
             c == [conn EXCEPT !.server_name = x]
  <2>2. Call("set_server_name", Fail(World)) \/ Call("set_server_name", Set(c)) BY <2>1, Zenon
  <2> HIDE DEF x
  <2>3. ConnBut(c, conn, {"server_name"}) /\ c.mem = conn.mem
    BY MembersAre DEF Shape, ConnBut
  <2> HIDE DEF c
  <2> QED BY <1>4, <1>5, <2>2, <2>3 DEF Loose, Watched, RecvMembers, SendMembers, AuthMembers, HostMembers
<1>9. ASSUME SetOther PROVE Stepped
  <2> DEFINE a == [conn EXCEPT !.context = "app"]
             b == [conn EXCEPT !.blinding = "SELF_SERVICE"]
             c == [conn EXCEPT !.mem = @ \cup {"application_protocols_overridden"}]
             d == [conn EXCEPT !.mem = @ \cup {"our_quic"}]
  <2>1. \/ Call("set_ctx", Set(a)) \/ Call("set_blinding", Set(b))
        \/ Allocating("set_protocols", Set(c)) \/ Allocating("set_quic_parameters", Set(d))
    BY <1>9, Zenon DEF SetOther
  <2>2. /\ ConnBut(a, conn, {"context"}) /\ a.mem = conn.mem
        /\ ConnBut(b, conn, {"blinding"}) /\ b.mem = conn.mem
        /\ ConnBut(c, conn, {"mem"}) /\ c.mem = conn.mem \cup {"application_protocols_overridden"}
        /\ ConnBut(d, conn, {"mem"}) /\ d.mem = conn.mem \cup {"our_quic"}
    BY MembersAre DEF Shape, ConnBut
  <2> HIDE DEF a, b, c, d
  <2>3. CASE Call("set_ctx", Set(a))
    BY <1>4, <2>2, <2>3 DEF Loose, Watched, RecvMembers, SendMembers, AuthMembers, HostMembers
  <2>4. CASE Call("set_blinding", Set(b))
    BY <1>4, <2>2, <2>4 DEF Loose, Watched, RecvMembers, SendMembers, AuthMembers, HostMembers
  <2>5. /\ {"mem"} \in SUBSET Loose /\ "set_protocols" \notin Watched /\ "set_quic_parameters" \notin Watched
        /\ {"mem"} \cap (RecvMembers \cup SendMembers \cup AuthMembers \cup HostMembers) \subseteq {"write_fd_broken"}
    BY DEF Loose, Watched, RecvMembers, SendMembers, AuthMembers, HostMembers
  <2>6. CASE Allocating("set_protocols", Set(c)) BY <1>4, <2>2, <2>5, <2>6
  <2>7. CASE Allocating("set_quic_parameters", Set(d)) BY <1>4, <2>2, <2>5, <2>7
  <2> QED BY <2>1, <2>3, <2>4, <2>6, <2>7
<1> QED BY <1>2, <1>3, <1>6, <1>7, <1>8, <1>9

\* A world that differs in what I/O needs only.
LEMMA IoIsTame ==
    ASSUME Shape, Holdings, conn.alive, NEW v,
           SameBut(v, World, RecvMembers \cup SendMembers), Owns(v.conn, DOMAIN v.contexts)
    PROVE  Tame(v.conn, DOMAIN v.contexts)
<1>1. World.conn = conn BY WorldIs
<1>2. ConnBut(v.conn, conn, Loose) BY <1>1 DEF SameBut, IsWorld, ConnBut, Loose, RecvMembers, SendMembers
<1>3. (\A m \in AuthMembers \cup HostMembers : v.conn[m] = conn[m]) /\ v.conn.mem = conn.mem
  BY <1>1, MembersAre DEF SameBut, RecvMembers, SendMembers, AuthMembers, HostMembers
<1> QED BY <1>2, <1>3 DEF Tame, Holdings, MemoryRight

\* The calls that set descriptors and callbacks.
LEMMA IoSteps ==
    ASSUME Shape, Holdings
    PROVE  /\ SetFd => Stepped
           /\ SetCallbacks => Stepped
           /\ UseCorkedIo => Stepped
           /\ Receive => Stepped
           /\ BreakPipe => Stepped
           /\ ReleaseBuffers => Stepped
           /\ FreeHandshake => Stepped
<1>1. /\ IsWorld(World) /\ World.ok /\ World.conn = conn /\ World.contexts = contexts
      /\ Owns(World.conn, DOMAIN World.contexts)
  BY WorldIs DEF Holdings
<1>2. ASSUME NEW op, NEW w, Call(op, w) \/ Allocating(op, w) PROVE conn.alive /\ MemoryRight(conn)
  BY <1>2 DEF Call, Allocating, Usable, Holdings
<1>3. ASSUME NEW op, op \notin Watched, NEW v, Call(op, v) \/ Allocating(op, v),
             SameBut(v, World, RecvMembers) \/ SameBut(v, World, SendMembers),
             Owns(v.conn, DOMAIN v.contexts)
      PROVE  Stepped
  <2>1. SameBut(v, World, RecvMembers \cup SendMembers) BY <1>3 DEF SameBut
  <2>2. Tame(v.conn, DOMAIN v.contexts) BY <1>2, <1>3, <2>1, IoIsTame
  <2> QED BY <1>3, <2>2, CallSteps, AllocatingSteps
<1>4. ASSUME SetFd PROVE Stepped
  <2>1. PICK fd : \/ Allocating("set_read_fd", s2n_connection_set_read_fd(World, fd))
                  \/ Allocating("set_write_fd", s2n_connection_set_write_fd(World, fd))
    BY <1>4 DEF SetFd
  <2> DEFINE r == s2n_connection_set_read_fd(World, fd)
             s == s2n_connection_set_write_fd(World, fd)
  <2>2. SameBut(r, World, RecvMembers) /\ Owns(r.conn, DOMAIN r.contexts) BY <1>1, SetReadFdOwns
  <2>3. SameBut(s, World, SendMembers) /\ Owns(s.conn, DOMAIN s.contexts) BY <1>1, SetWriteFdOwns
  <2>4. Allocating("set_read_fd", r) \/ Allocating("set_write_fd", s) BY <2>1
  <2> HIDE DEF r, s
  <2> QED BY <1>3, <2>2, <2>3, <2>4 DEF Watched
<1>5. ASSUME SetCallbacks PROVE Stepped
  <2> DEFINE a == s2n_connection_set_recv_cb(World, "app")
             b == s2n_connection_set_recv_ctx(World, AppContext)
             c == s2n_connection_set_send_cb(World, "app")
             d == s2n_connection_set_send_ctx(World, AppContext)
  <2>1. \/ Call("set_recv_cb", a) \/ Call("set_recv_ctx", b)
        \/ Call("set_send_cb", c) \/ Call("set_send_ctx", d)
    BY <1>5, Zenon DEF SetCallbacks
  <2>2. /\ SameBut(a, World, RecvMembers) /\ Owns(a.conn, DOMAIN a.contexts)
        /\ SameBut(b, World, RecvMembers) /\ Owns(b.conn, DOMAIN b.contexts)
        /\ SameBut(c, World, SendMembers) /\ Owns(c.conn, DOMAIN c.contexts)
        /\ SameBut(d, World, SendMembers) /\ Owns(d.conn, DOMAIN d.contexts)
    BY <1>1, SetCallbacksOwns
  <2> HIDE DEF a, b, c, d
  <2>3. CASE Call("set_recv_cb", a) BY <1>3, <2>2, <2>3 DEF Watched
  <2>4. CASE Call("set_recv_ctx", b) BY <1>3, <2>2, <2>4 DEF Watched
  <2>5. CASE Call("set_send_cb", c) BY <1>3, <2>2, <2>5 DEF Watched
  <2>6. CASE Call("set_send_ctx", d) BY <1>3, <2>2, <2>6 DEF Watched
  <2> QED BY <2>1, <2>3, <2>4, <2>5, <2>6
<1>6. ASSUME NEW S \in SUBSET Loose, NEW op, op \notin Watched, NEW w, Call(op, w),
             ConnBut(w.conn, conn, S), w.contexts = contexts, MemoryRight(w.conn),
             S \cap (RecvMembers \cup SendMembers \cup AuthMembers \cup HostMembers) \subseteq {"write_fd_broken"}
      PROVE  Stepped
  <2>1. conn.alive BY <1>2, <1>6
  <2>2. Tame(w.conn, DOMAIN w.contexts) BY <1>6, <2>1, PlainIsTame
  <2> QED BY <1>6, <2>2, CallSteps
<1>7. ASSUME UseCorkedIo PROVE Stepped
  <2> DEFINE w == s2n_connection_use_corked_io(World)
  <2>1. Call("use_corked_io", w) BY <1>7 DEF UseCorkedIo
  <2>2. conn.alive /\ MemoryRight(conn) BY <1>2, <2>1
  <2>3. w.contexts = contexts /\ w.conn \in {conn, [conn EXCEPT !.corked_io = TRUE]}
    BY <1>1 DEF s2n_connection_use_corked_io, Fail, IsWorld, WorldFields
  <2> HIDE DEF w
  <2>4. ConnBut(w.conn, conn, {"corked_io"}) /\ w.conn.mem = conn.mem
    BY <2>3, MembersAre DEF Shape, ConnBut
  <2>5. MemoryRight(w.conn) BY <2>2, <2>4 DEF MemoryRight
  <2> QED BY <1>6, <2>1, <2>3, <2>4, <2>5 DEF Loose, Watched, RecvMembers, SendMembers, AuthMembers, HostMembers
<1>8. ASSUME Receive PROVE Stepped
  <2> DEFINE c == [conn EXCEPT !.unread = ~@, !.mem = @ \cup {"in", "out"}]
  <2>1. Call("recv", Set(c)) BY <1>8 DEF Receive
  <2>2. conn.alive /\ MemoryRight(conn) BY <1>2, <2>1
  <2>3. ConnBut(c, conn, {"unread", "mem"}) /\ c.mem = conn.mem \cup {"in", "out"}
    BY MembersAre DEF Shape, ConnBut
  <2>4. Set(c).conn = c /\ Set(c).contexts = contexts BY <2>3, WorldIs DEF ConnBut
  <2> HIDE DEF c
  <2>5. MemoryRight(c) BY <2>2, <2>3 DEF MemoryRight, Memory, FreedMembers
  <2> QED BY <1>6, <2>1, <2>3, <2>4, <2>5 DEF Loose, Watched, RecvMembers, SendMembers, AuthMembers, HostMembers
<1>9. ASSUME BreakPipe PROVE Stepped
  <2> DEFINE c == [conn EXCEPT !.write_fd_broken = TRUE]
             w == Fail(Set(c))
  <2>1. Call("send", w) BY <1>9 DEF BreakPipe
  <2>2. conn.alive /\ MemoryRight(conn) BY <1>2, <2>1
  <2>3. ConnBut(c, conn, {"write_fd_broken"}) /\ c.mem = conn.mem BY MembersAre DEF Shape, ConnBut
  <2>4. w.conn = c /\ w.contexts = contexts BY <1>1 DEF Set, Fail, IsWorld, WorldFields
  <2> HIDE DEF c, w
  <2>5. MemoryRight(c) BY <2>2, <2>3 DEF MemoryRight
  <2> QED BY <1>6, <2>1, <2>3, <2>4, <2>5 DEF Loose, Watched, RecvMembers, SendMembers, AuthMembers, HostMembers
<1>10. ASSUME ReleaseBuffers PROVE Stepped
  <2> DEFINE w == s2n_connection_release_buffers(World)
  <2>1. Call("release_buffers", w) BY <1>10 DEF ReleaseBuffers
  <2>2. conn.alive /\ MemoryRight(conn) BY <1>2, <2>1
  <2>3. ASSUME NEW n
        PROVE  /\ ConnBut(Free(World, n).conn, conn, {"mem"}) /\ Free(World, n).contexts = contexts
               /\ Free(World, n).conn.mem = conn.mem \ n
               /\ Fail(Free(World, n)).conn = Free(World, n).conn
               /\ Fail(Free(World, n)).contexts = Free(World, n).contexts
    <3> DEFINE v == Free(World, n)
    <3>1. SameBut(v, World, {"mem"}) /\ v.contexts = World.contexts /\ v.conn.mem = World.conn.mem \ n
      BY <1>1, MemoryFrame
    <3> HIDE DEF v
    <3>2. ConnBut(v.conn, conn, {"mem"}) BY <1>1, <3>1 DEF SameBut, IsWorld, ConnBut
    <3>3. Fail(v).conn = v.conn /\ Fail(v).contexts = v.contexts
      BY <3>1 DEF Fail, SameBut, IsWorld, WorldFields
    <3> QED BY <1>1, <3>1, <3>2, <3>3 DEF v
  <2>4. w = Fail(Free(World, {"out"})) \/ w = Free(World, {"in", "out"})
    BY DEF s2n_connection_release_buffers
  <2> HIDE DEF w
  <2>5. PICK n \in {{"out"}, {"in", "out"}} :
            ConnBut(w.conn, conn, {"mem"}) /\ w.contexts = contexts /\ w.conn.mem = conn.mem \ n
    BY <2>3, <2>4
  <2>6. MemoryRight(w.conn) BY <2>2, <2>5 DEF MemoryRight
  <2> QED BY <1>6, <2>1, <2>5, <2>6 DEF Loose, Watched, RecvMembers, SendMembers, AuthMembers, HostMembers
<1>11. ASSUME FreeHandshake PROVE Stepped
  <2> DEFINE n == {"hashes", "prf_space", "handshake_io", "client_hello", "client_ticket", "status_response",
                   "our_quic", "application_protocols_overridden", "cookie"}
             w == Free(World, n)
  <2>1. Call("free_handshake", w) BY <1>11 DEF FreeHandshake, s2n_connection_free_handshake
  <2>2. conn.alive /\ MemoryRight(conn) BY <1>2, <2>1
  <2>3. SameBut(w, World, {"mem"}) /\ w.contexts = World.contexts /\ w.conn.mem = World.conn.mem \ n
    BY <1>1, MemoryFrame
  <2> HIDE DEF w
  <2>4. ConnBut(w.conn, conn, {"mem"}) BY <1>1, <2>3 DEF SameBut, IsWorld, ConnBut
  <2>5. MemoryRight(w.conn) BY <1>1, <2>2, <2>3 DEF MemoryRight
  <2> QED BY <1>1, <1>6, <2>1, <2>3, <2>4, <2>5 DEF Loose, Watched, RecvMembers, SendMembers, AuthMembers, HostMembers
<1> QED BY <1>4, <1>5, <1>7, <1>8, <1>9, <1>10, <1>11

\* Messages, data and buffers.
LEMMA HandshakeSteps ==
    ASSUME Shape, Holdings, Handshake
    PROVE  Stepped
<1>1. PICK to : /\ Usable
                /\ Did("negotiate",
                       [s2n_advance_message(World, to = "WRITING")
                          EXCEPT !.conn.handshake = to,
                                 !.conn.mem = (@ \cup HelloMemory \cup IF conn.handshake = "IDLE" THEN {} ELSE ExchangeMemory)
                                              \ IF to = "DONE" THEN {"handshake_io"} ELSE {}])
  BY Zenon DEF Handshake
<1>2. UNCHANGED <<configs, now, killed>> BY DEF Handshake, Timeless
<1>3. conn.alive /\ MemoryRight(conn) BY <1>1 DEF Usable, Holdings
<1> DEFINE a == s2n_advance_message(World, to = "WRITING")
           more == HelloMemory \cup IF conn.handshake = "IDLE" THEN {} ELSE ExchangeMemory
           less == IF to = "DONE" THEN {"handshake_io"} ELSE {}
           w == [a EXCEPT !.conn.handshake = to,
                          !.conn.mem = (@ \cup HelloMemory \cup IF conn.handshake = "IDLE" THEN {} ELSE ExchangeMemory)
                                       \ IF to = "DONE" THEN {"handshake_io"} ELSE {}]
<1>4. Did("negotiate", w) BY <1>1
<1>5. SameConn(a, World) BY WorldIs, RestoreFrame
<1> HIDE DEF a
<1>6. IsWorld(a) /\ a.conn = conn /\ DOMAIN a.contexts = DOMAIN contexts
  BY <1>5, WorldIs DEF SameConn
<1>7. w.contexts = a.contexts /\ w.conn = [conn EXCEPT !.handshake = to, !.mem = (conn.mem \cup more) \ less]
  BY <1>6, MembersAre DEF IsWorld, WorldFields
<1>8. conn' = w.conn /\ contexts' = w.contexts /\ last' = Other BY <1>4 DEF Did, Watched
<1> HIDE DEF w
<1>9. more \subseteq Memory /\ less \subseteq {"handshake_io"}
  BY DEF Memory, HelloMemory, ExchangeMemory, FreedMembers, WipedKeys
<1> HIDE DEF more, less
<1>10. ConnBut(w.conn, conn, {"handshake", "mem"}) /\ w.conn.mem = (conn.mem \cup more) \ less
  BY <1>7, MembersAre DEF Shape, ConnBut
<1>11. MemoryRight(w.conn) BY <1>3, <1>9, <1>10 DEF MemoryRight
<1>12. Tame(w.conn, DOMAIN contexts)
  BY <1>3, <1>10, <1>11, PlainIsTame DEF Loose, RecvMembers, SendMembers, AuthMembers, HostMembers
<1>13. Tame(conn', DOMAIN contexts') BY <1>6, <1>7, <1>8, <1>12
<1> QED BY <1>1, <1>2, <1>8, <1>13 DEF Stepped, Other

\* s2n_shutdown.
LEMMA ShutdownSteps ==
    ASSUME Shape, Holdings, Shutdown
    PROVE  Stepped /\ ConnBut(conn', conn, {"unread"})
<1> DEFINE c == [conn EXCEPT !.unread = FALSE]
<1>1. \/ Call("shutdown", World) \/ Call("shutdown", Fail(World)) \/ Call("shutdown", Set(c))
  BY DEF Shutdown
<1>2. Usable /\ UNCHANGED <<configs, now, killed>> BY <1>1 DEF Call, Timeless
<1>3. conn.alive /\ MemoryRight(conn) BY <1>2 DEF Usable, Holdings
<1>4. ConnBut(c, conn, {"unread"}) /\ c.mem = conn.mem BY MembersAre DEF Shape, ConnBut
<1>5. contexts' = contexts /\ conn' \in {conn, c} /\ last'.op = "shutdown" /\ last'.ok \in BOOLEAN
  <2>1. /\ World.conn = conn /\ World.contexts = contexts /\ World.ok = TRUE
        /\ Fail(World).conn = conn /\ Fail(World).contexts = contexts /\ Fail(World).ok = FALSE
        /\ Set(c).conn = c /\ Set(c).contexts = contexts /\ Set(c).ok = TRUE
    BY DEF World, Fail, Set
  <2> HIDE DEF c
  <2>2. ASSUME NEW w, Call("shutdown", w)
        PROVE  contexts' = w.contexts /\ conn' = w.conn /\ last' = [op |-> "shutdown", ok |-> w.ok]
    BY <2>2 DEF Call, Did, Watched
  <2>3. PICK w : w.contexts = contexts /\ w.conn \in {conn, c} /\ w.ok \in BOOLEAN /\ Call("shutdown", w)
    BY <1>1, <2>1
  <2> QED BY <2>2, <2>3
<1> HIDE DEF c
<1>6. ConnBut(conn, conn, {"unread"}) BY DEF Shape, ConnBut
<1>7. ConnBut(conn', conn, {"unread"}) /\ conn'.mem = conn.mem BY <1>4, <1>5, <1>6
<1>8. MemoryRight(conn') BY <1>3, <1>7 DEF MemoryRight
<1>9. Tame(conn', DOMAIN contexts)
  BY <1>3, <1>7, <1>8, PlainIsTame DEF Loose, RecvMembers, SendMembers, AuthMembers, HostMembers
<1>10. Tame(conn', DOMAIN contexts') BY <1>5, <1>9
<1> QED BY <1>2, <1>5, <1>7, <1>10 DEF Stepped

Ordinary ==
    \/ SetClientAuthType \/ SetVerifyHost \/ SetPskMode \/ AppendPsk
    \/ SetFd \/ SetCallbacks \/ UseCorkedIo \/ SetServerName \/ SetOther
    \/ Handshake \/ Receive \/ BreakPipe \/ ReleaseBuffers \/ FreeHandshake \/ Shutdown

\* All of them together.
LEMMA OrdinarySteps ==
    ASSUME Shape, Holdings, Ordinary
    PROVE  Stepped
BY SettersStep, IoSteps, HandshakeSteps, ShutdownSteps DEF Ordinary

-----------------------------------------------------------------------------
(* The effect of the other calls.                                          *)

\* The config a connection has is one it accepts.
Settled ==
    /\ configs["default"] = s2n_config_init
    /\ conn.alive => conn.config # NULL /\ ~Refused(conn, conn.config) /\ ~NoKey(conn.config)

\* What s2n_connection_new does to the state.
LEMMA NewEffect ==
    ASSUME Shape, Holdings, Settled, New
    PROVE  /\ \E mode : conn' = Blank(mode, "default")
           /\ DOMAIN contexts' = {} /\ last' = Other /\ killed' = 0 /\ UNCHANGED <<configs, now>>
           /\ corked' = sockets /\ (sockets \in [Fds -> BOOLEAN] => sockets' = sockets)
<1>1. PICK mode : Did("new", s2n_connection_new(World, mode)) BY DEF New
<1> DEFINE v == s2n_connection_new(World, mode)
<1>2. DOMAIN contexts = {} BY DEF New, Shape, Holdings
<1>3. IsWorld(World) /\ World.ok /\ DOMAIN World.contexts = {} /\ World.sockets = sockets BY <1>2, WorldIs
<1>4. /\ IsWorld(v) /\ v.ok /\ DOMAIN v.contexts = {} /\ v.conn = Blank(mode, "default")
      /\ sockets \in [Fds -> BOOLEAN] => v.sockets = sockets
  BY <1>3, NewIs DEF Settled
<1> HIDE DEF v
<1>5. conn' = v.conn /\ contexts' = v.contexts /\ sockets' = v.sockets /\ last' = Other BY <1>1 DEF Did, Watched, v
<1> QED BY <1>4, <1>5 DEF New

\* What s2n_connection_set_config does to it.
LEMMA SetConfigEffect ==
    ASSUME Shape, Holdings, SetConfig
    PROVE  /\ Usable
           /\ \E id \in AppIds : conn' = ConfigConn(conn, id) /\ (last'.ok <=> Fits(conn, id))
           /\ contexts' = contexts /\ last'.op = "set_config" /\ UNCHANGED <<configs, now, killed, sockets, corked>>
<1>1. PICK id \in AppIds : Call("set_config", s2n_connection_set_config(World, id)) BY DEF SetConfig
<1> DEFINE v == s2n_connection_set_config(World, id)
<1>2. IsWorld(World) /\ World.ok /\ World.conn = conn /\ World.contexts = contexts /\ World.sockets = sockets
  BY WorldIs
<1>3. /\ v.contexts = contexts /\ v.sockets = sockets /\ v.conn = ConfigConn(conn, id)
      /\ Fits(conn, id) => v.ok
      /\ ~Fits(conn, id) => ~v.ok
  BY <1>2, SetConfigIs
<1> HIDE DEF v
<1>4. conn' = v.conn /\ contexts' = v.contexts /\ sockets' = v.sockets /\ last' = [op |-> "set_config", ok |-> v.ok]
  BY <1>1 DEF Call, Did, Watched, v
<1>5. Usable /\ UNCHANGED <<configs, now, killed, corked>> BY <1>1 DEF Call, Timeless
<1> QED BY <1>3, <1>4, <1>5

\* What s2n_connection_wipe does to it.
LEMMA WipeEffect ==
    ASSUME Shape, Holdings, Wipe
    PROVE  /\ conn.alive /\ last'.op = "wipe" /\ UNCHANGED <<configs, now, corked>>
           /\ \/ /\ last'.ok /\ killed' = 0 /\ DOMAIN contexts' = {}
                 /\ conn' = Blank(conn.mode, conn.config)
              \/ /\ ~last'.ok /\ killed' = killed
                 /\ Owns(conn', DOMAIN contexts') /\ MemoryRight(conn')
                 /\ ConnBut(conn', conn, WipeMembers)
           /\ Restorable(conn, contexts, sockets, corked) =>
                IF last'.ok THEN sockets' = corked ELSE Restorable(conn', contexts', sockets', corked)
<1>1. PICK fault : Did("wipe", s2n_connection_wipe(World, fault))
                   /\ killed' = IF s2n_connection_wipe(World, fault).ok THEN 0 ELSE killed
  BY DEF Wipe
<1> DEFINE r == s2n_connection_wipe(World, fault)
<1>2. conn.alive /\ UNCHANGED <<configs, now, corked>> BY DEF Wipe
<1>3. /\ IsWorld(World) /\ World.ok /\ World.conn = conn /\ World.contexts = contexts
      /\ Owns(World.conn, DOMAIN World.contexts) /\ MemoryRight(World.conn) /\ World.sockets = sockets
  BY <1>2, WorldIs DEF Holdings
<1>4. \/ r.ok /\ DOMAIN r.contexts = {} /\ r.conn = Blank(conn.mode, conn.config)
      \/ ~r.ok /\ Owns(r.conn, DOMAIN r.contexts) /\ SameBut(r, World, WipeMembers) /\ MemoryRight(r.conn)
  BY <1>3, WipeIs
<1>5. Restorable(conn, contexts, sockets, corked) =>
        IF r.ok THEN r.sockets = corked ELSE Restorable(r.conn, r.contexts, r.sockets, corked)
  BY <1>3, WipeRestorable
<1>6. conn' = r.conn /\ contexts' = r.contexts /\ sockets' = r.sockets /\ last' = [op |-> "wipe", ok |-> r.ok]
  BY <1>1 DEF Did, Watched
<1>7. killed' = IF r.ok THEN 0 ELSE killed BY <1>1
<1> HIDE DEF r
<1>8. SameBut(r, World, WipeMembers) => ConnBut(r.conn, conn, WipeMembers)
  BY <1>3 DEF SameBut, IsWorld, ConnBut
<1> QED BY <1>2, <1>4, <1>5, <1>6, <1>7, <1>8

\* What s2n_connection_free does to it.
LEMMA DestroyEffect ==
    ASSUME Shape, Holdings, Destroy
    PROVE  /\ conn' = [Freed EXCEPT !.mem = {}] /\ DOMAIN contexts' = {}
           /\ last' = Other /\ UNCHANGED <<configs, now, killed, sockets, corked>>
<1> DEFINE v == s2n_connection_free(World)
<1>1. Did("free", v) /\ conn.alive /\ UNCHANGED <<configs, now, killed, corked>> BY DEF Destroy, Timeless
<1>2. /\ IsWorld(World) /\ World.ok /\ World.conn = conn /\ World.contexts = contexts
      /\ Owns(World.conn, DOMAIN World.contexts) /\ World.conn.mem \subseteq Memory
      /\ World.sockets = sockets
  BY <1>1, WorldIs DEF Holdings, MemoryRight
<1>3. DOMAIN v.contexts = {} /\ v.conn = [Freed EXCEPT !.mem = {}] /\ v.sockets = sockets BY <1>2, FreeIs
<1> HIDE DEF v
<1> QED BY <1>1, <1>3 DEF Did, Watched

\* An error closes the connection, and one that kills it starts the delay; a kill
\* that fails leaves the timer alone and shortens no delay below the least one.
LEMMA ErrorEffect ==
    ASSUME Shape, Holdings, Error
    PROVE  /\ Usable /\ UNCHANGED <<configs, contexts, sockets, corked>> /\ last' = Other
           /\ ConnBut(conn', conn, {"closed", "delay", "write_timer"})
           /\ \/ /\ killed' = killed /\ now' = now /\ conn'.write_timer = conn.write_timer
                 /\ conn'.delay = conn.delay \/ conn'.delay \in MinDelay .. MaxDelay
              \/ /\ killed' = now /\ conn'.write_timer = now
                 /\ conn'.delay \in MinDelay .. MaxDelay
                 /\ now' \in {now, now + conn'.delay}
<1>1. PICK error \in {"BLOCKED", "CANCELLED", "OTHER"}, delay \in MinDelay .. MaxDelay,
           fault \in {NULL, "random", "clock"} :
        /\ Usable
        /\ conn' = IF IsKilling(error) THEN s2n_connection_kill(conn, delay, fault)
                   ELSE [conn EXCEPT !.closed = @ \/ error = "CANCELLED"]
        /\ killed' = IF IsKilling(error) /\ fault = NULL THEN now ELSE killed
        /\ now' = IF IsKilling(error) /\ fault = NULL /\ conn.blinding = "BUILT_IN" THEN now + delay ELSE now
        /\ last' = Other
        /\ UNCHANGED <<configs, contexts, sockets, corked>>
  BY DEF Error
<1>2. CASE ~IsKilling(error)
  <2>1. conn' = [conn EXCEPT !.closed = @ \/ error = "CANCELLED"] /\ killed' = killed /\ now' = now
    BY <1>1, <1>2
  <2>2. /\ ConnBut(conn', conn, {"closed", "delay", "write_timer"})
        /\ conn'.delay = conn.delay /\ conn'.write_timer = conn.write_timer
    BY <2>1, MembersAre DEF Shape, ConnBut
  <2> QED BY <1>1, <2>1, <2>2
<1>3. CASE IsKilling(error) /\ fault = NULL
  <2>1. /\ conn' = [conn EXCEPT !.closed = TRUE, !.delay = delay, !.write_timer = now]
        /\ killed' = now /\ now' \in {now, now + delay}
    BY <1>1, <1>3 DEF s2n_connection_kill, NULL
  <2>2. /\ ConnBut(conn', conn, {"closed", "delay", "write_timer"})
        /\ conn'.delay = delay /\ conn'.write_timer = now
    BY <2>1, MembersAre DEF Shape, ConnBut
  <2> QED BY <1>1, <2>1, <2>2
<1>4. CASE IsKilling(error) /\ fault # NULL
  <2> DEFINE d == IF fault = "random" THEN conn.delay ELSE delay
             t == conn.write_timer
  <2>1. d = conn.delay \/ d \in MinDelay .. MaxDelay OBVIOUS
  <2>2. /\ conn' = [conn EXCEPT !.closed = TRUE, !.delay = d, !.write_timer = t]
        /\ killed' = killed /\ now' = now
    BY <1>1, <1>4 DEF s2n_connection_kill
  <2> HIDE DEF d, t
  <2>3. ConnBut(conn', conn, {"closed", "delay", "write_timer"}) /\ conn'.delay = d /\ conn'.write_timer = t
    BY <2>2, MembersAre DEF Shape, ConnBut
  <2> QED BY <1>1, <2>1, <2>2, <2>3 DEF t
<1> QED BY <1>2, <1>3, <1>4

-----------------------------------------------------------------------------
(* The invariants.                                                         *)

Base == Shape /\ Holdings /\ Settled

\* Every step keeps the shape, the holdings and the config.
LEMMA BaseStep == Base /\ [LifeNext]_lvars => Base'
<1> SUFFICES ASSUME Base, [LifeNext]_lvars PROVE Base' OBVIOUS
<1>1. Shape /\ Holdings /\ Settled BY DEF Base
<1>2. configs' = configs /\ ConnBut(conn', conn, Members \ {"alive", "mode", "config"})
        /\ Owns(conn', DOMAIN contexts') /\ conn.alive /\ MemoryRight(conn') => Base'
  <2> SUFFICES ASSUME configs' = configs, ConnBut(conn', conn, Members \ {"alive", "mode", "config"}),
                      Owns(conn', DOMAIN contexts'), conn.alive, MemoryRight(conn')
               PROVE  Base'
    OBVIOUS
  <2>1. conn'.alive = conn.alive /\ conn'.mode = conn.mode /\ conn'.config = conn.config
    BY MembersAre DEF ConnBut
  <2>2. Shape' BY <1>1, <2>1 DEF Shape, ConnBut
  <2>3. Holdings' BY <2>1 DEF Holdings
  <2>4. Settled' BY <1>1, <2>1 DEF Settled, Refused, NoKey
  <2> QED BY <2>2, <2>3, <2>4 DEF Base
<1>3. ASSUME NEW mode, NEW id, Suits(mode, id), conn' = Blank(mode, id), DOMAIN contexts' = {}, configs' = configs
      PROVE  Base'
  <2> DEFINE b == Blank(mode, id)
  <2>0. IsBlank(b, mode, id) BY <1>3, BlankIs
  <2> HIDE DEF b
  <2>1. /\ DOMAIN conn' = Members /\ conn'.alive = TRUE /\ conn'.mode = mode /\ conn'.config = id
        /\ Owns(conn', DOMAIN contexts') /\ MemoryRight(conn')
    BY <1>3, <2>0 DEF b, IsBlank, Owns, Owned
  <2>2. Shape' BY <2>1 DEF Shape
  <2>3. Holdings' BY <2>1 DEF Holdings
  <2>4. Zeroed(mode).mode = mode BY ZeroedIs
  <2>5. Settled' BY <1>1, <1>3, <2>1, <2>4 DEF Settled, Refused, NoKey, Suits
  <2> QED BY <2>2, <2>3, <2>5 DEF Base
<1>4. CASE New
  <2>1. PICK mode : conn' = Blank(mode, "default") BY <1>1, <1>4, NewEffect
  <2>2. DOMAIN contexts' = {} /\ configs' = configs BY <1>1, <1>4, NewEffect
  <2>3. Suits(mode, "default") BY <1>1, DefaultFits DEF Settled, Suits, NULL
  <2> QED BY <1>3, <2>1, <2>2, <2>3
<1>5. CASE SetConfig
  <2>1. /\ Usable /\ contexts' = contexts /\ configs' = configs
        /\ \E id \in AppIds : conn' = ConfigConn(conn, id)
    BY <1>1, <1>5, SetConfigEffect
  <2>2. PICK id \in AppIds : conn' = ConfigConn(conn, id) BY <2>1
  <2>3. conn.alive /\ MemoryRight(conn) BY <1>1, <2>1 DEF Usable, Holdings
  <2>4. ConnBut(conn', conn, ConfigMembers) BY <1>1, <2>2, ConfigConnFrame DEF Shape
  <2>5. conn'.mem \in {conn.mem, conn.mem \cup {"x509_validator"}} BY <1>1, <2>2, ConfigMemory DEF Shape
  <2>6. MemoryRight(conn') BY <2>3, <2>5 DEF MemoryRight, Memory, FreedMembers
  <2>7. /\ conn'.managed_recv_io = conn.managed_recv_io /\ conn'.recv_io_context = conn.recv_io_context
        /\ conn'.managed_send_io = conn.managed_send_io /\ conn'.send_io_context = conn.send_io_context
        /\ conn'.mode = conn.mode /\ conn'.alive = conn.alive
    BY <2>4, MembersAre DEF ConnBut, ConfigMembers
  <2>8. Owns(conn', DOMAIN contexts') BY <1>1, <2>1, <2>7 DEF Holdings, Owns, Owned
  <2>9. conn'.config # NULL /\ ~Refused(conn, conn'.config) /\ ~NoKey(conn'.config)
    <3>1. CASE conn' = conn BY <1>1, <2>3, <3>1 DEF Settled
    <3>2. CASE conn' # conn /\ NoKey(id)
      <4>1. conn' = Taken(conn, id) BY <2>2, <3>2 DEF ConfigConn
      <4>2. conn'.config = conn.config
        <5> DEFINE a == s2n_x509_validator_wipe(conn)
                   b == TakeValidator(a, id)
        <5>1. ConnBut(a, conn, {"x509_validator", "mem"}) BY <1>1, ValidatorFrame DEF Shape
        <5>2. ConnBut(b, a, {"x509_validator", "mem", "verify_host_fn"}) BY <5>1, ValidatorFrame DEF ConnBut
        <5>3. ConnBut(conn', b, {"psk_type", "tickets_to_send"}) BY <4>1, <5>2, SettingsFrame DEF ConnBut, Taken
        <5> HIDE DEF a, b
        <5> QED BY <5>1, <5>2, <5>3, MembersAre DEF ConnBut
      <4> QED BY <1>1, <2>3, <4>2 DEF Settled
    <3>3. CASE conn' # conn /\ ~NoKey(id)
      <4>1. conn' = Accepted(conn, id) /\ ~Refused(conn, id) BY <2>2, <3>3 DEF ConfigConn
      <4>2. conn'.config = id BY <1>1, <4>1, AcceptedFrame DEF Shape
      <4> QED BY <3>3, <4>1, <4>2 DEF AppIds, NULL
    <3> QED BY <3>1, <3>2, <3>3
  <2> QED BY <1>1, <2>1, <2>3, <2>4, <2>6, <2>7, <2>8, <2>9
          DEF Base, Shape, Holdings, Settled, ConnBut, Refused, NoKey
<1>6. CASE Ordinary
  <2>1. Usable /\ Tame(conn', DOMAIN contexts') /\ configs' = configs BY <1>1, <1>6, OrdinarySteps DEF Stepped
  <2>2. ConnBut(conn', conn, Members \ {"alive", "mode", "config"})
    BY <2>1 DEF Tame, ConnBut, Loose
  <2> QED BY <1>2, <2>1, <2>2 DEF Usable, Tame
<1>7. CASE Error
  <2>1. Usable /\ configs' = configs /\ contexts' = contexts /\ ConnBut(conn', conn, {"closed", "delay", "write_timer"})
    BY <1>1, <1>7, ErrorEffect
  <2>2. conn.alive /\ MemoryRight(conn) BY <1>1, <2>1 DEF Usable, Holdings
  <2>3. /\ conn'.managed_recv_io = conn.managed_recv_io /\ conn'.recv_io_context = conn.recv_io_context
        /\ conn'.managed_send_io = conn.managed_send_io /\ conn'.send_io_context = conn.send_io_context
        /\ conn'.mem = conn.mem
    BY <2>1, MembersAre DEF ConnBut
  <2>4. Owns(conn', DOMAIN contexts') /\ MemoryRight(conn')
    BY <1>1, <2>1, <2>2, <2>3 DEF Holdings, Owns, Owned, MemoryRight
  <2>5. ConnBut(conn', conn, Members \ {"alive", "mode", "config"}) BY <2>1 DEF ConnBut
  <2> QED BY <1>2, <2>1, <2>2, <2>4, <2>5
<1>8. CASE Tick \/ UNCHANGED lvars
  <2>1. UNCHANGED <<configs, conn, contexts>> BY <1>8 DEF Tick, lvars
  <2> QED BY <1>1, <2>1 DEF Base, Shape, Holdings, Settled, Refused, NoKey, MemoryRight, Owns, Owned
<1>9. CASE Wipe
  <2>1. conn.alive /\ configs' = configs BY <1>1, <1>9, WipeEffect
  <2>2. CASE DOMAIN contexts' = {} /\ conn' = Blank(conn.mode, conn.config)
    <3>1. conn.config # NULL /\ ~Refused(conn, conn.config) /\ ~NoKey(conn.config) BY <1>1, <2>1 DEF Settled
    <3>2. Suits(conn.mode, conn.config) BY <3>1, ZeroedIs DEF Refused, Suits
    <3> QED BY <1>3, <2>1, <2>2, <3>2
  <2>3. CASE Owns(conn', DOMAIN contexts') /\ MemoryRight(conn') /\ ConnBut(conn', conn, WipeMembers)
    <3>1. ConnBut(conn', conn, Members \ {"alive", "mode", "config"})
      BY <2>3 DEF ConnBut, WipeMembers, RecvMembers, SendMembers
    <3> QED BY <1>2, <2>1, <2>3, <3>1
  <2> QED BY <1>1, <1>9, <2>2, <2>3, WipeEffect
<1>10. CASE Destroy
  <2>1. conn' = [Freed EXCEPT !.mem = {}] /\ DOMAIN contexts' = {} /\ configs' = configs
    BY <1>1, <1>10, DestroyEffect
  <2>2. /\ DOMAIN conn' = Members /\ conn'.alive = FALSE /\ conn'.mem = {}
        /\ conn'.managed_recv_io = FALSE /\ conn'.managed_send_io = FALSE
    BY <2>1 DEF Freed, Zeroed, Members
  <2> QED BY <1>1, <2>1, <2>2 DEF Base, Shape, Holdings, Settled, Owns, Owned
<1> QED BY <1>4, <1>5, <1>6, <1>7, <1>8, <1>9, <1>10 DEF LifeNext, Ordinary

\* They hold at first, with no setting of the connection's own.
LEMMA InitBase ==
    ASSUME LifeInit
    PROVE  Base /\ ~conn.verify_host_fn_overridden /\ (conn.alive => conn.config = "default")
<1>1. configs["default"] = s2n_config_init BY DEF LifeInit
<1> DEFINE n == NoWorld(corked)
           New2(mode) == s2n_connection_new(n, mode)
           Read(mode, fd) == s2n_connection_set_read_fd(New2(mode), fd)
           Write(mode, fd) == s2n_connection_set_write_fd(Read(mode, fd), fd)
<1>2. /\ IsWorld(n) /\ n.ok /\ DOMAIN n.contexts = {} /\ n.conn = Freed
      /\ n.conn.managed_recv_io = FALSE /\ n.conn.managed_send_io = FALSE /\ n.conn.mem = {}
      /\ n.conn.alive = FALSE /\ n.conn.verify_host_fn_overridden = FALSE
  BY DEF NoWorld, IsWorld, WorldFields, Freed, Zeroed, Members
<1>3. PICK w : /\ conn = w.conn /\ contexts = w.contexts
               /\ w = n \/ \E mode \in {"CLIENT", "SERVER"}, fd \in Fds : w = Write(mode, fd)
  BY DEF LifeInit
<1> HIDE DEF n
<1>4. CASE w = n
  <2>1. Shape BY <1>2, <1>3, <1>4 DEF Shape, IsWorld
  <2>2. Holdings BY <1>2, <1>3, <1>4 DEF Holdings, Owns, Owned
  <2>3. Settled BY <1>1, <1>2, <1>3, <1>4 DEF Settled
  <2> QED BY <1>2, <1>3, <1>4, <2>1, <2>2, <2>3 DEF Base
<1>5. ASSUME NEW mode, NEW fd, w = Write(mode, fd)
      PROVE  Base /\ ~conn.verify_host_fn_overridden /\ conn.config = "default"
  <2> DEFINE a == New2(mode)
             b == Read(mode, fd)
             k == Blank(mode, "default")
  <2>1. IsWorld(a) /\ a.ok /\ DOMAIN a.contexts = {} /\ a.conn = k BY <1>1, <1>2, NewIs
  <2>2. Suits(mode, "default") BY <1>1, DefaultFits DEF Suits, NULL
  <2>3. IsBlank(k, mode, "default") BY <2>2, BlankIs
  <2> HIDE DEF a, k
  <2>4. Owns(a.conn, DOMAIN a.contexts) BY <2>1, <2>3 DEF IsBlank, Owns, Owned
  <2>5. SameBut(b, a, RecvMembers) /\ Owns(b.conn, DOMAIN b.contexts)
    BY <2>1, <2>4, SetReadFdOwns DEF a
  <2>6. IsWorld(b) BY <2>5 DEF SameBut
  <2>7. w = s2n_connection_set_write_fd(b, fd) BY <1>5
  <2> HIDE DEF b
  <2>8. SameBut(w, b, SendMembers) /\ Owns(w.conn, DOMAIN w.contexts) BY <2>5, <2>6, <2>7, SetWriteFdOwns
  <2>9. /\ conn.alive = k.alive /\ conn.mode = k.mode /\ conn.config = k.config /\ conn.mem = k.mem
        /\ conn.verify_host_fn_overridden = k.verify_host_fn_overridden /\ DOMAIN conn = Members
    BY <1>3, <2>1, <2>5, <2>8, MembersAre DEF SameBut, IsWorld, RecvMembers, SendMembers
  <2>10. Shape /\ conn.alive = TRUE /\ conn.config = "default" /\ conn.verify_host_fn_overridden = FALSE
    BY <2>3, <2>9 DEF Shape, IsBlank
  <2>11. Holdings BY <1>3, <2>3, <2>8, <2>9, <2>10 DEF Holdings, IsBlank, MemoryRight
  <2>12. Settled BY <1>1, <2>10, DefaultFits DEF Settled, NULL
  <2> QED BY <2>10, <2>11, <2>12 DEF Base
<1> QED BY <1>3, <1>4, <1>5

(***************************************************************************)
(* Memory has one owner for every number of sockets, calls and failing     *)
(* allocations: the I/O contexts that exist are those the connection       *)
(* manages, whatever replaces them, and a connection that has been freed   *)
(* owns nothing (s2n_connection_set_read_fd, s2n_connection_wipe,          *)
(* s2n_connection_free).                                                   *)
(***************************************************************************)
THEOREM MemoryHasOneOwner == LifeSpec => []MemoryOwned
<1>1. LifeInit => Base BY InitBase
<1>2. Base => MemoryOwned BY DEF Base, Holdings, Owns, Owned, MemoryOwned
<1> QED BY <1>1, <1>2, BaseStep, PTL DEF LifeSpec

-----------------------------------------------------------------------------
(* Blinding.                                                               *)

\* While a killed connection lives, a delay it was given runs from then.
Timers ==
    /\ now \in Nat /\ killed \in Nat /\ killed <= now
    /\ conn.alive /\ killed # 0 =>
        conn.delay \in Nat /\ conn.delay >= MinDelay /\ conn.write_timer = killed

\* Every step keeps the timers, and a shutdown that succeeds comes late enough.
LEMMA TimersStep == Base /\ Timers /\ DelayEnforced /\ [LifeNext]_lvars => Timers' /\ DelayEnforced'
<1> SUFFICES ASSUME Base, Timers, DelayEnforced, [LifeNext]_lvars PROVE Timers' /\ DelayEnforced'
  OBVIOUS
<1>1. Shape /\ Holdings /\ Settled BY DEF Base
<1>2. CASE New
  <2>1. killed' = 0 /\ now' = now BY <1>1, <1>2, NewEffect
  <2> QED BY <2>1 DEF Timers, DelayEnforced
<1>3. CASE SetConfig
  <2>1. /\ Usable /\ now' = now /\ killed' = killed /\ last'.op = "set_config"
        /\ \E id \in AppIds : conn' = ConfigConn(conn, id)
    BY <1>1, <1>3, SetConfigEffect
  <2>2. ConnBut(conn', conn, ConfigMembers) BY <1>1, <2>1, ConfigConnFrame DEF Shape
  <2>3. conn'.alive = conn.alive /\ conn'.delay = conn.delay /\ conn'.write_timer = conn.write_timer
    BY <2>2, MembersAre DEF ConnBut, ConfigMembers
  <2>4. Timers' BY <2>1, <2>3 DEF Timers
  <2>5. DelayEnforced' BY <2>1 DEF DelayEnforced
  <2> QED BY <2>4, <2>5
<1>4. CASE Ordinary
  <2>1. Stepped BY <1>1, <1>4, OrdinarySteps
  <2>2. now' = now /\ killed' = killed /\ ConnBut(conn', conn, Loose) BY <2>1 DEF Stepped, Tame
  <2>3. conn'.alive = conn.alive /\ conn'.delay = conn.delay /\ conn'.write_timer = conn.write_timer
    BY <2>2, MembersAre DEF ConnBut, Loose
  <2>4. Timers' BY <2>2, <2>3 DEF Timers
  <2>5. DelayEnforced'
    <3> SUFFICES ASSUME last' = [op |-> "shutdown", ok |-> TRUE], killed' # 0,
                        conn'.send # NULL \/ conn'.recv # NULL
                 PROVE  now' - killed' >= MinDelay
      BY DEF DelayEnforced
    <3>1. Shutdown /\ Usable BY <2>1 DEF Stepped
    <3>2. ConnBut(conn', conn, {"unread"}) BY <1>1, <3>1, ShutdownSteps
    <3>3. conn'.send = conn.send /\ conn'.recv = conn.recv BY <3>2, MembersAre DEF ConnBut
    <3>4. ~(now - conn.write_timer < conn.delay)
      <4> SUFFICES ASSUME now - conn.write_timer < conn.delay PROVE FALSE OBVIOUS
      <4>1. Call("shutdown", Fail(World)) BY <3>1, <3>3 DEF Shutdown
      <4>2. Fail(World).ok = FALSE BY DEF Fail, World
      <4>3. last' = [op |-> "shutdown", ok |-> Fail(World).ok] BY <4>1 DEF Call, Did, Watched
      <4> QED BY <4>2, <4>3
    <3> QED BY <2>2, <3>1, <3>4, LifeAssumption DEF Timers, Usable
  <2> QED BY <2>4, <2>5
<1>5. CASE Error
  <2>1. /\ Usable /\ last' = Other /\ ConnBut(conn', conn, {"closed", "delay", "write_timer"})
        /\ \/ /\ killed' = killed /\ now' = now /\ conn'.write_timer = conn.write_timer
              /\ conn'.delay = conn.delay \/ conn'.delay \in MinDelay .. MaxDelay
           \/ /\ killed' = now /\ conn'.write_timer = now
              /\ conn'.delay \in MinDelay .. MaxDelay
              /\ now' \in {now, now + conn'.delay}
    BY <1>1, <1>5, ErrorEffect
  <2>2. conn'.alive = conn.alive BY <2>1, MembersAre DEF ConnBut
  <2>3. Timers' BY <2>1, <2>2, LifeAssumption DEF Timers
  <2>4. DelayEnforced' BY <2>1 DEF DelayEnforced, Other
  <2> QED BY <2>3, <2>4
<1>6. CASE Tick
  <2>1. now' = now + 1 /\ UNCHANGED <<conn, killed, last>> BY <1>6 DEF Tick
  <2> QED BY <2>1, LifeAssumption DEF Timers, DelayEnforced
<1>7. CASE Wipe
  <2>1. conn.alive /\ last'.op = "wipe" /\ now' = now BY <1>1, <1>7, WipeEffect
  <2>2. DelayEnforced' BY <2>1 DEF DelayEnforced
  <2>3. CASE killed' = 0 BY <2>1, <2>2, <2>3 DEF Timers
  <2>4. CASE killed' = killed /\ ConnBut(conn', conn, WipeMembers)
    <3>1. conn'.alive = conn.alive /\ conn'.delay = conn.delay /\ conn'.write_timer = conn.write_timer
      BY <2>4, MembersAre DEF ConnBut, WipeMembers, RecvMembers, SendMembers
    <3> QED BY <2>1, <2>2, <2>4, <3>1 DEF Timers
  <2> QED BY <1>1, <1>7, <2>3, <2>4, WipeEffect
<1>8. CASE Destroy
  <2>1. conn' = [Freed EXCEPT !.mem = {}] /\ last' = Other /\ now' = now /\ killed' = killed
    BY <1>1, <1>8, DestroyEffect
  <2>2. conn'.alive = FALSE BY <2>1 DEF Freed, Zeroed
  <2> QED BY <2>1, <2>2 DEF Timers, DelayEnforced, Other
<1>9. CASE UNCHANGED lvars BY <1>9 DEF lvars, Timers, DelayEnforced
<1> QED BY <1>2, <1>3, <1>4, <1>5, <1>6, <1>7, <1>8, <1>9 DEF LifeNext, Ordinary

(***************************************************************************)
(* However long the delays and whatever is called after an error, a wipe   *)
(* that fails and kills without a random number or a clock included,       *)
(* s2n_shutdown succeeds on a connection only when the shortest delay has  *)
(* passed since the last kill that succeeded.  After a kill that fails the *)
(* code promises nothing more (s2n_connection_kill, s2n_shutdown).         *)
(***************************************************************************)
THEOREM DelayAlwaysEnforced == LifeSpec => []DelayEnforced
<1>1. LifeInit => Base /\ Timers /\ DelayEnforced
  BY InitBase DEF LifeInit, Timers, DelayEnforced
<1> QED BY <1>1, BaseStep, TimersStep, PTL DEF LifeSpec

-----------------------------------------------------------------------------
(* How a connection checks its peer.                                       *)

\* A callback of the connection's own is the application's.
HostRight(c) == c.verify_host_fn_overridden => c.verify_host_fn = "app"

\* The validator v and the callback fn of a connection are what the config id calls for.
Follows(v, fn, none, overridden, id) ==
    /\ v.skip = none
    /\ ~v.skip =>
        /\ v.store = id
        /\ v.ocsp = configs[id].check_ocsp
        /\ v.depth = IF configs[id].max_verify_cert_chain_depth = 0 THEN DEFAULT_MAX_CHAIN_DEPTH
                     ELSE configs[id].max_verify_cert_chain_depth
        /\ fn = IF overridden THEN "app"
                ELSE IF configs[id].verify_host # NULL THEN configs[id].verify_host
                ELSE "s2n_default_verify_host"

\* The connection follows its config.
Suited(c) ==
    c.config \in AppIds =>
        Follows(c.x509_validator, c.verify_host_fn, NeedsNoValidation(c, configs[c.config]),
                c.verify_host_fn_overridden, c.config)

\* PeerChecked says that the connection is suited to its config.
LEMMA PeerCheckedIs == PeerChecked <=> (Usable => Suited(conn))
BY DEF PeerChecked, Suited, Follows

\* A config that has just been accepted is followed.
LEMMA AcceptedSuited ==
    ASSUME NEW c, DOMAIN c = Members, HostRight(c), NEW id
    PROVE  Suited(Accepted(c, id)) /\ HostRight(Accepted(c, id)) /\ HostRight(Taken(c, id))
<1> DEFINE a == s2n_x509_validator_wipe(c)
           b == TakeValidator(a, id)
           d == TakeSettings(b, id)
           e == Accepted(c, id)
           none == NeedsNoValidation(a, configs[id])
<1>1. ConnBut(a, c, {"x509_validator", "mem"}) BY ValidatorFrame
<1>2. ConnBut(b, a, {"x509_validator", "mem", "verify_host_fn"}) BY <1>1, ValidatorFrame DEF ConnBut
<1>3. ConnBut(d, b, {"psk_type", "tickets_to_send"}) BY <1>2, SettingsFrame DEF ConnBut
<1>4. d = Taken(c, id) BY DEF Taken
<1>5. ConnBut(e, d, {"config", "quic_enabled"}) /\ e.config = id BY <1>4, AcceptedFrame
<1> HIDE DEF a
<1>6. /\ HostRight(a) /\ DOMAIN a = Members
      /\ a.verify_host_fn_overridden = c.verify_host_fn_overridden
  BY <1>1, MembersAre DEF ConnBut, HostRight
<1>7. Follows(b.x509_validator, b.verify_host_fn, none, b.verify_host_fn_overridden, id) /\ HostRight(b)
  <2>1. CASE none
    <3>1. b = s2n_x509_validator_init_no_x509_validation(a) BY <2>1 DEF TakeValidator
    <3> HIDE DEF b
    <3>2. /\ b.x509_validator.skip = TRUE /\ b.verify_host_fn = a.verify_host_fn
          /\ b.verify_host_fn_overridden = a.verify_host_fn_overridden
      BY <1>6, <3>1, MembersAre DEF s2n_x509_validator_init_no_x509_validation
    <3>3. none \in BOOLEAN BY DEF NeedsNoValidation
    <3> QED BY <1>6, <2>1, <3>2, <3>3 DEF Follows, HostRight
  <2>2. CASE ~none
    <3>1. b = s2n_x509_validator_init(a, id) BY <2>2 DEF TakeValidator
    <3> HIDE DEF b
    <3> DEFINE fn == IF configs[id].verify_host # NULL THEN configs[id].verify_host
                     ELSE "s2n_default_verify_host"
    <3>2. /\ b.x509_validator = [state |-> "INIT", skip |-> FALSE, store |-> id, ocsp |-> configs[id].check_ocsp,
                                 depth |-> IF configs[id].max_verify_cert_chain_depth # 0
                                           THEN configs[id].max_verify_cert_chain_depth
                                           ELSE DEFAULT_MAX_CHAIN_DEPTH]
          /\ b.verify_host_fn = IF a.verify_host_fn_overridden THEN a.verify_host_fn ELSE fn
          /\ b.verify_host_fn_overridden = a.verify_host_fn_overridden
      BY <1>6, <3>1, MembersAre DEF s2n_x509_validator_init
    <3>3. none \in BOOLEAN BY DEF NeedsNoValidation
    <3>4. b.verify_host_fn = IF b.verify_host_fn_overridden THEN "app" ELSE fn BY <1>6, <3>2 DEF HostRight
    <3>5. /\ b.x509_validator.skip = FALSE /\ b.x509_validator.store = id
          /\ b.x509_validator.ocsp = configs[id].check_ocsp
          /\ b.x509_validator.depth = IF configs[id].max_verify_cert_chain_depth = 0 THEN DEFAULT_MAX_CHAIN_DEPTH
                                      ELSE configs[id].max_verify_cert_chain_depth
      BY <3>2
    <3> HIDE DEF none
    <3>6. none = FALSE BY <2>2, <3>3
    <3> QED BY <3>4, <3>5, <3>6 DEF Follows, HostRight
  <2> QED BY <2>1, <2>2
<1> HIDE DEF b, d, e
<1>8. /\ d.verify_host_fn = b.verify_host_fn /\ d.verify_host_fn_overridden = b.verify_host_fn_overridden
      /\ e.verify_host_fn = b.verify_host_fn /\ e.verify_host_fn_overridden = b.verify_host_fn_overridden
      /\ e.x509_validator = b.x509_validator /\ e.mode = a.mode
      /\ e.client_cert_auth_type = a.client_cert_auth_type
      /\ e.client_cert_auth_type_overridden = a.client_cert_auth_type_overridden
  BY <1>2, <1>3, <1>5, MembersAre DEF ConnBut
<1>9. NeedsNoValidation(e, configs[id]) = none
  BY <1>8 DEF NeedsNoValidation, s2n_connection_get_client_auth_type
<1> HIDE DEF none
<1>10. Suited(e) BY <1>5, <1>7, <1>8, <1>9 DEF Suited
<1>11. HostRight(d) /\ HostRight(e) BY <1>7, <1>8 DEF HostRight
<1> QED BY <1>4, <1>10, <1>11 DEF e

\* A wiped connection follows its config.
LEMMA BlankSuited ==
    ASSUME NEW mode, NEW id, Suits(mode, id)
    PROVE  Suited(Blank(mode, id)) /\ HostRight(Blank(mode, id))
<1> DEFINE z == Zero(mode, Kept)
           e == Accepted(z, id)
           b == Blank(mode, id)
<1>1. ConnBut(z, Zeroed(mode), {"mem"}) BY ZeroIs
<1>2. DOMAIN z = Members /\ z.mode = mode /\ z.config = NULL /\ z.verify_host_fn_overridden = FALSE
  BY <1>1, ZeroedIs, MembersAre DEF ConnBut
<1>3. Suited(e) BY <1>2, AcceptedSuited DEF HostRight
<1>4. ConfigConn(z, id) = e BY <1>2, ZeroedIs DEF ConfigConn, Suits, Refused
<1>5. ConnBut(b, e, {"psk_type", "blinding"}) BY <1>4, BlankFrame
<1>6. IsBlank(b, mode, id) BY BlankIs
<1> HIDE DEF z, e, b
<1>7. HostRight(b) BY <1>6 DEF IsBlank, HostRight
<1>8. /\ b.config = e.config /\ b.mode = e.mode /\ b.x509_validator = e.x509_validator
      /\ b.verify_host_fn = e.verify_host_fn /\ b.verify_host_fn_overridden = e.verify_host_fn_overridden
      /\ b.client_cert_auth_type = e.client_cert_auth_type
      /\ b.client_cert_auth_type_overridden = e.client_cert_auth_type_overridden
  BY <1>5, MembersAre DEF ConnBut
<1>9. NeedsNoValidation(b, configs[b.config]) = NeedsNoValidation(e, configs[e.config])
  BY <1>8 DEF NeedsNoValidation, s2n_connection_get_client_auth_type
<1>10. Suited(b) BY <1>3, <1>8, <1>9 DEF Suited
<1> QED BY <1>7, <1>10 DEF b

PeerInv == HostRight(conn) /\ (Usable => Suited(conn))

\* What the judgement of a connection rests on.
PeerMembers == {"config", "mode", "x509_validator", "verify_host_fn", "verify_host_fn_overridden",
                "client_cert_auth_type", "client_cert_auth_type_overridden"}

\* Nothing but the peer's members matters for that.
LEMMA SuitedKept ==
    ASSUME NEW c, NEW d, \A m \in PeerMembers : d[m] = c[m]
    PROVE  (Suited(c) => Suited(d)) /\ (HostRight(c) => HostRight(d))
<1>1. /\ d.config = c.config /\ d.mode = c.mode /\ d.x509_validator = c.x509_validator
      /\ d.verify_host_fn = c.verify_host_fn /\ d.verify_host_fn_overridden = c.verify_host_fn_overridden
      /\ d.client_cert_auth_type = c.client_cert_auth_type
      /\ d.client_cert_auth_type_overridden = c.client_cert_auth_type_overridden
  BY DEF PeerMembers
<1>2. NeedsNoValidation(d, configs[d.config]) = NeedsNoValidation(c, configs[c.config])
  BY <1>1 DEF NeedsNoValidation, s2n_connection_get_client_auth_type
<1> QED BY <1>1, <1>2 DEF Suited, HostRight

\* With the configs as they are, what suits now suits in the next state.
LEMMA SuitedPrime ==
    ASSUME configs' = configs, Suited(conn')
    PROVE  Suited(conn)'
BY DEF Suited, Follows, NeedsNoValidation, s2n_connection_get_client_auth_type

\* Every step keeps the connection suited.
LEMMA PeerStep == Base /\ PeerInv /\ ~LateAuth /\ [LifeNext]_lvars => PeerInv'
<1> SUFFICES ASSUME Base, PeerInv, ~LateAuth, [LifeNext]_lvars PROVE PeerInv'
  OBVIOUS
<1>1. Shape /\ Holdings /\ Settled BY DEF Base
<1>2. ASSUME configs' = configs, HostRight(conn'), Usable' => Suited(conn') PROVE PeerInv'
  <2>1. Usable' => Suited(conn)' BY <1>2, SuitedPrime
  <2> QED BY <1>2, <2>1 DEF PeerInv, HostRight
<1>3. ASSUME NEW mode, NEW id, Suits(mode, id), conn' = Blank(mode, id), configs' = configs PROVE PeerInv'
  <2>1. Suited(Blank(mode, id)) /\ HostRight(Blank(mode, id)) BY <1>3, BlankSuited
  <2>2. Suited(conn') /\ HostRight(conn') BY <1>3, <2>1
  <2> QED BY <1>2, <1>3, <2>2
<1>4. CASE New
  <2>1. PICK mode : conn' = Blank(mode, "default") BY <1>1, <1>4, NewEffect
  <2>2. configs' = configs BY <1>1, <1>4, NewEffect
  <2>3. Suits(mode, "default") BY <1>1, DefaultFits DEF Settled, Suits, NULL
  <2> QED BY <1>3, <2>1, <2>2, <2>3
<1>5. CASE SetConfig
  <2>1. /\ Usable /\ configs' = configs /\ last'.op = "set_config"
        /\ \E id \in AppIds : conn' = ConfigConn(conn, id) /\ (last'.ok <=> Fits(conn, id))
    BY <1>1, <1>5, SetConfigEffect
  <2>2. PICK id \in AppIds : conn' = ConfigConn(conn, id) /\ (last'.ok <=> Fits(conn, id)) BY <2>1
  <2>3. Suited(conn) /\ HostRight(conn) BY <2>1 DEF PeerInv
  <2>4. Suited(Accepted(conn, id)) /\ HostRight(Accepted(conn, id)) /\ HostRight(Taken(conn, id))
    BY <1>1, <2>3, AcceptedSuited DEF Shape
  <2>5. HostRight(conn') BY <2>2, <2>3, <2>4 DEF ConfigConn
  <2>6. ASSUME Usable' PROVE Suited(conn')
    <3>1. Fits(conn, id) BY <2>1, <2>2, <2>6 DEF Usable
    <3>2. conn' = conn \/ conn' = Accepted(conn, id) BY <2>2, <3>1 DEF Fits, ConfigConn
    <3> QED BY <2>3, <2>4, <3>2
  <2> QED BY <1>2, <2>1, <2>5, <2>6
<1>6. CASE Ordinary
  <2>1. Usable /\ Tame(conn', DOMAIN contexts') /\ configs' = configs BY <1>1, <1>6, OrdinarySteps DEF Stepped
  <2>2. Suited(conn) /\ HostRight(conn) BY <2>1 DEF PeerInv
  <2>3. /\ conn'.config = conn.config /\ conn'.mode = conn.mode /\ conn'.x509_validator = conn.x509_validator
    BY <2>1, MembersAre DEF Tame, ConnBut, Loose
  <2>4. \/ \A m \in HostMembers : conn'[m] = conn[m]
        \/ conn'.verify_host_fn = "app" /\ conn'.verify_host_fn_overridden
    BY <2>1 DEF Tame
  <2>5. HostRight(conn') BY <2>2, <2>4 DEF HostRight, HostMembers
  <2>6. Suited(conn')
    <3>1. CASE conn.config = "default" BY <2>3, <3>1 DEF Suited, AppIds
    <3>2. CASE conn.config # "default"
      <4>1. /\ conn'.client_cert_auth_type = conn.client_cert_auth_type
            /\ conn'.client_cert_auth_type_overridden = conn.client_cert_auth_type_overridden
        BY <2>1, <3>2 DEF Tame, AuthMembers
      <4>2. NeedsNoValidation(conn', configs[conn.config]) = NeedsNoValidation(conn, configs[conn.config])
        BY <2>3, <4>1 DEF NeedsNoValidation, s2n_connection_get_client_auth_type
      <4>3. CASE \A m \in HostMembers : conn'[m] = conn[m]
        BY <2>2, <2>3, <4>2, <4>3 DEF Suited, HostMembers
      <4>4. CASE conn'.verify_host_fn = "app" /\ conn'.verify_host_fn_overridden
        BY <2>2, <2>3, <4>2, <4>4 DEF Suited, Follows
      <4> QED BY <2>4, <4>3, <4>4
    <3> QED BY <3>1, <3>2
  <2> QED BY <1>2, <2>1, <2>5, <2>6
<1>7. CASE Error
  <2>1. Usable /\ configs' = configs /\ ConnBut(conn', conn, {"closed", "delay", "write_timer"})
    BY <1>1, <1>7, ErrorEffect
  <2>2. \A m \in PeerMembers : conn'[m] = conn[m] BY <2>1, MembersAre DEF ConnBut, PeerMembers
  <2>3. Suited(conn') /\ HostRight(conn') BY <2>1, <2>2, SuitedKept DEF PeerInv
  <2> QED BY <1>2, <2>1, <2>3
<1>8. CASE Tick \/ UNCHANGED lvars
  <2>1. UNCHANGED <<configs, conn, last>> BY <1>8 DEF Tick, lvars
  <2>2. HostRight(conn') /\ (Usable' => Suited(conn')) BY <2>1 DEF PeerInv, Usable
  <2> QED BY <1>2, <2>1, <2>2
<1>9. CASE Wipe
  <2>1. conn.alive /\ last'.op = "wipe" /\ configs' = configs BY <1>1, <1>9, WipeEffect
  <2>2. CASE conn' = Blank(conn.mode, conn.config)
    <3>1. Suits(conn.mode, conn.config) BY <1>1, <2>1, ZeroedIs DEF Settled, Refused, Suits
    <3> QED BY <1>3, <2>1, <2>2, <3>1
  <2>3. CASE ~last'.ok /\ ConnBut(conn', conn, WipeMembers)
    <3>1. ~Usable' BY <2>1, <2>3 DEF Usable
    <3>2. /\ conn'.verify_host_fn = conn.verify_host_fn
          /\ conn'.verify_host_fn_overridden = conn.verify_host_fn_overridden
      BY <2>3, MembersAre DEF ConnBut, WipeMembers, RecvMembers, SendMembers
    <3>3. HostRight(conn') BY <3>2 DEF PeerInv, HostRight
    <3> QED BY <1>2, <2>1, <3>1, <3>3
  <2> QED BY <1>1, <1>9, <2>2, <2>3, WipeEffect
<1>10. CASE Destroy
  <2>1. conn' = [Freed EXCEPT !.mem = {}] /\ configs' = configs BY <1>1, <1>10, DestroyEffect
  <2>2. conn'.alive = FALSE /\ conn'.verify_host_fn_overridden = FALSE BY <2>1 DEF Freed, Zeroed
  <2> QED BY <1>2, <2>1, <2>2 DEF Usable, HostRight
<1> QED BY <1>4, <1>5, <1>6, <1>7, <1>8, <1>9, <1>10 DEF LifeNext, Ordinary

(***************************************************************************)
(* For any pair of configs, however often a connection is given one or the *)
(* other, wiped and configured again, it checks its peer the way its       *)
(* config and its own settings say (s2n_connection_set_config), if client  *)
(* authentication is settled before the config is.                         *)
(***************************************************************************)
THEOREM PeerAlwaysChecked == ~LateAuth => (LifeSpec => []PeerChecked)
<1> SUFFICES ASSUME ~LateAuth PROVE LifeSpec => []PeerChecked OBVIOUS
<1>1. LifeInit => Base /\ PeerInv
  <2> SUFFICES ASSUME LifeInit PROVE Base /\ PeerInv OBVIOUS
  <2>1. Base /\ ~conn.verify_host_fn_overridden /\ (conn.alive => conn.config = "default") BY InitBase
  <2> QED BY <2>1 DEF PeerInv, HostRight, Suited, AppIds, Usable
<1>2. PeerInv => PeerChecked BY PeerCheckedIs DEF PeerInv
<1>3. Base /\ PeerInv /\ [LifeNext]_lvars => Base' /\ PeerInv' BY BaseStep, PeerStep
<1> QED BY <1>1, <1>2, <1>3, PTL DEF LifeSpec


-----------------------------------------------------------------------------
(* A connection that has been wiped and one that has just been made.       *)

\* The validator and the host callback that a config calls for.
ValidatorOf(none, id) ==
    [state |-> "INIT", skip |-> none, store |-> IF none THEN NULL ELSE id,
     ocsp |-> IF none THEN FALSE ELSE configs[id].check_ocsp,
     depth |-> IF none \/ configs[id].max_verify_cert_chain_depth = 0 THEN DEFAULT_MAX_CHAIN_DEPTH
               ELSE configs[id].max_verify_cert_chain_depth]

HostOf(id) ==
    IF configs[id].verify_host # NULL THEN configs[id].verify_host ELSE "s2n_default_verify_host"

\* No setting of the connection's own stands in the way of the config's.
Unset(c) == c.psks = 0 /\ c.psk_mode_overridden = FALSE /\ c.verify_host_fn_overridden = FALSE

\* The config id as the connection e has taken it over, having been c.
Took(e, c, id) ==
    /\ ConnBut(e, c, ConfigMembers)
    /\ e = [m \in Members |-> e[m]]
    /\ e.config = id
    /\ e.x509_validator = ValidatorOf(NeedsNoValidation(c, configs[id]), id)
    /\ ~NeedsNoValidation(c, configs[id]) => e.verify_host_fn = HostOf(id)
    /\ e.psk_type = configs[id].psk_mode
    /\ e.tickets_to_send = configs[id].initial_tickets_to_send
    /\ e.quic_enabled = (c.quic_enabled \/ configs[id].quic_enabled)
    /\ e.mem = c.mem \cup {"x509_validator"}

\* An accepted config decides each of the members it gives.
LEMMA AcceptedTook ==
    ASSUME NEW c, DOMAIN c = Members, Unset(c), NEW id
    PROVE  Took(Accepted(c, id), c, id)
<1> DEFINE a == s2n_x509_validator_wipe(c)
           b == TakeValidator(a, id)
           d == TakeSettings(b, id)
           e == Accepted(c, id)
           none == NeedsNoValidation(a, configs[id])
<1>1. ConnBut(a, c, {"x509_validator", "mem"}) BY ValidatorFrame
<1>2. ConnBut(b, a, {"x509_validator", "mem", "verify_host_fn"}) BY <1>1, ValidatorFrame DEF ConnBut
<1>3. ConnBut(d, b, {"psk_type", "tickets_to_send"}) BY <1>2, SettingsFrame DEF ConnBut
<1>4. d = Taken(c, id) BY DEF Taken
<1>5. ConnBut(e, c, ConfigMembers) /\ ConnBut(e, d, {"config", "quic_enabled"}) /\ e.config = id
  BY <1>4, AcceptedFrame
<1>6. e = [d EXCEPT !.config = id, !.quic_enabled = @ \/ configs[id].quic_enabled] BY <1>4 DEF Accepted
<1> HIDE DEF a, e
<1>7. /\ a.psks = 0 /\ a.psk_mode_overridden = FALSE /\ a.verify_host_fn_overridden = FALSE
      /\ a.mode = c.mode /\ a.client_cert_auth_type = c.client_cert_auth_type
      /\ a.client_cert_auth_type_overridden = c.client_cert_auth_type_overridden
      /\ a.quic_enabled = c.quic_enabled
  BY <1>1, MembersAre DEF ConnBut, Unset
<1>8. none <=> NeedsNoValidation(c, configs[id])
  BY <1>7 DEF NeedsNoValidation, s2n_connection_get_client_auth_type
<1>9. none \in BOOLEAN /\ NeedsNoValidation(c, configs[id]) \in BOOLEAN BY DEF NeedsNoValidation
<1>10. b.x509_validator = ValidatorOf(none, id) /\ (~none => b.verify_host_fn = HostOf(id))
  <2>1. CASE none
    <3>1. b = s2n_x509_validator_init_no_x509_validation(a) BY <2>1 DEF TakeValidator
    <3>2. b.x509_validator = [state |-> "INIT", skip |-> TRUE, store |-> NULL, ocsp |-> FALSE,
                              depth |-> DEFAULT_MAX_CHAIN_DEPTH]
      BY <1>1, <3>1, MembersAre DEF ConnBut, s2n_x509_validator_init_no_x509_validation
    <3> HIDE DEF b
    <3>3. none = TRUE BY <1>9, <2>1
    <3> QED BY <3>2, <3>3 DEF ValidatorOf
  <2>2. CASE ~none
    <3>1. b = s2n_x509_validator_init(a, id) BY <2>2 DEF TakeValidator
    <3>2. /\ b.x509_validator = [state |-> "INIT", skip |-> FALSE, store |-> id, ocsp |-> configs[id].check_ocsp,
                                 depth |-> IF configs[id].max_verify_cert_chain_depth # 0
                                           THEN configs[id].max_verify_cert_chain_depth
                                           ELSE DEFAULT_MAX_CHAIN_DEPTH]
          /\ b.verify_host_fn = HostOf(id)
      BY <1>1, <1>7, <3>1, MembersAre DEF ConnBut, s2n_x509_validator_init, HostOf
    <3> HIDE DEF b
    <3>3. none = FALSE BY <1>9, <2>2
    <3> QED BY <3>2, <3>3 DEF ValidatorOf
  <2> QED BY <2>1, <2>2
<1> HIDE DEF none
<1>11. b.psks = 0 /\ b.psk_mode_overridden = FALSE /\ b.quic_enabled = c.quic_enabled
  BY <1>2, <1>7, MembersAre DEF ConnBut
<1> HIDE DEF b
<1>12. /\ d.psk_type = configs[id].psk_mode /\ d.tickets_to_send = configs[id].initial_tickets_to_send
  BY <1>2, <1>11, MembersAre DEF ConnBut, TakeSettings, s2n_connection_set_psk_type
<1> HIDE DEF d
<1>13. /\ e.x509_validator = b.x509_validator /\ e.verify_host_fn = b.verify_host_fn
       /\ e.psk_type = d.psk_type /\ e.tickets_to_send = d.tickets_to_send
  BY <1>3, <1>5, MembersAre DEF ConnBut
<1>14. e.quic_enabled = (c.quic_enabled \/ configs[id].quic_enabled)
  <2>1. d.quic_enabled = c.quic_enabled BY <1>3, <1>11, MembersAre DEF ConnBut
  <2>2. DOMAIN d = Members BY <1>3 DEF ConnBut
  <2>3. e.quic_enabled = (d.quic_enabled \/ configs[id].quic_enabled) BY <1>6, <2>2, MembersAre
  <2> QED BY <2>1, <2>3
<1>15. e = [m \in Members |-> e[m]]
  <2>1. DOMAIN d = Members BY <1>3 DEF ConnBut
  <2> QED BY <1>6, <2>1
<1>16. e.mem = c.mem \cup {"x509_validator"} BY ConfigMemory DEF e
<1>17. ValidatorOf(none, id) = ValidatorOf(NeedsNoValidation(c, configs[id]), id) BY <1>8, <1>9
<1> HIDE DEF e
<1>18. Took(e, c, id) BY <1>5, <1>8, <1>10, <1>12, <1>13, <1>14, <1>15, <1>16, <1>17 DEF Took
<1> QED BY <1>18 DEF e


\* The members of a connection that have an effect.
LEMMA EffectiveIs ==
    ASSUME NEW c, c = [m \in Members |-> c[m]]
    PROVE  Effective(c) = [m \in Members |-> IF m = "verify_host_fn" /\ c.x509_validator.skip THEN NULL ELSE c[m]]
<1>1. CASE c.x509_validator.skip BY <1>1, MembersAre DEF Effective
<1>2. CASE ~c.x509_validator.skip BY <1>2 DEF Effective
<1> QED BY <1>1, <1>2

\* The order in which a connection gets its config and is blank makes no
\* difference that can be seen.
LEMMA BlankLikeFresh ==
    ASSUME configs["default"] = s2n_config_init, NEW mode, NEW id, id # "default",
           Suits(mode, id), configs[id].psk_mode = "RESUMPTION"
    PROVE  Effective(Blank(mode, id)) = Effective(ConfigConn(Blank(mode, "default"), id))
<1> DEFINE z == Zero(mode, Kept)
           t == Accepted(z, "default")
           d == Blank(mode, "default")
           a == Accepted(z, id)
           b == Blank(mode, id)
           e == Accepted(d, id)
<1>1. Suits(mode, "default") BY DefaultFits DEF Suits, NULL
<1>2. IsBlank(d, mode, "default") /\ IsBlank(b, mode, id) BY <1>1, BlankIs
<1>3. ConnBut(d, Zeroed(mode), ConfigMembers \cup {"blinding"}) /\ d.psk_type = "RESUMPTION" /\ d.blinding = "BUILT_IN"
  BY BlankFrame
<1>4. ConnBut(z, Zeroed(mode), {"mem"}) /\ z.mem = Kept BY ZeroIs
<1>5. z.config = NULL /\ z.mode = mode BY <1>4, ZeroedIs, MembersAre DEF ConnBut
<1>6. d = [t EXCEPT !.psk_type = "RESUMPTION", !.blinding = "BUILT_IN"]
  BY <1>1, <1>5, ZeroedIs DEF Blank, ConfigConn, Refused, Suits
<1>7. b = [a EXCEPT !.psk_type = "RESUMPTION", !.blinding = "BUILT_IN"]
  BY <1>5, ZeroedIs DEF Blank, ConfigConn, Refused, Suits
<1> HIDE DEF z, d, b
<1>8. ConfigConn(d, id) = e
  <2>1. d.mode = mode /\ d.config = "default" BY <1>2 DEF IsBlank
  <2>2. Zeroed(mode).mode = mode BY ZeroedIs
  <2>3. ~Refused(d, id) /\ ~NoKey(id) BY <2>1, <2>2 DEF Refused, Suits
  <2> QED BY <2>1, <2>3 DEF ConfigConn
<1>9. Unset(z) /\ z.quic_enabled = FALSE BY <1>4, ZeroedIs, MembersAre DEF ConnBut, Unset
<1>10. Unset(d)
  <2>1. \A m \in {"psks", "psk_mode_overridden", "verify_host_fn_overridden"} : d[m] = Zeroed(mode)[m]
    BY <1>3, MembersAre DEF ConnBut, ConfigMembers
  <2>2. /\ Zeroed(mode).psks = 0 /\ Zeroed(mode).psk_mode_overridden = FALSE
        /\ Zeroed(mode).verify_host_fn_overridden = FALSE
    BY ZeroedIs
  <2> QED BY <2>1, <2>2 DEF Unset
<1>11. DOMAIN z = Members /\ DOMAIN d = Members BY <1>2, <1>4 DEF IsBlank, ConnBut
<1>12. Took(t, z, "default") /\ Took(a, z, id) BY <1>9, <1>11, AcceptedTook
<1>13. Took(e, d, id) BY <1>10, <1>11, AcceptedTook
<1> HIDE DEF t, a, e
<1>14. d.quic_enabled = FALSE
  <2>1. t.quic_enabled = (z.quic_enabled \/ s2n_config_init.quic_enabled) BY <1>12 DEF Took
  <2>2. s2n_config_init.quic_enabled = FALSE BY DEF s2n_config_init
  <2>3. t.quic_enabled = FALSE BY <1>9, <2>1, <2>2
  <2>4. DOMAIN t = Members BY <1>12 DEF Took, ConnBut
  <2> QED BY <1>6, <2>3, <2>4, MembersAre
<1>15. NeedsNoValidation(d, configs[id]) = NeedsNoValidation(z, configs[id])
  <2>1. /\ d.mode = z.mode /\ d.client_cert_auth_type_overridden = z.client_cert_auth_type_overridden
        /\ d.client_cert_auth_type = z.client_cert_auth_type
    BY <1>3, <1>4, MembersAre DEF ConnBut, ConfigMembers
  <2> QED BY <2>1 DEF NeedsNoValidation, s2n_connection_get_client_auth_type
<1> DEFINE none == NeedsNoValidation(z, configs[id])
<1>16. none \in BOOLEAN BY DEF NeedsNoValidation
<1>17. /\ a.x509_validator = ValidatorOf(none, id) /\ e.x509_validator = ValidatorOf(none, id)
       /\ ~none => a.verify_host_fn = HostOf(id) /\ e.verify_host_fn = HostOf(id)
       /\ a.quic_enabled = (z.quic_enabled \/ configs[id].quic_enabled)
       /\ e.quic_enabled = (d.quic_enabled \/ configs[id].quic_enabled)
  BY <1>12, <1>13, <1>15 DEF Took
<1>18. ValidatorOf(none, id).skip = none BY DEF ValidatorOf
<1> HIDE DEF none
<1>19. a.quic_enabled = e.quic_enabled BY <1>9, <1>14, <1>17
<1>20. b = [m \in Members |-> b[m]] /\ ConnBut(b, a, {"psk_type", "blinding"})
       /\ b.psk_type = "RESUMPTION" /\ b.blinding = "BUILT_IN"
  <2>1. DOMAIN a = Members BY <1>12 DEF Took, ConnBut
  <2> QED BY <1>7, <2>1, MembersAre DEF ConnBut
<1>21. e = [m \in Members |-> e[m]] /\ e.psk_type = "RESUMPTION" /\ ConnBut(e, d, ConfigMembers)
  BY <1>13 DEF Took
<1>22. e.blinding = "BUILT_IN" BY <1>3, <1>21, MembersAre DEF ConnBut, ConfigMembers
<1>23. b.config = e.config /\ b.tickets_to_send = e.tickets_to_send
  BY <1>12, <1>13, <1>20, MembersAre DEF Took, ConnBut
<1>24. b.mem = e.mem
  <2>1. e.mem = d.mem \cup {"x509_validator"} /\ a.mem = z.mem \cup {"x509_validator"} BY <1>12, <1>13 DEF Took
  <2>2. d.mem = Kept \cup {"x509_validator"} BY <1>2 DEF IsBlank
  <2>3. b.mem = a.mem BY <1>20, MembersAre DEF ConnBut
  <2> QED BY <1>4, <2>1, <2>2, <2>3
<1>25. b.x509_validator = e.x509_validator /\ b.quic_enabled = e.quic_enabled
       /\ b.verify_host_fn = a.verify_host_fn
  BY <1>17, <1>19, <1>20, MembersAre DEF ConnBut
<1>26. ~b.x509_validator.skip => b.verify_host_fn = e.verify_host_fn BY <1>17, <1>18, <1>25
<1>27. \A m \in Members \ (ConfigMembers \cup {"blinding"}) : b[m] = e[m]
  <2> TAKE m \in Members \ (ConfigMembers \cup {"blinding"})
  <2>1. b[m] = a[m] BY <1>20 DEF ConnBut, ConfigMembers
  <2>2. a[m] = z[m] /\ e[m] = d[m] BY <1>12, <1>13 DEF Took, ConnBut
  <2>3. z[m] = Zeroed(mode)[m] BY <1>4 DEF ConnBut, ConfigMembers
  <2>4. d[m] = Zeroed(mode)[m] BY <1>3 DEF ConnBut
  <2> QED BY <2>1, <2>2, <2>3, <2>4
<1>28. \A m \in Members \ {"verify_host_fn"} : b[m] = e[m]
  BY <1>20, <1>21, <1>22, <1>23, <1>24, <1>25, <1>27 DEF ConfigMembers
<1>29. Effective(b) = [m \in Members |-> IF m = "verify_host_fn" /\ b.x509_validator.skip THEN NULL ELSE b[m]]
  BY <1>20, EffectiveIs
<1>30. Effective(e) = [m \in Members |-> IF m = "verify_host_fn" /\ e.x509_validator.skip THEN NULL ELSE e[m]]
  BY <1>21, EffectiveIs
<1>31. Effective(b) = Effective(e) BY <1>25, <1>26, <1>28, <1>29, <1>30
<1> QED BY <1>8, <1>31 DEF b, d

\* A connection that has just been made and given a config.
LEMMA FreshIs ==
    ASSUME Base, NEW mode, NEW id
    PROVE  Fresh(mode, id) = ConfigConn(Blank(mode, "default"), id)
<1> DEFINE w == [World EXCEPT !.contexts = <<>>]
           v == s2n_connection_new(w, mode)
<1>1. IsWorld(w) /\ w.ok /\ DOMAIN w.contexts = {} BY DEF Base, Shape, World, IsWorld, WorldFields
<1>2. IsWorld(v) /\ v.ok /\ v.conn = Blank(mode, "default") BY <1>1, NewIs DEF Base, Settled
<1> HIDE DEF v
<1>3. s2n_connection_set_config(v, id).conn = ConfigConn(v.conn, id) BY <1>2, SetConfigIs
<1> QED BY <1>2, <1>3 DEF Fresh, v


\* Configs that do not change leave what is made from them as it is.
LEMMA BlankPrime ==
    ASSUME configs' = configs, NEW mode, NEW id
    PROVE  Blank(mode, id)' = Blank(mode, id) /\ (Suits(mode, id)' <=> Suits(mode, id))
<1>1. \A c : TakeValidator(c, id)' = TakeValidator(c, id)
  BY DEF TakeValidator, NeedsNoValidation, s2n_connection_get_client_auth_type, s2n_x509_validator_init,
         s2n_x509_validator_init_no_x509_validation
<1>2. \A c : TakeSettings(c, id)' = TakeSettings(c, id) BY DEF TakeSettings, s2n_connection_set_psk_type
<1>3. \A c : Taken(c, id)' = Taken(c, id) BY <1>1, <1>2, SMT DEF Taken, s2n_x509_validator_wipe
<1>4. \A c : Accepted(c, id)' = Accepted(c, id)
  <2> TAKE c
  <2>1. PICK d, q : d = Taken(c, id) /\ q = configs[id].quic_enabled OBVIOUS
  <2>2. Taken(c, id)' = d /\ configs'[id].quic_enabled = q BY <1>3, <2>1
  <2>3. Accepted(c, id) = [d EXCEPT !.config = id, !.quic_enabled = @ \/ q] BY <2>1, Zenon DEF Accepted
  <2>4. Accepted(c, id)' = [d EXCEPT !.config = id, !.quic_enabled = @ \/ q] BY <2>2, Zenon DEF Accepted
  <2> QED BY <2>3, <2>4
<1>5. \A c : (Refused(c, id)' <=> Refused(c, id)) /\ (NoKey(id)' <=> NoKey(id))
  BY DEF Refused, NoKey, s2n_config_get_num_default_certs
<1>6. \A c : ConfigConn(c, id)' = ConfigConn(c, id) BY <1>3, <1>4, <1>5, Zenon DEF ConfigConn
<1> QED BY <1>5, <1>6, Zenon DEF Blank, Suits, Zero, Zeroed


\* s2n_connection_set_config gives the config it is asked to, or leaves the last.
LEMMA ConfigStays ==
    ASSUME NEW c, DOMAIN c = Members, NEW id
    PROVE  ConfigConn(c, id).config \in {c.config, id}
<1>1. Taken(c, id).config = c.config
  <2> DEFINE a == s2n_x509_validator_wipe(c)
             b == TakeValidator(a, id)
             d == TakeSettings(b, id)
  <2>1. ConnBut(a, c, {"x509_validator", "mem"}) BY ValidatorFrame
  <2>2. ConnBut(b, a, {"x509_validator", "mem", "verify_host_fn"}) BY <2>1, ValidatorFrame DEF ConnBut
  <2>3. ConnBut(d, b, {"psk_type", "tickets_to_send"}) BY <2>2, SettingsFrame DEF ConnBut
  <2>4. d = Taken(c, id) BY DEF Taken
  <2> HIDE DEF a, b, d
  <2> QED BY <2>1, <2>2, <2>3, <2>4, MembersAre DEF ConnBut
<1>2. Accepted(c, id).config = id BY AcceptedFrame
<1> QED BY <1>1, <1>2 DEF ConfigConn

Ids == AppIds \cup {"default"}

\* The application's configs leave the PSK mode alone, a connection has one of
\* them or the default, and one that has been wiped is blank.
WipeInv ==
    /\ \A id \in AppIds : configs[id].psk_mode = "RESUMPTION"
    /\ conn.alive => conn.config \in Ids
    /\ Wiped => \E mode : \E id \in Ids : Suits(mode, id) /\ conn = Blank(mode, id)

\* Every step keeps this.
LEMMA WipeInvStep == Base /\ WipeInv /\ [LifeNext]_lvars => WipeInv'
<1> SUFFICES ASSUME Base, WipeInv, [LifeNext]_lvars PROVE WipeInv' OBVIOUS
<1>1. Shape /\ Holdings /\ Settled BY DEF Base
<1>2. ASSUME configs' = configs, ~Wiped', conn'.alive => conn'.config \in Ids PROVE WipeInv'
  BY <1>2 DEF WipeInv, Ids, AppIds
<1>3. CASE New
  <2>1. PICK mode : conn' = Blank(mode, "default") BY <1>1, <1>3, NewEffect
  <2>2. last' = Other /\ configs' = configs BY <1>1, <1>3, NewEffect
  <2>3. Suits(mode, "default") BY <1>1, DefaultFits DEF Settled, Suits, NULL
  <2>4. IsBlank(Blank(mode, "default"), mode, "default") BY <2>3, BlankIs
  <2>5. conn'.config = "default" BY <2>1, <2>4 DEF IsBlank
  <2>6. ~Wiped' BY <2>2 DEF Wiped, Other
  <2> QED BY <1>2, <2>2, <2>5, <2>6 DEF Ids
<1>4. CASE SetConfig
  <2>1. PICK id \in AppIds : conn' = ConfigConn(conn, id) BY <1>1, <1>4, SetConfigEffect
  <2>2. Usable /\ last'.op = "set_config" /\ configs' = configs BY <1>1, <1>4, SetConfigEffect
  <2>3. conn'.config \in {conn.config, id} BY <1>1, <2>1, ConfigStays DEF Shape
  <2>4. conn'.config \in Ids BY <2>2, <2>3 DEF WipeInv, Usable, Ids
  <2>5. ~Wiped' BY <2>2 DEF Wiped
  <2> QED BY <1>2, <2>2, <2>4, <2>5
<1>5. CASE Ordinary
  <2>1. Usable /\ Tame(conn', DOMAIN contexts') /\ configs' = configs /\ last'.op # "wipe"
    BY <1>1, <1>5, OrdinarySteps DEF Stepped
  <2>2. conn'.config = conn.config BY <2>1, MembersAre DEF Tame, ConnBut, Loose
  <2>3. conn'.config \in Ids BY <2>1, <2>2 DEF WipeInv, Usable
  <2>4. ~Wiped' BY <2>1 DEF Wiped
  <2> QED BY <1>2, <2>1, <2>3, <2>4
<1>6. CASE Error
  <2>1. Usable /\ configs' = configs /\ last' = Other /\ ConnBut(conn', conn, {"closed", "delay", "write_timer"})
    BY <1>1, <1>6, ErrorEffect
  <2>2. conn'.config = conn.config BY <2>1, MembersAre DEF ConnBut
  <2>3. conn'.config \in Ids BY <2>1, <2>2 DEF WipeInv, Usable
  <2>4. ~Wiped' BY <2>1 DEF Wiped, Other
  <2> QED BY <1>2, <2>1, <2>3, <2>4
<1>7. ASSUME configs' = configs, NEW mode, NEW id \in Ids, Suits(mode, id), conn' = Blank(mode, id)
      PROVE  WipeInv'
  <2>1. IsBlank(Blank(mode, id), mode, id) BY <1>7, BlankIs
  <2>2. conn'.config = id BY <1>7, <2>1 DEF IsBlank
  <2>3. Suits(mode, id)' /\ conn' = Blank(mode, id)' BY <1>7, BlankPrime
  <2>4. (\E m : \E i \in Ids : Suits(m, i) /\ conn = Blank(m, i))' BY <2>3
  <2>5. \A i \in AppIds : configs'[i].psk_mode = "RESUMPTION" BY <1>7 DEF WipeInv
  <2> QED BY <2>2, <2>4, <2>5 DEF WipeInv
<1>8. CASE Tick \/ UNCHANGED lvars
  <2>1. UNCHANGED <<configs, conn, last>> BY <1>8 DEF Tick, lvars
  <2>2. CASE Wiped
    <3>1. PICK mode : \E id \in Ids : Suits(mode, id) /\ conn = Blank(mode, id) BY <2>2 DEF WipeInv
    <3>2. PICK id \in Ids : Suits(mode, id) /\ conn = Blank(mode, id) BY <3>1
    <3> QED BY <1>7, <2>1, <3>2
  <2>3. CASE ~Wiped BY <1>2, <2>1, <2>3 DEF Wiped, WipeInv
  <2> QED BY <2>2, <2>3
<1>9. CASE Wipe
  <2>1. conn.alive /\ last'.op = "wipe" /\ configs' = configs BY <1>1, <1>9, WipeEffect
  <2>2. CASE conn' = Blank(conn.mode, conn.config)
    <3>1. Suits(conn.mode, conn.config) BY <1>1, <2>1, ZeroedIs DEF Settled, Refused, Suits
    <3>2. conn.config \in Ids BY <2>1 DEF WipeInv
    <3> QED BY <1>7, <2>1, <2>2, <3>1, <3>2
  <2>3. CASE ~last'.ok /\ ConnBut(conn', conn, WipeMembers)
    <3>1. ~Wiped' BY <2>3 DEF Wiped
    <3>2. conn'.config = conn.config BY <2>3, MembersAre DEF ConnBut, WipeMembers, RecvMembers, SendMembers
    <3> QED BY <1>2, <2>1, <3>1, <3>2 DEF WipeInv
  <2> QED BY <1>1, <1>9, <2>2, <2>3, WipeEffect
<1>10. CASE Destroy
  <2>1. conn' = [Freed EXCEPT !.mem = {}] /\ configs' = configs /\ last' = Other BY <1>1, <1>10, DestroyEffect
  <2>2. conn'.alive = FALSE BY <2>1 DEF Freed, Zeroed
  <2>3. ~Wiped' BY <2>1 DEF Wiped, Other
  <2> QED BY <1>2, <2>1, <2>2, <2>3
<1> QED BY <1>3, <1>4, <1>5, <1>6, <1>8, <1>9, <1>10 DEF LifeNext, Ordinary

\* And it is what has to be shown.
LEMMA WipeInvMeans == Base /\ WipeInv => WipedLikeNew
<1> SUFFICES ASSUME Base, WipeInv, Wiped
             PROVE  Effective(conn) = Effective(Fresh(conn.mode, conn.config))
  BY DEF WipedLikeNew
<1>1. PICK mode : \E id \in Ids : Suits(mode, id) /\ conn = Blank(mode, id) BY DEF WipeInv
<1>2. PICK id \in Ids : Suits(mode, id) /\ conn = Blank(mode, id) BY <1>1
<1>3. configs["default"] = s2n_config_init BY DEF Base, Settled
<1>4. IsBlank(Blank(mode, id), mode, id) BY <1>2, BlankIs
<1>5. conn.mode = mode /\ conn.config = id BY <1>2, <1>4 DEF IsBlank
<1>6. Fresh(mode, id) = ConfigConn(Blank(mode, "default"), id) BY FreshIs
<1>7. CASE id = "default"
  <2>1. ConfigConn(conn, id) = conn BY <1>5 DEF ConfigConn
  <2> QED BY <1>2, <1>5, <1>6, <1>7, <2>1
<1>8. CASE id # "default"
  <2>1. configs[id].psk_mode = "RESUMPTION" BY <1>8 DEF WipeInv, Ids
  <2>2. Effective(Blank(mode, id)) = Effective(ConfigConn(Blank(mode, "default"), id))
    BY <1>2, <1>3, <1>8, <2>1, BlankLikeFresh
  <2> QED BY <1>2, <1>5, <1>6, <2>2
<1> QED BY <1>7, <1>8

(***************************************************************************)
(* A connection that has been wiped, whatever was done with it and however *)
(* often a wipe had failed before, is one that has just been made and      *)
(* given the same config (s2n_connection_wipe), for any configs of the     *)
(* application that do not choose external PSKs: the type that such a      *)
(* config gives is lost in a wipe, which initialises psk_params after it   *)
(* has set the config.                                                     *)
(***************************************************************************)
THEOREM WipedIsNew ==
    (\A f \in AppConfigs : \A id \in AppIds : f[id].psk_mode = "RESUMPTION")
        => (LifeSpec => []WipedLikeNew)
<1> SUFFICES ASSUME \A f \in AppConfigs : \A id \in AppIds : f[id].psk_mode = "RESUMPTION"
             PROVE  LifeSpec => []WipedLikeNew
  OBVIOUS
<1>1. LifeInit => Base /\ WipeInv
  <2> SUFFICES ASSUME LifeInit PROVE Base /\ WipeInv OBVIOUS
  <2>1. Base /\ (conn.alive => conn.config = "default") BY InitBase
  <2>2. ASSUME NEW id \in AppIds PROVE configs[id].psk_mode = "RESUMPTION"
    <3>1. \E f \in AppConfigs : configs[id] = f[id] BY DEF LifeInit, AppIds
    <3> QED BY <3>1
  <2>3. ~Wiped BY DEF LifeInit, Wiped, Other
  <2> QED BY <2>1, <2>2, <2>3 DEF WipeInv, Ids
<1>2. Base /\ WipeInv /\ [LifeNext]_lvars => Base' /\ WipeInv' BY BaseStep, WipeInvStep
<1> QED BY <1>1, <1>2, WipeInvMeans, PTL DEF LifeSpec

-----------------------------------------------------------------------------
(* The application's sockets.                                              *)

\* What is kept: the sockets can be given back, and have been once it is over.
SocketInv ==
    /\ sockets \in [Fds -> BOOLEAN] /\ corked \in [Fds -> BOOLEAN]
    /\ conn.alive => Restorable(conn, contexts, sockets, corked)
    /\ ~conn.alive => conn.handshake = "IDLE"
    /\ Wiped => conn.alive /\ conn.managed_send_io = FALSE

\* A step that has nothing to do with the sockets.
Quiet ==
    /\ contexts' = contexts /\ sockets' = sockets /\ corked' = corked
    /\ \A m \in SocketMembers : conn'[m] = conn[m]

\* A call that changes other members is such a step, whether it succeeds or not.
LEMMA CallIsQuiet ==
    ASSUME NEW op, NEW w, Call(op, w) \/ Allocating(op, w), w.contexts = contexts, w.sockets = sockets,
           \A m \in SocketMembers : w.conn[m] = conn[m]
    PROVE  Quiet
BY DEF Call, Allocating, Did, Timeless, Quiet

\* The calls that are quiet.
LEMMA QuietSteps ==
    ASSUME Shape, Holdings,
           \/ SetClientAuthType \/ SetVerifyHost \/ SetPskMode \/ AppendPsk \/ SetServerName \/ SetOther
           \/ Receive \/ BreakPipe \/ ReleaseBuffers \/ FreeHandshake \/ Shutdown
    PROVE  Quiet
<1>1. ASSUME NEW op, NEW c, Call(op, Set(c)) \/ Call(op, Fail(Set(c))) \/ Allocating(op, Set(c)),
             \A m \in SocketMembers : c[m] = conn[m]
      PROVE  Quiet
  <2>1. \A w \in {Set(c), Fail(Set(c))} : w.conn = c /\ w.contexts = contexts /\ w.sockets = sockets
    BY DEF Set, World, Fail
  <2> QED BY <1>1, <2>1, CallIsQuiet
<1>2. ASSUME NEW op, NEW w \in {World, Fail(World)}, Call(op, w) \/ Allocating(op, w) PROVE Quiet
  <2>1. w.conn = conn /\ w.contexts = contexts /\ w.sockets = sockets BY <1>2 DEF World, Fail
  <2> QED BY <1>2, <2>1, CallIsQuiet
<1>3. ASSUME NEW op, NEW n, Call(op, Free(World, n)) \/ Call(op, Fail(Free(World, n))) PROVE Quiet
  <2> DEFINE v == Free(World, n)
  <2>1. SameBut(v, World, {"mem"}) /\ v.contexts = World.contexts /\ v.sockets = World.sockets
    BY WorldIs, MemoryFrame
  <2> HIDE DEF v
  <2>2. \A m \in SocketMembers : v.conn[m] = conn[m]
    BY <2>1, WorldIs, MembersAre DEF SameBut, SocketMembers
  <2>3. Fail(v).conn = v.conn /\ Fail(v).contexts = v.contexts /\ Fail(v).sockets = v.sockets
    BY <2>1 DEF SameBut, Fail, IsWorld, WorldFields
  <2>4. Call(op, v) \/ Call(op, Fail(v)) BY <1>3 DEF v
  <2> QED BY <2>1, <2>2, <2>3, <2>4, WorldIs, CallIsQuiet
<1>4. CASE SetClientAuthType
  <2>1. PICK type : Call("set_client_auth_type",
                         Set([conn EXCEPT !.client_cert_auth_type = type,
                                          !.client_cert_auth_type_overridden = TRUE]))
    BY <1>4, Zenon DEF SetClientAuthType
  <2> DEFINE c == [conn EXCEPT !.client_cert_auth_type = type, !.client_cert_auth_type_overridden = TRUE]
  <2>2. \A m \in SocketMembers : c[m] = conn[m] BY MembersAre DEF Shape, SocketMembers
  <2> HIDE DEF c
  <2> QED BY <1>1, <2>1, <2>2 DEF c
<1>5. CASE SetVerifyHost
  <2> DEFINE c == [conn EXCEPT !.verify_host_fn = "app", !.verify_host_fn_overridden = TRUE]
  <2>1. Call("set_verify_host", Set(c)) BY <1>5 DEF SetVerifyHost
  <2>2. \A m \in SocketMembers : c[m] = conn[m] BY MembersAre DEF Shape, SocketMembers
  <2> HIDE DEF c
  <2> QED BY <1>1, <2>1, <2>2
<1>6. CASE SetPskMode
  <2>1. PICK mode : Call("set_psk_mode",
                         IF conn.psks # 0 /\ conn.psk_type # mode THEN Fail(World)
                         ELSE Set([s2n_connection_set_psk_type(conn, mode) EXCEPT !.psk_mode_overridden = TRUE]))
    BY <1>6, Zenon DEF SetPskMode
  <2> DEFINE c == [s2n_connection_set_psk_type(conn, mode) EXCEPT !.psk_mode_overridden = TRUE]
  <2>2. Call("set_psk_mode", Fail(World)) \/ Call("set_psk_mode", Set(c)) BY <2>1
  <2>3. \A m \in SocketMembers : c[m] = conn[m]
    BY MembersAre DEF Shape, SocketMembers, s2n_connection_set_psk_type
  <2> HIDE DEF c
  <2> QED BY <1>1, <1>2, <2>2, <2>3
<1>7. CASE AppendPsk
  <2> DEFINE c == [conn EXCEPT !.psk_type = "EXTERNAL", !.psks = 1, !.mem = @ \cup {"psk_params"}]
  <2>1. Allocating("append_psk", Fail(World)) \/ Allocating("append_psk", Set(c)) BY <1>7 DEF AppendPsk
  <2>2. \A m \in SocketMembers : c[m] = conn[m] BY MembersAre DEF Shape, SocketMembers
  <2> HIDE DEF c
  <2> QED BY <1>1, <1>2, <2>1, <2>2
<1>8. CASE SetServerName
  <2>1. PICK name : Call("set_server_name",
                         IF conn.mode # "CLIENT" THEN Fail(World)
                         ELSE Set([conn EXCEPT !.server_name = name \o SubSeq(@, Len(name) + 1, Len(@))]))
    BY <1>8, Zenon DEF SetServerName
  <2> DEFINE x == name \o SubSeq(conn.server_name, Len(name) + 1, Len(conn.server_name))
             c == [conn EXCEPT !.server_name = x]
  <2>2. Call("set_server_name", Fail(World)) \/ Call("set_server_name", Set(c)) BY <2>1, Zenon
  <2> HIDE DEF x
  <2>3. \A m \in SocketMembers : c[m] = conn[m] BY MembersAre DEF Shape, SocketMembers
  <2> HIDE DEF c
  <2> QED BY <1>1, <1>2, <2>2, <2>3
<1>9. CASE SetOther
  <2> DEFINE a == [conn EXCEPT !.context = "app"]
             b == [conn EXCEPT !.blinding = "SELF_SERVICE"]
             c == [conn EXCEPT !.mem = @ \cup {"application_protocols_overridden"}]
             d == [conn EXCEPT !.mem = @ \cup {"our_quic"}]
  <2>1. \/ Call("set_ctx", Set(a)) \/ Call("set_blinding", Set(b))
        \/ Allocating("set_protocols", Set(c)) \/ Allocating("set_quic_parameters", Set(d))
    BY <1>9, Zenon DEF SetOther
  <2>2. \A e \in {a, b, c, d} : \A m \in SocketMembers : e[m] = conn[m]
    BY MembersAre DEF Shape, SocketMembers
  <2> HIDE DEF a, b, c, d
  <2> QED BY <1>1, <2>1, <2>2
<1>10. CASE Receive
  <2> DEFINE c == [conn EXCEPT !.unread = ~@, !.mem = @ \cup {"in", "out"}]
  <2>1. Call("recv", Set(c)) BY <1>10 DEF Receive
  <2>2. \A m \in SocketMembers : c[m] = conn[m] BY MembersAre DEF Shape, SocketMembers
  <2> HIDE DEF c
  <2> QED BY <1>1, <2>1, <2>2
<1>11. CASE BreakPipe
  <2> DEFINE c == [conn EXCEPT !.write_fd_broken = TRUE]
  <2>1. Call("send", Fail(Set(c))) BY <1>11 DEF BreakPipe
  <2>2. \A m \in SocketMembers : c[m] = conn[m] BY MembersAre DEF Shape, SocketMembers
  <2> HIDE DEF c
  <2> QED BY <1>1, <2>1, <2>2
<1>12. CASE ReleaseBuffers
  <2>1. \/ Call("release_buffers", Fail(Free(World, {"out"})))
        \/ Call("release_buffers", Free(World, {"in", "out"}))
    BY <1>12 DEF ReleaseBuffers, s2n_connection_release_buffers
  <2> QED BY <1>3, <2>1
<1>13. CASE FreeHandshake
  BY <1>3, <1>13 DEF FreeHandshake, s2n_connection_free_handshake
<1>14. CASE Shutdown
  <2> DEFINE c == [conn EXCEPT !.unread = FALSE]
  <2>1. \/ Call("shutdown", World) \/ Call("shutdown", Fail(World)) \/ Call("shutdown", Set(c))
    BY <1>14 DEF Shutdown
  <2>2. \A m \in SocketMembers : c[m] = conn[m] BY MembersAre DEF Shape, SocketMembers
  <2> HIDE DEF c
  <2> QED BY <1>1, <1>2, <2>1, <2>2
<1> QED BY <1>4, <1>5, <1>6, <1>7, <1>8, <1>9, <1>10, <1>11, <1>12, <1>13, <1>14

\* Descriptors and callbacks are replaced while the sockets are as they were.
LEMMA IoRestorable ==
    ASSUME Shape, Holdings, Restorable(conn, contexts, sockets, corked), SetFd \/ SetCallbacks
    PROVE  corked' = corked /\ Restorable(conn', contexts', sockets', corked)
<1>1. /\ IsWorld(World) /\ World.ok /\ World.conn = conn /\ World.contexts = contexts
      /\ World.sockets = sockets /\ Owns(World.conn, DOMAIN World.contexts)
      /\ Restorable(World.conn, World.contexts, World.sockets, corked)
  BY WorldIs DEF Holdings
<1>2. sockets = corked
  <2>1. ~Busy(conn) BY DEF SetFd, SetCallbacks, Busy
  <2> QED BY <2>1, IdleSockets
<1>3. ASSUME NEW op, NEW v, Call(op, v) \/ Allocating(op, v),
             Restorable(v.conn, v.contexts, v.sockets, corked)
      PROVE  corked' = corked /\ Restorable(conn', contexts', sockets', corked)
  <2>1. corked' = corked BY <1>3 DEF Call, Allocating, Timeless
  <2>2. \/ conn' = v.conn /\ contexts' = v.contexts /\ sockets' = v.sockets
        \/ conn' = conn /\ contexts' = contexts /\ sockets' = sockets
    BY <1>3 DEF Call, Allocating, Did
  <2> QED BY <1>3, <2>1, <2>2
<1>4. conn.managed_recv_io \/ conn.recv_io_context \in {NoContext, AppContext} BY DEF Restorable
<1>5. CASE SetFd
  <2>1. PICK fd \in Fds : \/ Allocating("set_read_fd", s2n_connection_set_read_fd(World, fd))
                          \/ Allocating("set_write_fd", s2n_connection_set_write_fd(World, fd))
    BY <1>5 DEF SetFd
  <2> DEFINE r == s2n_connection_set_read_fd(World, fd)
             s == s2n_connection_set_write_fd(World, fd)
  <2>2. /\ SameBut(r, World, RecvMembers) /\ Owns(r.conn, DOMAIN r.contexts)
        /\ r.conn.managed_recv_io /\ Carried(r, World)
    BY <1>1, SetReadFdOwns
  <2>3. Restorable(s.conn, s.contexts, s.sockets, corked) BY <1>1, <1>2, WriteFdRestorable
  <2>4. Allocating("set_read_fd", r) \/ Allocating("set_write_fd", s) BY <2>1
  <2> HIDE DEF r, s
  <2>5. Restorable(r.conn, r.contexts, r.sockets, corked) BY <1>1, <2>2, RecvRestorable
  <2> QED BY <1>3, <2>3, <2>4, <2>5
<1>6. CASE SetCallbacks
  <2> DEFINE a == s2n_connection_set_recv_cb(World, "app")
             b == s2n_connection_set_recv_ctx(World, AppContext)
             c == s2n_connection_set_send_cb(World, "app")
             d == s2n_connection_set_send_ctx(World, AppContext)
  <2>1. \/ Call("set_recv_cb", a) \/ Call("set_recv_ctx", b)
        \/ Call("set_send_cb", c) \/ Call("set_send_ctx", d)
    BY <1>6, Zenon DEF SetCallbacks
  <2>2. /\ SameBut(a, World, RecvMembers) /\ Owns(a.conn, DOMAIN a.contexts) /\ Carried(a, World)
        /\ a.conn.recv_io_context = IF World.conn.managed_recv_io THEN NoContext ELSE World.conn.recv_io_context
    BY <1>1, SetCallbacksOwns
  <2>3. /\ SameBut(b, World, RecvMembers) /\ Owns(b.conn, DOMAIN b.contexts) /\ Carried(b, World)
        /\ b.conn.recv_io_context = AppContext
    BY <1>1, SetCallbacksOwns
  <2>4. /\ SameBut(c, World, SendMembers) /\ Carried(c, World) /\ ~c.conn.managed_send_io
        /\ SameBut(d, World, SendMembers) /\ Carried(d, World) /\ ~d.conn.managed_send_io
    BY <1>1, SetCallbacksOwns
  <2> HIDE DEF a, b, c, d
  <2>5. a.conn.recv_io_context \in {NoContext, AppContext} BY <1>1, <1>4, <2>2
  <2>6. Restorable(a.conn, a.contexts, a.sockets, corked) BY <1>1, <2>2, <2>5, RecvRestorable
  <2>7. Restorable(b.conn, b.contexts, b.sockets, corked) BY <1>1, <2>3, RecvRestorable
  <2>8. Restorable(c.conn, c.contexts, c.sockets, corked) BY <1>1, <1>2, <2>4, SendRestorable
  <2>9. Restorable(d.conn, d.contexts, d.sockets, corked) BY <1>1, <1>2, <2>4, SendRestorable
  <2> QED BY <1>3, <2>1, <2>6, <2>7, <2>8, <2>9
<1> QED BY <1>5, <1>6

\* The other calls that concern the sockets.
LEMMA CorkRestorable ==
    ASSUME Shape, Holdings, Restorable(conn, contexts, sockets, corked), UseCorkedIo \/ Handshake
    PROVE  corked' = corked /\ Restorable(conn', contexts', sockets', corked)
<1>1. CASE UseCorkedIo
  <2> DEFINE w == s2n_connection_use_corked_io(World)
  <2>1. Call("use_corked_io", w) BY <1>1 DEF UseCorkedIo
  <2>2. /\ w.contexts = contexts /\ w.sockets = sockets
        /\ w.conn = conn \/ w.conn = [conn EXCEPT !.corked_io = TRUE]
    BY DEF s2n_connection_use_corked_io, Fail, World
  <2>3. conn' = w.conn /\ contexts' = contexts /\ sockets' = sockets /\ corked' = corked
    BY <2>1, <2>2 DEF Call, Did, Timeless
  <2> HIDE DEF w
  <2>4. CASE w.conn = conn BY <2>3, <2>4
  <2>5. CASE w.conn = [conn EXCEPT !.corked_io = TRUE]
    <3>1. /\ conn'.recv_io_context = conn.recv_io_context /\ conn'.managed_recv_io = conn.managed_recv_io
          /\ conn'.send = conn.send /\ conn'.send_io_context = conn.send_io_context
          /\ conn'.managed_send_io = conn.managed_send_io /\ conn'.handshake = conn.handshake
          /\ conn'.corked_io = TRUE
      BY <2>3, <2>5, MembersAre DEF Shape
    <3>2. Restorable(conn', contexts, sockets, corked) BY <3>1 DEF Restorable, Busy
    <3> QED BY <2>3, <3>2
  <2> QED BY <2>2, <2>4, <2>5
<1>2. CASE Handshake
  <2>1. PICK to \in {"WRITING", "READING", "DONE"} :
            Did("negotiate",
                 [s2n_advance_message(World, to = "WRITING")
                    EXCEPT !.conn.handshake = to,
                           !.conn.mem = (@ \cup HelloMemory \cup IF conn.handshake = "IDLE" THEN {} ELSE ExchangeMemory)
                                        \ IF to = "DONE" THEN {"handshake_io"} ELSE {}])
    BY <1>2 DEF Handshake
  <2>2. corked' = corked BY <1>2 DEF Handshake, Timeless
  <2> DEFINE a == s2n_advance_message(World, to = "WRITING")
             more == HelloMemory \cup IF conn.handshake = "IDLE" THEN {} ELSE ExchangeMemory
             less == IF to = "DONE" THEN {"handshake_io"} ELSE {}
             w == [a EXCEPT !.conn.handshake = to,
                            !.conn.mem = (@ \cup HelloMemory \cup IF conn.handshake = "IDLE" THEN {} ELSE ExchangeMemory)
                                         \ IF to = "DONE" THEN {"handshake_io"} ELSE {}]
             d == [conn EXCEPT !.handshake = to, !.mem = (conn.mem \cup more) \ less]
  <2>3. IsWorld(World) /\ World.conn = conn /\ World.contexts = contexts /\ World.sockets = sockets BY WorldIs
  <2>4. SameConn(a, World) BY <2>3, RestoreFrame
  <2>5. d.handshake = to /\ \A m \in SocketMembers \ {"handshake"} : d[m] = conn[m]
    BY MembersAre DEF Shape, SocketMembers
  <2> HIDE DEF d
  <2>6. a.contexts = contexts /\ Restorable(d, a.contexts, a.sockets, corked)
    BY <2>3, <2>5, AdvanceRestorable
  <2>7. conn' = w.conn /\ contexts' = w.contexts /\ sockets' = w.sockets BY <2>1 DEF Did
  <2> HIDE DEF a
  <2>8. w.contexts = a.contexts /\ w.sockets = a.sockets /\ w.conn = d
    BY <2>3, <2>4, MembersAre DEF d, SameConn, IsWorld, WorldFields
  <2> HIDE DEF w
  <2> QED BY <2>2, <2>6, <2>7, <2>8
<1> QED BY <1>1, <1>2

\* Every step keeps the sockets in this state.
LEMMA SocketStep == Base /\ SocketInv /\ [LifeNext]_lvars => SocketInv'
<1> SUFFICES ASSUME Base, SocketInv, [LifeNext]_lvars PROVE SocketInv' OBVIOUS
<1>1. Shape /\ Holdings /\ Settled BY DEF Base
<1>2. sockets \in [Fds -> BOOLEAN] /\ corked \in [Fds -> BOOLEAN] BY DEF SocketInv
<1>3. ASSUME conn'.alive, ~Wiped', Restorable(conn', contexts', sockets', corked') PROVE SocketInv'
  BY <1>3 DEF SocketInv, Restorable
<1>4. ASSUME NEW mode, NEW id, Suits(mode, id), conn' = Blank(mode, id),
             sockets' = corked', corked' \in [Fds -> BOOLEAN]
      PROVE  SocketInv'
  <2> DEFINE b == Blank(mode, id)
  <2>1. IsBlank(b, mode, id) BY <1>4, BlankIs
  <2> HIDE DEF b
  <2>2. /\ conn'.alive = TRUE /\ conn'.managed_recv_io = FALSE /\ conn'.managed_send_io = FALSE
        /\ conn'.recv_io_context = NoContext
    BY <1>4, <2>1 DEF b, IsBlank
  <2>3. Restorable(conn', contexts', sockets', corked') BY <1>4, <2>2 DEF Restorable
  <2> QED BY <1>4, <2>2, <2>3 DEF SocketInv
<1>5. CASE New
  <2>1. PICK mode : conn' = Blank(mode, "default") BY <1>1, <1>5, NewEffect
  <2>2. corked' = sockets /\ sockets' = sockets BY <1>1, <1>2, <1>5, NewEffect
  <2>3. Suits(mode, "default") BY <1>1, DefaultFits DEF Settled, Suits, NULL
  <2> QED BY <1>2, <1>4, <2>1, <2>2, <2>3
<1>6. CASE SetConfig
  <2>1. PICK id \in AppIds : conn' = ConfigConn(conn, id) BY <1>1, <1>6, SetConfigEffect
  <2>2. Usable /\ last'.op = "set_config" /\ UNCHANGED <<contexts, sockets, corked>>
    BY <1>1, <1>6, SetConfigEffect
  <2>3. ConnBut(conn', conn, ConfigMembers) BY <1>1, <2>1, ConfigConnFrame DEF Shape
  <2>4. conn'.alive = conn.alive /\ \A m \in SocketMembers : conn'[m] = conn[m]
    BY <2>3, MembersAre DEF ConnBut, ConfigMembers, SocketMembers
  <2>5. conn.alive /\ Restorable(conn, contexts, sockets, corked) BY <2>2 DEF Usable, SocketInv
  <2>6. Restorable(conn', contexts, sockets, corked) BY <2>4, <2>5, RestorableKept
  <2>7. ~Wiped' BY <2>2 DEF Wiped
  <2> QED BY <1>3, <2>2, <2>4, <2>5, <2>6, <2>7
<1>7. CASE Ordinary
  <2>1. Usable /\ Tame(conn', DOMAIN contexts') /\ last'.op # "wipe"
    BY <1>1, <1>7, OrdinarySteps DEF Stepped
  <2>2. conn.alive /\ Restorable(conn, contexts, sockets, corked) BY <2>1 DEF Usable, SocketInv
  <2>3. conn'.alive = conn.alive BY <2>1, MembersAre DEF Tame, ConnBut, Loose
  <2>4. ~Wiped' BY <2>1 DEF Wiped
  <2>5. Restorable(conn', contexts', sockets', corked')
    <3>1. CASE \/ SetClientAuthType \/ SetVerifyHost \/ SetPskMode \/ AppendPsk \/ SetServerName \/ SetOther
               \/ Receive \/ BreakPipe \/ ReleaseBuffers \/ FreeHandshake \/ Shutdown
      <4>1. Quiet BY <1>1, <3>1, QuietSteps
      <4>2. Restorable(conn', contexts, sockets, corked) BY <2>2, <4>1, RestorableKept DEF Quiet
      <4> QED BY <4>1, <4>2 DEF Quiet
    <3>2. CASE SetFd \/ SetCallbacks BY <1>1, <2>2, <3>2, IoRestorable
    <3>3. CASE UseCorkedIo \/ Handshake BY <1>1, <2>2, <3>3, CorkRestorable
    <3> QED BY <1>7, <3>1, <3>2, <3>3 DEF Ordinary
  <2> QED BY <1>3, <2>2, <2>3, <2>4, <2>5
<1>8. CASE Error
  <2>1. /\ Usable /\ UNCHANGED <<contexts, sockets, corked>> /\ last' = Other
        /\ ConnBut(conn', conn, {"closed", "delay", "write_timer"})
    BY <1>1, <1>8, ErrorEffect
  <2>2. conn'.alive = conn.alive /\ \A m \in SocketMembers : conn'[m] = conn[m]
    BY <2>1, MembersAre DEF ConnBut, SocketMembers
  <2>3. conn.alive /\ Restorable(conn, contexts, sockets, corked) BY <2>1 DEF Usable, SocketInv
  <2>4. Restorable(conn', contexts, sockets, corked) BY <2>2, <2>3, RestorableKept
  <2>5. ~Wiped' BY <2>1 DEF Wiped, Other
  <2> QED BY <1>3, <2>1, <2>2, <2>3, <2>4, <2>5
<1>9. CASE Tick \/ UNCHANGED lvars
  <2>1. UNCHANGED <<conn, contexts, sockets, corked, last>> BY <1>9 DEF Tick, lvars
  <2> QED BY <2>1 DEF SocketInv, Wiped
<1>10. CASE Wipe
  <2>1. conn.alive /\ corked' = corked BY <1>1, <1>10, WipeEffect
  <2>2. Restorable(conn, contexts, sockets, corked) BY <2>1 DEF SocketInv
  <2>3. IF last'.ok THEN sockets' = corked ELSE Restorable(conn', contexts', sockets', corked)
    BY <1>1, <1>10, <2>2, WipeEffect
  <2>4. CASE last'.ok /\ conn' = Blank(conn.mode, conn.config)
    <3>1. Suits(conn.mode, conn.config) BY <1>1, <2>1, ZeroedIs DEF Settled, Refused, Suits
    <3> QED BY <1>2, <1>4, <2>1, <2>3, <2>4, <3>1
  <2>5. CASE ~last'.ok /\ ConnBut(conn', conn, WipeMembers)
    <3>1. ~Wiped' BY <2>5 DEF Wiped
    <3>2. conn'.alive = conn.alive BY <2>5, MembersAre DEF ConnBut, WipeMembers, RecvMembers, SendMembers
    <3> QED BY <1>3, <2>1, <2>3, <2>5, <3>1, <3>2
  <2> QED BY <1>1, <1>10, <2>4, <2>5, WipeEffect
<1>11. CASE Destroy
  <2>1. conn' = [Freed EXCEPT !.mem = {}] /\ last' = Other /\ UNCHANGED <<sockets, corked>>
    BY <1>1, <1>11, DestroyEffect
  <2>2. conn'.alive = FALSE /\ conn'.handshake = "IDLE" BY <2>1 DEF Freed, Zeroed
  <2>3. ~Wiped' BY <2>1 DEF Wiped, Other
  <2> QED BY <1>2, <2>1, <2>2, <2>3 DEF SocketInv
<1> QED BY <1>5, <1>6, <1>7, <1>8, <1>9, <1>10, <1>11 DEF LifeNext, Ordinary

\* It holds at first, also when the connection has been given a socket.
LEMMA InitSockets ==
    ASSUME LifeInit
    PROVE  SocketInv
<1>1. /\ configs["default"] = s2n_config_init /\ sockets = corked /\ corked \in [Fds -> BOOLEAN] /\ ~Wiped
  BY DEF LifeInit, Wiped, Other
<1> DEFINE n == NoWorld(corked)
           New2(mode) == s2n_connection_new(n, mode)
           Read(mode, fd) == s2n_connection_set_read_fd(New2(mode), fd)
           Write(mode, fd) == s2n_connection_set_write_fd(Read(mode, fd), fd)
<1>2. /\ IsWorld(n) /\ n.ok /\ DOMAIN n.contexts = {} /\ n.sockets = corked
      /\ n.conn.alive = FALSE /\ n.conn.handshake = "IDLE"
  BY DEF NoWorld, IsWorld, WorldFields, Freed, Zeroed, Members
<1>3. PICK w : /\ conn = w.conn /\ contexts = w.contexts
               /\ w = n \/ \E mode \in {"CLIENT", "SERVER"}, fd \in Fds : w = Write(mode, fd)
  BY DEF LifeInit
<1> HIDE DEF n
<1>4. CASE w = n BY <1>1, <1>2, <1>3, <1>4 DEF SocketInv
<1>5. ASSUME NEW mode, NEW fd \in Fds, w = Write(mode, fd)
      PROVE  SocketInv
  <2> DEFINE a == New2(mode)
             b == Read(mode, fd)
             k == Blank(mode, "default")
  <2>1. IsWorld(a) /\ a.ok /\ DOMAIN a.contexts = {} /\ a.conn = k /\ a.sockets = corked
    BY <1>1, <1>2, NewIs
  <2>2. Suits(mode, "default") BY <1>1, DefaultFits DEF Suits, NULL
  <2>3. IsBlank(k, mode, "default") BY <2>2, BlankIs
  <2> HIDE DEF a, k
  <2>4. Owns(a.conn, DOMAIN a.contexts) BY <2>1, <2>3 DEF IsBlank, Owns, Owned
  <2>5. Restorable(a.conn, a.contexts, a.sockets, corked)
    <3>1. /\ a.conn.managed_recv_io = FALSE /\ a.conn.managed_send_io = FALSE
          /\ a.conn.recv_io_context = NoContext
      BY <2>1, <2>3 DEF IsBlank
    <3> QED BY <1>1, <2>1, <3>1 DEF Restorable
  <2>6. /\ SameBut(b, a, RecvMembers) /\ Owns(b.conn, DOMAIN b.contexts)
        /\ b.conn.managed_recv_io /\ Carried(b, a)
    BY <2>1, <2>4, SetReadFdOwns DEF a
  <2>7. w = s2n_connection_set_write_fd(b, fd) BY <1>5
  <2> HIDE DEF b
  <2>8. IsWorld(b) /\ b.sockets = corked BY <2>1, <2>6 DEF SameBut, Carried
  <2>9. Restorable(b.conn, b.contexts, b.sockets, corked) BY <2>4, <2>5, <2>6, RecvRestorable
  <2>10. Restorable(w.conn, w.contexts, w.sockets, corked) BY <2>6, <2>7, <2>8, <2>9, WriteFdRestorable
  <2>11. SameBut(w, b, SendMembers) /\ Carried(w, b) BY <2>6, <2>7, <2>8, SetWriteFdOwns
  <2>12. w.sockets = sockets BY <1>1, <2>8, <2>11 DEF Carried
  <2>13. conn.alive = k.alive
    BY <1>3, <2>1, <2>6, <2>11, MembersAre DEF SameBut, RecvMembers, SendMembers
  <2> QED BY <1>1, <1>3, <2>3, <2>10, <2>12, <2>13 DEF SocketInv, IsBlank
<1> QED BY <1>3, <1>4, <1>5

\* And it is what has to be shown.
LEMMA SocketInvMeans == SocketInv => SocketsRestored
<1> SUFFICES ASSUME SocketInv, Wiped \/ conn.handshake = "DONE"
             PROVE  Cardinality({fd \in Fds : sockets[fd] # corked[fd]}) = 0
  BY DEF SocketsRestored
<1>1. conn.alive /\ Restorable(conn, contexts, sockets, corked) BY DEF SocketInv
<1>2. ~Busy(conn) BY DEF SocketInv, Busy
<1>3. sockets = corked BY <1>1, <1>2, IdleSockets
<1>4. {fd \in Fds : sockets[fd] # corked[fd]} = {} BY <1>3
<1> QED BY <1>4, FS_EmptySet

(***************************************************************************)
(* The application gets its sockets back.  Once the handshake is over, and *)
(* once the connection has been wiped in the middle of it, every socket is *)
(* corked exactly if the application had corked it, for any number of      *)
(* sockets and however descriptors, callbacks and corked I/O are set       *)
(* before: the state of the socket that s2n_socket_write_snapshot took is  *)
(* still there when s2n_advance_message and s2n_connection_wipe_io restore *)
(* it, and a wipe that fails has either not touched it or restored it.     *)
(***************************************************************************)
THEOREM SocketsAlwaysRestored == LifeSpec => []SocketsRestored
<1>1. LifeInit => Base /\ SocketInv BY InitBase, InitSockets
<1>2. Base /\ SocketInv /\ [LifeNext]_lvars => Base' /\ SocketInv' BY BaseStep, SocketStep
<1> QED BY <1>1, <1>2, SocketInvMeans, PTL DEF LifeSpec

-----------------------------------------------------------------------------
(* The chains of a config.                                                 *)

\* A chain is freed once at most, and has an owner while it is there.
ChainRight(c) == /\ c.freed \in {0, 1}
                 /\ c.alive \in BOOLEAN
                 /\ c.alive => c.freed = 0 /\ c.owner # NULL

\* What a config refers to.
Defaults(s) == {s.default_certs_by_type[t] : t \in CertTypes}

\* The config s, with these chains in it, owns the chains cs that the application
\* has no handle of, and refers to no chain that has been freed.
StoreRight(s, cs, as) ==
    /\ DOMAIN s = DOMAIN s2n_config_init
    /\ DOMAIN s.default_certs_by_type = CertTypes
    /\ s.default_certs_are_explicit \in BOOLEAN /\ s.cert_allocated \in BOOLEAN
    /\ \A id \in Range(as) : id \in Chains /\ cs[id].alive
    /\ \A id \in Defaults(s) : id = NULL \/ (id \in Chains /\ cs[id].alive)
    /\ as = <<>> => ~s.cert_allocated
    /\ as = <<>> /\ ~s.default_certs_are_explicit => \A id \in Defaults(s) : id = NULL
    /\ \A id \in Chains : cs[id].owner = "config" => s.cert_allocated /\ id \in Defaults(s)

ChainInv ==
    /\ DOMAIN chains = Chains
    /\ \A id \in Chains : ChainRight(chains[id])
    /\ live \in BOOLEAN
    /\ live => StoreRight(store, chains, added)
    /\ ~live => \A id \in Chains : chains[id].owner = "config" => chains[id].freed = 1
    /\ added \in Seq(Chains)

\* A chain that has been read is there, and one that is good has a type.
LEMMA LoadIs ==
    ASSUME NEW pem
    PROVE  LET r == s2n_cert_chain_and_key_load_pem(s2n_cert_chain_and_key_new, pem)
           IN  /\ DOMAIN r.chain = DOMAIN s2n_cert_chain_and_key_new
               /\ r.chain.alive = TRUE /\ r.chain.freed = 0
               /\ r.ok \in BOOLEAN /\ (r.ok => r.chain.type \in CertTypes)
<1> DEFINE read == s2n_create_cert_chain_from_stuffer(pem.body)
           have == [s2n_cert_chain_and_key_new EXCEPT !.certs = read.certs]
           keyed == [have EXCEPT !.key = pem.private, !.type = pem.type]
           untyped == [keyed EXCEPT !.type = NULL]
           sans == s2n_cert_chain_and_key_load_sans(pem)
           cns == s2n_cert_chain_and_key_load_cns(pem)
           named == [keyed EXCEPT !.san_names = sans, !.cn_names = cns]
           r == s2n_cert_chain_and_key_load_pem(s2n_cert_chain_and_key_new, pem)
<1>1. \/ r = [ok |-> FALSE, chain |-> have]
      \/ r = [ok |-> FALSE, chain |-> untyped]
      \/ r = [ok |-> FALSE, chain |-> keyed]
      \/ r = [ok |-> TRUE, chain |-> named] /\ pem.type \in CertTypes
  BY Zenon DEF s2n_cert_chain_and_key_load_pem
<1> HIDE DEF r, sans, cns, read
<1>2. /\ DOMAIN have = DOMAIN s2n_cert_chain_and_key_new /\ have.alive = TRUE /\ have.freed = 0
      /\ DOMAIN s2n_cert_chain_and_key_new = {"alive", "freed", "owner", "type", "key", "certs", "san_names",
                                              "cn_names", "ocsp_status"}
  BY DEF s2n_cert_chain_and_key_new
<1> HIDE DEF have
<1>3. \A c \in {keyed, named, untyped} :
         DOMAIN c = DOMAIN s2n_cert_chain_and_key_new /\ c.alive = TRUE /\ c.freed = 0
  BY <1>2
<1>4. named.type = pem.type BY <1>2
<1> HIDE DEF keyed, named, untyped
<1>5. /\ DOMAIN r.chain = DOMAIN s2n_cert_chain_and_key_new
      /\ r.chain.alive = TRUE /\ r.chain.freed = 0
      /\ r.ok \in BOOLEAN /\ (r.ok => r.chain.type \in CertTypes)
  <2>1. \A c \in {have, untyped, keyed, named} :
           DOMAIN c = DOMAIN s2n_cert_chain_and_key_new /\ c.alive = TRUE /\ c.freed = 0
    BY <1>2, <1>3
  <2>2. r.chain \in {have, untyped, keyed, named} BY <1>1
  <2>3. r.ok => r.chain = named /\ pem.type \in CertTypes BY <1>1
  <2>4. r.ok = TRUE \/ r.ok = FALSE BY <1>1
  <2> QED BY <1>4, <2>1, <2>2, <2>3, <2>4
<1> QED BY <1>5 DEF r

\* The defaults of the config s when a chain of this type is added.
AsDefault(s, type, id) ==
    [s.default_certs_by_type EXCEPT ![type] =
        IF ~s.default_certs_are_explicit /\ s.default_certs_by_type[type] = NULL THEN id
        ELSE s.default_certs_by_type[type]]

\* What adding a chain does to a config: it is a default when there is none.
LEMMA AddIs ==
    ASSUME NEW s, DOMAIN s = DOMAIN s2n_config_init, DOMAIN s.default_certs_by_type = CertTypes, NEW c, NEW id
    PROVE  LET t == s2n_config_add_cert_chain_and_key_to_store(s, c, id)
           IN  /\ DOMAIN t = DOMAIN s2n_config_init /\ t.default_certs_by_type = AsDefault(s, c.type, id)
               /\ t.default_certs_are_explicit = s.default_certs_are_explicit /\ t.cert_allocated = s.cert_allocated
<1> DEFINE names == IF c.san_names = <<>> THEN c.cn_names ELSE c.san_names
           map == FoldLeft(LAMBDA m, name : s2n_config_update_domain_name_to_cert_map(m, name, id, c.type, s.cert_tiebreak_cb),
                           s.domain_name_to_cert_map, names)
           b == [s EXCEPT !.domain_name_to_cert_map = map]
<1>1. s2n_config_build_domain_name_to_cert_map(s, c, id) = b
  BY Zenon DEF s2n_config_build_domain_name_to_cert_map, EnterNames
<1> HIDE DEF map
<1>2. DOMAIN s2n_config_init =
        {"client_cert_auth_type", "check_ocsp", "disable_x509_validation", "max_verify_cert_chain_depth",
         "verify_host", "status_request_type", "trust_store", "initial_tickets_to_send", "psk_mode",
         "quic_enabled", "async_pkey_cb", "no_signing_key", "default_certs_by_type",
         "default_certs_are_explicit", "is_rsa_cert_configured", "cert_allocated", "cert_tiebreak_cb",
         "domain_name_to_cert_map"}
  BY DEF s2n_config_init
<1>3. /\ DOMAIN b = DOMAIN s2n_config_init /\ b.default_certs_by_type = s.default_certs_by_type
      /\ b.default_certs_are_explicit = s.default_certs_are_explicit /\ b.cert_allocated = s.cert_allocated
  BY <1>2
<1> HIDE DEF b
<1> QED BY <1>1, <1>2, <1>3 DEF s2n_config_add_cert_chain_and_key_to_store, AsDefault

\* A config that refers to the same chains does so too when others change.
LEMMA StoreKept ==
    ASSUME NEW s, NEW cs, NEW ds, NEW as, StoreRight(s, cs, as),
           \A id \in Chains : ds[id].owner = "config" => cs[id].owner = "config",
           \A id \in Chains : cs[id].alive /\ (id \in Range(as) \/ id \in Defaults(s)) => ds[id].alive
    PROVE  StoreRight(s, ds, as)
BY DEF StoreRight

\* What the application does to its own chains.
LEMMA OwnChainStep ==
    ASSUME ChainInv, NEW id \in Chains, NEW c, ChainRight(c), c.owner # "config",
           chains' = [chains EXCEPT ![id] = c], UNCHANGED <<store, live, added>>,
           live => (chains[id].alive /\ (id \in Range(added) \/ id \in Defaults(store)) => c.alive)
    PROVE  ChainInv'
<1>1. DOMAIN chains' = Chains /\ chains'[id] = c /\ \A o \in Chains \ {id} : chains'[o] = chains[o]
  BY DEF ChainInv
<1>2. \A o \in Chains : ChainRight(chains'[o]) BY <1>1 DEF ChainInv
<1>3. \A o \in Chains : chains'[o].owner = "config" => o # id /\ chains'[o] = chains[o] BY <1>1
<1>4. live => StoreRight(store, chains', added) BY <1>1, <1>3, StoreKept DEF ChainInv
<1>5. ~live => \A o \in Chains : chains'[o].owner = "config" => chains'[o].freed = 1 BY <1>3 DEF ChainInv
<1> QED BY <1>1, <1>2, <1>4, <1>5 DEF ChainInv

\* Loading a chain.
LEMMA LoadStep ==
    ASSUME ChainInv, NEW id \in Chains, LoadChain(id)
    PROVE  ChainInv'
<1> DEFINE r == s2n_cert_chain_and_key_load_pem(s2n_cert_chain_and_key_new, Pems[id])
           f == s2n_cert_chain_and_key_free(r.chain)
           c == [(IF r.ok THEN r.chain ELSE f) EXCEPT !.owner = "app"]
<1>1. chains' = [chains EXCEPT ![id] = c] /\ chains[id].owner = NULL /\ UNCHANGED <<store, live, added>>
  BY DEF LoadChain, Unused
<1>2. DOMAIN r.chain = DOMAIN s2n_cert_chain_and_key_new /\ r.chain.alive = TRUE /\ r.chain.freed = 0
  BY LoadIs
<1> HIDE DEF r
<1>3. DOMAIN f = DOMAIN NoChain /\ f.alive = FALSE /\ f.freed = 1
  BY <1>2 DEF s2n_cert_chain_and_key_free, NoChain
<1> HIDE DEF f
<1>4. ChainRight(c) /\ c.owner = "app"
  <2>1. DOMAIN s2n_cert_chain_and_key_new = {"alive", "freed", "owner", "type", "key", "certs", "san_names",
                                             "cn_names", "ocsp_status"}
    BY DEF s2n_cert_chain_and_key_new
  <2>2. DOMAIN NoChain = {"alive", "freed", "owner"} BY DEF NoChain
  <2>3. CASE r.ok BY <1>2, <2>1, <2>3 DEF ChainRight, NULL
  <2>4. CASE ~r.ok BY <1>3, <2>2, <2>4 DEF ChainRight, NULL
  <2> QED BY <2>3, <2>4
<1>5. ~chains[id].alive BY <1>1 DEF ChainInv, ChainRight
<1> HIDE DEF c
<1> QED BY <1>1, <1>4, <1>5, OwnChainStep

\* Freeing one that no config refers to.
LEMMA FreeStep ==
    ASSUME ChainInv, NEW id \in Chains, FreeChain(id)
    PROVE  ChainInv'
<1> DEFINE c == s2n_cert_chain_and_key_free(chains[id])
<1>1. /\ chains' = [chains EXCEPT ![id] = c] /\ UNCHANGED <<store, live, added>>
      /\ chains[id].alive /\ chains[id].owner = "app"
      /\ ~live \/ id \notin Range(added) \cup Range(store.default_certs_by_type)
  BY DEF FreeChain, Mine
<1>2. c.alive = FALSE /\ c.freed = chains[id].freed + 1 /\ c.owner = "app"
  BY <1>1 DEF s2n_cert_chain_and_key_free, NoChain
<1> HIDE DEF c
<1>3. chains[id].freed = 0 BY <1>1 DEF ChainInv, ChainRight
<1>4. ChainRight(c)
  <2>1. c.freed = 1 BY <1>2, <1>3
  <2> QED BY <1>2, <2>1 DEF ChainRight
<1>5. live => id \notin Defaults(store)
  BY <1>1 DEF ChainInv, StoreRight, Defaults, Range
<1> QED BY <1>1, <1>2, <1>4, <1>5, OwnChainStep

\* A response for a chain.
LEMMA OcspStep ==
    ASSUME ChainInv, NEW id \in Chains, NEW response, SetOcspData(id, response)
    PROVE  ChainInv'
<1> DEFINE c == s2n_cert_chain_and_key_set_ocsp_data(chains[id], response)
<1>1. /\ chains' = [chains EXCEPT ![id] = c] /\ UNCHANGED <<store, live, added>>
      /\ chains[id].alive /\ chains[id].owner = "app"
  BY DEF SetOcspData, Mine
<1>2. c.alive = chains[id].alive /\ c.freed = chains[id].freed /\ c.owner = chains[id].owner
  BY DEF s2n_cert_chain_and_key_set_ocsp_data
<1> HIDE DEF c
<1>3. ChainRight(c) BY <1>2 DEF ChainInv, ChainRight
<1> QED BY <1>1, <1>2, <1>3, OwnChainStep

\* A chain of the application's is added to its config.
LEMMA AddStep ==
    ASSUME ChainInv, NEW id \in Chains, AddToStore(id)
    PROVE  ChainInv'
<1> DEFINE c == chains[id]
           t == s2n_config_add_cert_chain_and_key_to_store(store, c, id)
<1>1. /\ live /\ chains[id].alive /\ ~store.cert_allocated /\ store' = t /\ added' = Append(added, id)
      /\ UNCHANGED <<chains, live>>
  BY DEF AddToStore, Mine
<1>2. StoreRight(store, chains, added) /\ added \in Seq(Chains) BY <1>1 DEF ChainInv
<1>3. /\ DOMAIN t = DOMAIN s2n_config_init /\ t.default_certs_by_type = AsDefault(store, c.type, id)
      /\ t.default_certs_are_explicit = store.default_certs_are_explicit /\ t.cert_allocated = store.cert_allocated
  <2>1. DOMAIN store = DOMAIN s2n_config_init /\ DOMAIN store.default_certs_by_type = CertTypes
    BY <1>2 DEF StoreRight
  <2> QED BY <2>1, AddIs
<1> HIDE DEF t, c
<1>4. DOMAIN t.default_certs_by_type = CertTypes /\ Defaults(t) \subseteq Defaults(store) \cup {id}
  BY <1>2, <1>3 DEF StoreRight, Defaults, AsDefault
<1>5. added' # <<>> /\ added' \in Seq(Chains) /\ Range(added') \subseteq Range(added) \cup {id}
  BY <1>1, <1>2 DEF Range
<1>6. StoreRight(t, chains, added') BY <1>1, <1>2, <1>3, <1>4, <1>5 DEF StoreRight
<1> QED BY <1>1, <1>5, <1>6 DEF ChainInv

\* A pair is added to an empty config, which makes the chain and owns it.
LEMMA PemsStep ==
    ASSUME ChainInv, NEW id \in Chains, AddPems(id)
    PROVE  ChainInv'
<1> DEFINE r == s2n_cert_chain_and_key_load_pem(s2n_cert_chain_and_key_new, Pems[id])
           c == [r.chain EXCEPT !.owner = IF r.ok THEN "config" ELSE "nobody"]
           t == s2n_config_add_cert_chain_and_key_to_store(store, r.chain, id)
           u == [t EXCEPT !.cert_allocated = TRUE]
<1>1. /\ live /\ added = <<>> /\ ~store.default_certs_are_explicit /\ chains[id].owner = NULL
      /\ store' = IF r.ok THEN u ELSE store
      /\ added' = IF r.ok THEN <<id>> ELSE added
      /\ chains' = [chains EXCEPT ![id] = c] /\ live' = live
  BY DEF AddPems, Unused
<1>2. /\ DOMAIN r.chain = DOMAIN s2n_cert_chain_and_key_new /\ r.chain.alive = TRUE /\ r.chain.freed = 0
      /\ r.ok => r.chain.type \in CertTypes
  BY LoadIs
<1>3. StoreRight(store, chains, added) BY <1>1 DEF ChainInv
<1>4. /\ DOMAIN t = DOMAIN s2n_config_init /\ t.default_certs_by_type = AsDefault(store, r.chain.type, id)
      /\ t.default_certs_are_explicit = store.default_certs_are_explicit
  <2>1. DOMAIN store = DOMAIN s2n_config_init /\ DOMAIN store.default_certs_by_type = CertTypes
    BY <1>3 DEF StoreRight
  <2> HIDE DEF r
  <2> QED BY <2>1, AddIs
<1> HIDE DEF r
<1>5. c.alive = TRUE /\ c.freed = 0 /\ c.owner = IF r.ok THEN "config" ELSE "nobody"
  BY <1>2 DEF s2n_cert_chain_and_key_new
<1> HIDE DEF c
<1>6. ChainRight(c) BY <1>5 DEF ChainRight, NULL
<1>7. CASE ~r.ok
  <2>1. c.owner # "config" /\ UNCHANGED <<store, live, added>> BY <1>1, <1>5, <1>7
  <2> QED BY <1>1, <1>5, <1>6, <2>1, OwnChainStep
<1>8. CASE r.ok
  <2> HIDE DEF t
  <2>1. store' = u /\ added' = <<id>> /\ c.owner = "config" BY <1>1, <1>5, <1>8
  <2>2. /\ DOMAIN u = DOMAIN s2n_config_init /\ u.default_certs_by_type = AsDefault(store, r.chain.type, id)
        /\ u.cert_allocated = TRUE /\ u.default_certs_are_explicit = store.default_certs_are_explicit
    BY <1>4 DEF s2n_config_init
  <2> HIDE DEF u
  <2>3. DOMAIN chains' = Chains /\ chains'[id] = c /\ \A o \in Chains \ {id} : chains'[o] = chains[o]
    BY <1>1 DEF ChainInv
  <2>4. \A o \in Chains : ChainRight(chains'[o]) BY <1>6, <2>3 DEF ChainInv
  <2>5. \A t2 \in CertTypes : store.default_certs_by_type[t2] = NULL BY <1>1, <1>3 DEF StoreRight, Defaults
  <2>6. /\ DOMAIN u.default_certs_by_type = CertTypes
        /\ \A t2 \in CertTypes : u.default_certs_by_type[t2] = IF t2 = r.chain.type THEN id ELSE NULL
    BY <1>1, <1>2, <1>3, <1>8, <2>2, <2>5 DEF StoreRight, AsDefault
  <2>7. id \in Defaults(u) /\ Defaults(u) \subseteq {id, NULL} BY <1>2, <1>8, <2>6 DEF Defaults
  <2>8. added' \in Seq(Chains) /\ added' # <<>> /\ Range(added') = {id} BY <2>1 DEF Range
  <2>9. \A o \in Chains : chains'[o].owner = "config" => o = id BY <1>1, <1>3, <2>3 DEF StoreRight
  <2>10. StoreRight(u, chains', added')
    BY <1>1, <1>3, <1>5, <2>2, <2>3, <2>6, <2>7, <2>8, <2>9 DEF StoreRight
  <2> QED BY <1>1, <2>1, <2>3, <2>4, <2>8, <2>10 DEF ChainInv
<1> QED BY <1>7, <1>8

\* The application chooses the defaults among its own chains.
LEMMA DefaultsStep ==
    ASSUME ChainInv, NEW ids \in SUBSET Chains, SetDefaults(ids)
    PROVE  ChainInv'
<1> DEFINE TypeOf(id) == chains[id].type
           types == {TypeOf(id) : id \in ids}
           d == [t \in CertTypes |-> IF t \in types THEN CHOOSE id \in ids : TypeOf(id) = t ELSE NULL]
           u == [s2n_config_clear_default_certificates(store) EXCEPT
                   !.default_certs_by_type = d,
                   !.is_rsa_cert_configured = @ \/ "RSA" \in types,
                   !.default_certs_are_explicit = TRUE]
<1>1. /\ live /\ ~store.cert_allocated /\ \A id \in ids : chains[id].alive
      /\ store' = s2n_config_set_cert_chain_and_key_defaults(store, ids) /\ UNCHANGED <<chains, live, added>>
  BY DEF SetDefaults, Mine
<1>2. StoreRight(store, chains, added) BY <1>1 DEF ChainInv
<1>3. store' = store \/ store' = u
  BY <1>1, Zenon DEF s2n_config_set_cert_chain_and_key_defaults
<1>4. CASE store' = store BY <1>1, <1>4 DEF ChainInv
<1>5. CASE store' = u
  <2>1. \A t \in CertTypes : d[t] \in ids \cup {NULL}
    <3> SUFFICES ASSUME NEW t \in CertTypes, t \in types PROVE d[t] \in ids OBVIOUS
    <3>1. \E id \in ids : TypeOf(id) = t OBVIOUS
    <3>2. (CHOOSE id \in ids : TypeOf(id) = t) \in ids BY <3>1
    <3> QED BY <3>2
  <2>2. DOMAIN d = CertTypes OBVIOUS
  <2> HIDE DEF d, types
  <2>3. /\ DOMAIN u = DOMAIN s2n_config_init /\ u.default_certs_by_type = d
        /\ u.default_certs_are_explicit = TRUE /\ u.cert_allocated = store.cert_allocated
    BY <1>2 DEF StoreRight, s2n_config_clear_default_certificates, s2n_config_init
  <2> HIDE DEF u
  <2>4. \A id \in Defaults(u) : id = NULL \/ (id \in Chains /\ chains[id].alive)
    BY <1>1, <2>1, <2>3 DEF Defaults
  <2>5. \A id \in Chains : chains[id].owner # "config" BY <1>1, <1>2 DEF StoreRight
  <2>6. StoreRight(u, chains, added) BY <1>1, <1>2, <2>2, <2>3, <2>4, <2>5 DEF StoreRight
  <2> QED BY <1>1, <1>5, <2>6 DEF ChainInv
<1> QED BY <1>3, <1>4, <1>5

\* The config is freed, and with it the chain it made.
LEMMA FreeConfigStep ==
    ASSUME ChainInv, FreeConfig
    PROVE  ChainInv'
<1>1. /\ live /\ live' = FALSE /\ UNCHANGED <<store, added>>
      /\ chains' = s2n_config_free_cert_chain_and_key(store)
  BY DEF FreeConfig
<1>2. StoreRight(store, chains, added) BY <1>1 DEF ChainInv
<1>3. CASE ~store.cert_allocated
  <2>1. chains' = chains BY <1>1, <1>3 DEF s2n_config_free_cert_chain_and_key
  <2>2. \A id \in Chains : chains[id].owner # "config" BY <1>2, <1>3 DEF StoreRight
  <2> QED BY <1>1, <2>1, <2>2 DEF ChainInv
<1>4. CASE store.cert_allocated
  <2> DEFINE F(id) == s2n_cert_chain_and_key_free(chains[id])
  <2>1. chains' = [id \in Chains |-> IF \E t \in CertTypes : store.default_certs_by_type[t] = id
                                     THEN F(id) ELSE chains[id]]
    BY <1>1, <1>4 DEF s2n_config_free_cert_chain_and_key
  <2>2. \A id \in Chains : F(id).alive = FALSE /\ F(id).freed = chains[id].freed + 1 /\ F(id).owner = chains[id].owner
    BY DEF s2n_cert_chain_and_key_free, NoChain
  <2> HIDE DEF F
  <2>3. \A id \in Chains : chains'[id] = IF id \in Defaults(store) THEN F(id) ELSE chains[id]
    BY <2>1 DEF Defaults
  <2>4. ASSUME NEW id \in Chains, id \in Defaults(store)
        PROVE  F(id).freed = 1 /\ ChainRight(F(id))
    <3>1. chains[id].alive BY <1>2, <2>4, CertAssumption DEF StoreRight
    <3>2. chains[id].freed = 0 BY <3>1 DEF ChainInv, ChainRight
    <3>3. F(id).freed = 1 BY <2>2, <3>2
    <3> QED BY <2>2, <3>3 DEF ChainRight
  <2>5. \A id \in Chains : ChainRight(chains'[id]) BY <2>3, <2>4 DEF ChainInv
  <2>6. ASSUME NEW id \in Chains, chains'[id].owner = "config" PROVE chains'[id].freed = 1
    <3>1. chains[id].owner = "config" BY <2>2, <2>3, <2>6
    <3>2. id \in Defaults(store) BY <1>2, <3>1 DEF StoreRight
    <3> QED BY <2>3, <2>4, <3>2
  <2>7. DOMAIN chains' = Chains BY <2>1
  <2> QED BY <1>1, <2>5, <2>6, <2>7 DEF ChainInv
<1> QED BY <1>3, <1>4

\* Every step keeps the chains.
LEMMA ChainStep == ChainInv /\ [CertNext]_certvars => ChainInv'
<1> SUFFICES ASSUME ChainInv, [CertNext]_certvars PROVE ChainInv' OBVIOUS
<1>1. ASSUME UNCHANGED <<chains, store, live, added>> PROVE ChainInv'
  BY <1>1 DEF ChainInv
<1>2. CASE \E id \in Chains : LoadChain(id) \/ AddPems(id) \/ AddToStore(id) \/ FreeChain(id)
  BY <1>2, LoadStep, PemsStep, AddStep, FreeStep
<1>3. CASE \E ids \in SUBSET Chains : SetDefaults(ids) BY <1>3, DefaultsStep
<1>4. CASE SetTiebreak
  <2>1. live /\ store' = [store EXCEPT !.cert_tiebreak_cb = "newest"] /\ UNCHANGED <<chains, live, added>>
    BY <1>4 DEF SetTiebreak
  <2>2. StoreRight(store, chains, added) BY <2>1 DEF ChainInv
  <2>3. /\ DOMAIN store' = DOMAIN s2n_config_init /\ store'.default_certs_by_type = store.default_certs_by_type
        /\ store'.default_certs_are_explicit = store.default_certs_are_explicit
        /\ store'.cert_allocated = store.cert_allocated
    BY <2>1, <2>2 DEF StoreRight, s2n_config_init
  <2>4. StoreRight(store', chains, added) BY <2>2, <2>3 DEF StoreRight, Defaults
  <2> QED BY <2>1, <2>4 DEF ChainInv
<1>5. CASE \E id \in Chains, response \in Responses : SetOcspData(id, response) BY <1>5, OcspStep
<1>6. CASE FreeConfig BY <1>6, FreeConfigStep
<1>7. CASE \E client \in Clients, version \in CertVersions, type \in CertTypes : ServerCert(client, version, type)
  BY <1>1, <1>7 DEF ServerCert
<1>8. CASE CertRecv \/ StatusRecv \/ GetPeerCertChain
  BY <1>1, <1>8 DEF CertRecv, StatusRecv, GetPeerCertChain
<1>9. CASE UNCHANGED certvars BY <1>1, <1>9 DEF certvars
<1> QED BY <1>2, <1>3, <1>4, <1>5, <1>6, <1>7, <1>8, <1>9 DEF CertNext

\* There are none at first.
LEMMA InitChains == CertInit => ChainInv
<1> SUFFICES ASSUME CertInit PROVE ChainInv OBVIOUS
<1>1. /\ chains = [id \in Chains |-> NoChain] /\ store = s2n_config_init /\ live = TRUE /\ added = <<>>
  BY DEF CertInit
<1>2. ChainRight(NoChain) /\ NoChain.owner # "config" BY DEF ChainRight, NoChain, NULL
<1>3. Range(added) = {} BY <1>1 DEF Range
<1>4. DOMAIN store.default_certs_by_type = CertTypes /\ \A id \in Defaults(store) : id = NULL
  BY <1>1 DEF s2n_config_init, NoCerts, Defaults
<1>5. store.default_certs_are_explicit = FALSE /\ store.cert_allocated = FALSE BY <1>1 DEF s2n_config_init
<1>6. StoreRight(store, chains, added) BY <1>1, <1>2, <1>3, <1>4, <1>5 DEF StoreRight
<1> QED BY <1>1, <1>2, <1>6 DEF ChainInv

\* And this is what has to be shown.
LEMMA ChainInvMeans == ChainInv => ChainsFreedOnce
<1> SUFFICES ASSUME ChainInv PROVE ChainsFreedOnce OBVIOUS
<1>1. \A id \in Chains : chains[id].freed <= 1 BY DEF ChainInv, ChainRight
<1> QED BY <1>1 DEF ChainInv, StoreRight, Defaults, ChainsFreedOnce

(***************************************************************************)
(* What the library takes it gives back, once, for every number of         *)
(* sockets, handles, calls and failing allocations: the I/O contexts and   *)
(* the memory of a connection (s2n_connection_wipe, s2n_connection_free),  *)
(* the options of the application's sockets (s2n_connection_wipe_io,       *)
(* s2n_advance_message) and the chains of a config, which are freed by     *)
(* whoever made them and not while the config refers to them               *)
(* (s2n_config_free_cert_chain_and_key).                                   *)
(***************************************************************************)
THEOREM EverythingIsGivenBack == MCSpec => []NothingLeaked
<1> DEFINE Inv == Base /\ SocketInv /\ ChainInv
<1>1. MCInit => Inv BY InitBase, InitSockets, InitChains DEF MCInit
<1>2. Inv /\ [MCNext]_<<lvars, certvars, part>> => Inv'
  <2> SUFFICES ASSUME Inv, [MCNext]_<<lvars, certvars, part>> PROVE Inv' OBVIOUS
  <2>1. [LifeNext]_lvars /\ [CertNext]_certvars BY DEF MCNext
  <2> QED BY <2>1, BaseStep, SocketStep, ChainStep
<1>3. Inv => NothingLeaked
  <2>1. Base => MemoryOwned BY DEF Base, Holdings, Owns, Owned, MemoryOwned
  <2> QED BY <2>1, SocketInvMeans, ChainInvMeans DEF NothingLeaked
<1> QED BY <1>1, <1>2, <1>3, PTL DEF MCSpec
=============================================================================
